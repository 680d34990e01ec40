--------------------------- MODULE RuntimeProofs ---------------------------
(***************************************************************************)
(* The runtime on what the compiler wrote, for every model that the ONNX   *)
(* checker passes: the loaders and the kernels put every byte where it     *)
(* belongs and destroy none that is still needed, and what is dumped is    *)
(* what onnxruntime computes.                                              *)
(***************************************************************************)
EXTENDS Runtime, CompilerProofs

-----------------------------------------------------------------------------
(* Running sums. *)

(* Partial sums of n numbers. *)
Running(P, w, n) ==
  /\ n \in Nat /\ P \in [0..n -> Nat] /\ P[0] = 0
  /\ \A k \in 1..n : P[k] = P[k - 1] + w[k]
SumsOf(P, w, n) == P = [k \in 0..n |-> IF k = 0 THEN 0 ELSE P[k - 1] + w[k]]

(* They exist, and what satisfies their recursion is them. *)
LEMMA RunningSums ==
  ASSUME NEW n \in Nat, NEW w \in [1..n -> Nat]
  PROVE  \E P : SumsOf(P, w, n)
<1> DEFINE V == Nat
           v == 0
           G == [k \in 1..n |-> [x \in Nat |-> x + w[k]]]
           P == Chain(n, v, G)
<1>1. \A k \in 1..n : \A x \in Nat : G[k][x] = x + w[k] /\ G[k][x] \in Nat
  OBVIOUS
<1>2. v \in V /\ \A k \in 1..n : \A x \in V : G[k][x] \in V
  BY <1>1
<1> HIDE DEF V, v, G
<1>3. P \in [0..n -> V] /\ P[0] = v /\ \A k \in 1..n : P[k] = G[k][P[k - 1]]
  BY <1>2, Recursion
<1> HIDE DEF P
<1>4. P \in [0..n -> Nat] /\ P[0] = 0
  BY <1>3 DEF V, v
<1>5. \A k \in 1..n : P[k] = P[k - 1] + w[k]
  <2> SUFFICES ASSUME NEW k \in 1..n PROVE P[k] = P[k - 1] + w[k]
    OBVIOUS
  <2>1. P[k - 1] \in Nat
    BY <1>4
  <2> QED
    BY <1>1, <1>3, <2>1
<1>6. P = [k \in 0..n |-> P[k]]
  BY <1>4
<1>7. \A k \in 0..n : P[k] = IF k = 0 THEN 0 ELSE P[k - 1] + w[k]
  BY <1>4, <1>5
<1>8. SumsOf(P, w, n)
  BY <1>6, <1>7 DEF SumsOf
<1> QED
  BY <1>8

(* Their recursion in steps. *)
LEMMA SumsRun ==
  ASSUME NEW n \in Nat, NEW w \in [1..n -> Nat], NEW P, SumsOf(P, w, n)
  PROVE  Running(P, w, n)
<1>1. P = [k \in 0..n |-> IF k = 0 THEN 0 ELSE P[k - 1] + w[k]]
  BY DEF SumsOf
<1>2. P[0] = 0 /\ \A k \in 1..n : P[k] = P[k - 1] + w[k]
  BY <1>1
<1> DEFINE S == {k \in 0..n : P[k] \in Nat}
<1>3. 0 \in S
  BY <1>2
<1>4. ASSUME NEW k \in 0..n - 1, k \in S PROVE k + 1 \in S
  <2>1. k + 1 \in 1..n /\ k + 1 \in 0..n /\ (k + 1) - 1 = k
    OBVIOUS
  <2>2. P[k + 1] = P[k] + w[k + 1] /\ w[k + 1] \in Nat
    BY <1>2, <2>1
  <2> QED
    BY <1>4, <2>1, <2>2
<1>5. \A k \in 0..n : k \in S
  <2> HIDE DEF S
  <2> QED
    BY <1>3, <1>4, InductTo
<1>6. P \in [0..n -> Nat]
  BY <1>1, <1>5
<1> QED
  BY <1>2, <1>6 DEF Running

(* They only grow. *)
LEMMA SumsGrow ==
  ASSUME NEW n \in Nat, NEW w \in [1..n -> Nat], NEW P, Running(P, w, n),
         NEW i \in 0..n, NEW j \in i..n
  PROVE  P[i] <= P[j]
<1>1. P \in [0..n -> Nat] /\ \A k \in 1..n : P[k] = P[k - 1] + w[k]
  BY DEF Running
<1> DEFINE m == n - i
           S == {k \in 0..m : P[i] <= P[i + k]}
<1>2. m \in Nat
  OBVIOUS
<1>3. 0 \in S
  BY <1>1
<1>4. ASSUME NEW k \in 0..m - 1, k \in S PROVE k + 1 \in S
  <2>1. i + (k + 1) \in 1..n /\ i + k \in 0..n /\ (i + (k + 1)) - 1 = i + k /\ k + 1 \in 0..m
    OBVIOUS
  <2>2. P[i + (k + 1)] = P[i + k] + w[i + (k + 1)] /\ w[i + (k + 1)] \in Nat
    BY <1>1, <2>1
  <2>3. P[i] \in Nat /\ P[i + k] \in Nat /\ P[i] <= P[i + k]
    BY <1>1, <1>4, <2>1
  <2> QED
    BY <2>1, <2>2, <2>3
<1>5. \A k \in 0..m : k \in S
  <2> HIDE DEF S, m
  <2> QED
    BY <1>2, <1>3, <1>4, InductTo
<1>6. j - i \in 0..m /\ i + (j - i) = j
  OBVIOUS
<1> QED
  BY <1>5, <1>6

-----------------------------------------------------------------------------
(* The persistent regions. *)

(* What the tensors of a list take, each rounded up. *)
RoundedSizes(s) == [i \in 1..Len(s) |-> Align(tensors[s[i]].size)]

(* The offsets of a persistent region are the running sums of its sizes. *)
LEMMA PersistentSlots ==
  ASSUME ExtractionInv, TableInv, stage \in FromSchedule, NEW r
  PROVE  LET s == InRegion(r)
         IN  /\ Len(s) \in Nat /\ RoundedSizes(s) \in [1..Len(s) -> Nat]
             /\ \E P : /\ Running(P, RoundedSizes(s), Len(s))
                       /\ \A i \in 1..Len(s) : PersistentOffset(s[i]) = P[i - 1]
<1> DEFINE s == InRegion(r)
           n == Len(s)
           w == RoundedSizes(s)
           Fits(f) == f = [j \in 0..n |-> IF j = 0 THEN 0
                                          ELSE f[j - 1] + Align(tensors[s[j]].size)]
           P == CHOOSE f : Fits(f)
<1>1. /\ s \in Seq(Name) /\ NoRepeat(s) /\ ToSet(s) = InRegionSet(r)
      /\ WellFormed(tensors)
  BY RegionListed, TableIsWellFormed
<1>2. n \in Nat /\ DOMAIN s = 1..n
  BY <1>1
<1>3. \A i \in 1..n : s[i] \in DOMAIN tensors /\ tensors[s[i]].region = r
  BY <1>1, <1>2 DEF ToSet, InRegionSet
<1>4. \A i \in 1..n : Align(tensors[s[i]].size) \in Nat
  BY <1>1, <1>3, AlignRounds DEF WellFormed, Tensor
<1>5. w = [i \in 1..n |-> Align(tensors[s[i]].size)]
  BY DEF RoundedSizes
<1>6. \A i \in 1..n : PersistentOffset(s[i]) = P[i - 1]
  <2> SUFFICES ASSUME NEW i \in 1..n PROVE PersistentOffset(s[i]) = P[i - 1]
    OBVIOUS
  <2>1. InRegion(tensors[s[i]].region) = s
    BY <1>3
  <2>2. PersistentOffset(s[i]) = P[(CHOOSE j \in DOMAIN s : s[j] = s[i]) - 1]
    BY <2>1 DEF PersistentOffset
  <2>3. \A j \in DOMAIN s : s[j] = s[i] => j = i
    BY <1>1, <1>2 DEF NoRepeat
  <2>4. (CHOOSE j \in DOMAIN s : s[j] = s[i]) = i
    BY <1>2, <2>3
  <2> QED
    BY <2>2, <2>4
<1> HIDE DEF s, n, w
<1>7. w \in [1..n -> Nat] /\ \A i \in 1..n : w[i] = Align(tensors[s[i]].size)
  BY <1>4, <1>5
<1>8. ASSUME NEW f
      PROVE  [j \in 0..n |-> IF j = 0 THEN 0 ELSE f[j - 1] + Align(tensors[s[j]].size)]
               = [j \in 0..n |-> IF j = 0 THEN 0 ELSE f[j - 1] + w[j]]
  <2>1. \A j \in 0..n : j # 0 => w[j] = Align(tensors[s[j]].size)
    BY <1>2, <1>7
  <2> QED
    BY <2>1
<1>9. \A f : Fits(f) <=> SumsOf(f, w, n)
  BY <1>8 DEF SumsOf
<1> HIDE DEF Fits
<1>10. \E f : Fits(f)
  BY <1>2, <1>7, <1>9, RunningSums
<1>11. SumsOf(P, w, n)
  BY <1>9, <1>10
<1> HIDE DEF P
<1>12. Running(P, w, n)
  BY <1>2, <1>7, <1>11, SumsRun
<1> QED
  BY <1>2, <1>6, <1>7, <1>12 DEF s, n, w

(* Bytes of x at a, and of y at b, none in common. *)
Clear(a, x, b, y) == a + x <= b \/ b + y <= a

(* Two tensors of a persistent region share no byte. *)
LEMMA PersistentApart ==
  ASSUME ExtractionInv, TableInv, stage \in FromSchedule,
         NEW m \in DOMAIN tensors, NEW n \in DOMAIN tensors, m # n,
         tensors[m].region = tensors[n].region
  PROVE  /\ PersistentOffset(m) \in Nat /\ PersistentOffset(n) \in Nat
         /\ Clear(PersistentOffset(m), tensors[m].size, PersistentOffset(n), tensors[n].size)
<1> DEFINE r == tensors[m].region
           s == InRegion(r)
           c == Len(s)
           w == RoundedSizes(s)
<1>1. ToSet(s) = InRegionSet(r) /\ WellFormed(tensors) /\ s \in Seq(Name)
  BY RegionListed, TableIsWellFormed
<1>2. c \in Nat /\ w \in [1..c -> Nat] /\ DOMAIN s = 1..c
  BY <1>1, PersistentSlots
<1>3. PICK P : Running(P, w, c) /\ \A i \in 1..c : PersistentOffset(s[i]) = P[i - 1]
  BY PersistentSlots
<1>4. PICK i \in 1..c : s[i] = m
  BY <1>1, <1>2 DEF ToSet, InRegionSet
<1>5. PICK j \in 1..c : s[j] = n
  BY <1>1, <1>2 DEF ToSet, InRegionSet
<1>6. i # j
  BY <1>4, <1>5
<1>7. /\ tensors[m].size \in Nat /\ tensors[n].size \in Nat
      /\ tensors[m].size <= Align(tensors[m].size) /\ Align(tensors[m].size) \in Nat
      /\ tensors[n].size <= Align(tensors[n].size) /\ Align(tensors[n].size) \in Nat
  BY <1>1, AlignRounds DEF WellFormed, Tensor
<1>8. w[i] = Align(tensors[m].size) /\ w[j] = Align(tensors[n].size)
  BY <1>4, <1>5 DEF RoundedSizes
<1> HIDE DEF r, s, c, w
<1>9. /\ P \in [0..c -> Nat]
      /\ P[i] = P[i - 1] + w[i] /\ P[j] = P[j - 1] + w[j]
  BY <1>3 DEF Running
<1>10. /\ i - 1 \in 0..c /\ j - 1 \in 0..c /\ i \in 0..c /\ j \in 0..c
       /\ i < j => j - 1 \in i..c
       /\ j < i => i - 1 \in j..c
  BY <1>2
<1>11. i < j => P[i] <= P[j - 1]
  BY <1>2, <1>3, <1>10, SumsGrow
<1>12. j < i => P[j] <= P[i - 1]
  BY <1>2, <1>3, <1>10, SumsGrow
<1>13. /\ PersistentOffset(m) = P[i - 1] /\ PersistentOffset(n) = P[j - 1]
       /\ P[i - 1] \in Nat /\ P[j - 1] \in Nat /\ P[i] \in Nat /\ P[j] \in Nat
  BY <1>3, <1>4, <1>5, <1>9, <1>10
<1>14. i < j \/ j < i
  BY <1>6
<1> DEFINE a == tensors[m].size
           b == tensors[n].size
<1> HIDE DEF a, b
<1>15. /\ a \in Nat /\ b \in Nat
       /\ i < j => P[i - 1] + a <= P[j - 1]
       /\ j < i => P[j - 1] + b <= P[i - 1]
  BY <1>7, <1>8, <1>9, <1>11, <1>12, <1>13 DEF a, b
<1> QED
  BY <1>13, <1>14, <1>15 DEF Clear, a, b

(* Every persistent tensor has a place. *)
LEMMA PersistentIsNat ==
  ASSUME ExtractionInv, TableInv, stage \in FromSchedule, NEW n \in DOMAIN tensors
  PROVE  PersistentOffset(n) \in Nat
<1> DEFINE r == tensors[n].region
           s == InRegion(r)
           c == Len(s)
<1>1. ToSet(s) = InRegionSet(r) /\ s \in Seq(Name)
  BY RegionListed
<1>2. c \in Nat /\ DOMAIN s = 1..c
  BY <1>1, PersistentSlots
<1>3. PICK P : Running(P, RoundedSizes(s), c) /\ \A i \in 1..c : PersistentOffset(s[i]) = P[i - 1]
  BY PersistentSlots
<1>4. PICK i \in 1..c : s[i] = n
  BY <1>1, <1>2 DEF ToSet, InRegionSet
<1> HIDE DEF r, s, c
<1>5. i - 1 \in 0..c
  BY <1>2
<1> QED
  BY <1>3, <1>4, <1>5 DEF Running

-----------------------------------------------------------------------------
(* The memory map of a compiled model. *)

(* The extractor can tell the size of every tensor of the table. *)
AllSized(g) == \A n \in Tabled(g) : Sized(g, n)

(* A model has been compiled. *)
Compiled ==
  /\ stage = "done" /\ ExtractionInv /\ TableInv /\ PlanInv /\ FilesInv
  /\ AllSized(graph)
RegionIn(n) == RegionOf(KindOf(graph, n))
Table == Tabled(graph)

(* What the invariants say of a compiled model. *)
LEMMA CompiledStages ==
  ASSUME Compiled
  PROVE  /\ OnnxModel(graph) /\ StoredOrderValid(graph) /\ AllSized(graph)
         /\ Refused(graph, WeightList(graph)) = {}
         /\ ids = TensorIds(graph) /\ instructions = Program(graph)
         /\ tensors = FinalTable(graph) /\ InOrder /\ AllPlaced
         /\ build.instructions = Program(graph) /\ build.order = OrderFile
         /\ build.tensors = TableFile /\ build.weights = WeightFile(graph)
         /\ stage \in FromSchedule
<1>1. /\ stage \in FromIds /\ stage \in FromFold /\ stage \in FromTable /\ stage \in FromSchedule
      /\ stage \in AfterSchedule /\ stage \in AfterPlacement /\ stage \in {"weights", "done"}
  BY DEF Compiled, FromIds, FromFold, FromTable, FromSchedule, FromPlan, AfterSchedule,
         AfterPlacement
<1> QED
  BY <1>1 DEF Compiled, ExtractionInv, TableInv, PlanInv, FilesInv

(* What an instruction makes is in the table, and no other instruction makes it. *)
LEMMA MadeHere ==
  ASSUME Compiled, NEW i \in DOMAIN Program(graph), NEW n \in ToSet(Program(graph)[i].out)
  PROVE  /\ n \in Table /\ MakerOf(graph, n) = i /\ i \in Nat \ {0}
         /\ n \notin Given(graph) /\ n \notin ConstantOutputs(graph)
         /\ RegionIn(n) \in {"OUTPUT", "ACTIVATION"}
<1>1. OnnxModel(graph)
  BY CompiledStages
<1>2. n \in Table
  <2>1. n \in Referenced(graph)
    BY DEF Referenced
  <2> QED
    BY <1>1, <2>1, ReferencedIsTabled DEF Table
<1>3. i \in MakersOf(graph, n)
  BY DEF MakersOf
<1>4. /\ MakerOf(graph, n) = i /\ i \in Nat \ {0}
      /\ n \notin Given(graph) /\ n \notin ConstantOutputs(graph)
  BY <1>1, <1>3, MadeOnce
<1>5. KindOf(graph, n) \in {"OUTPUT", "ACTIVATION"}
  BY <1>4 DEF KindOf, Given
<1>6. RegionIn(n) \in {"OUTPUT", "ACTIVATION"}
  BY <1>5 DEF RegionIn, RegionOf
<1> QED
  BY <1>2, <1>4, <1>6

(* What an instruction reads is loaded or was made before. *)
LEMMA ReadHere ==
  ASSUME Compiled, NEW i \in DOMAIN Program(graph), NEW n \in ToSet(Program(graph)[i].in)
  PROVE  /\ n \in Table /\ i \in ReadersOf(graph, n)
         /\ \/ KindOf(graph, n) \in {"INPUT", "WEIGHT", "BIAS", "CONSTANT"}
            \/ \E j \in 1..i - 1 : j \in DOMAIN Program(graph)
                                   /\ n \in ToSet(Program(graph)[j].out)
<1>1. /\ OnnxModel(graph) /\ instructions = Program(graph) /\ InOrder
      /\ tensors = FinalTable(graph)
  BY CompiledStages
<1>2. n \in Referenced(graph)
  BY DEF Referenced, Consumed
<1>3. n \in Tabled(graph)
  BY <1>1, <1>2, ReferencedIsTabled
<1>4. tensors[n].kind = KindOf(graph, n)
  BY <1>1, <1>3, FinalRows
<1>5. n \in AvailableAt(i)
  BY <1>1 DEF InOrder
<1>6. \A j \in 1..i - 1 : j \in DOMAIN Program(graph)
  <2>1. \E c \in Nat : DOMAIN Program(graph) = 1..c
    BY <1>1, InstructionsAre
  <2> QED
    BY <2>1
<1>7. \/ KindOf(graph, n) \in {"INPUT", "WEIGHT", "BIAS", "CONSTANT"}
      \/ \E j \in 1..i - 1 : j \in DOMAIN Program(graph) /\ n \in ToSet(Program(graph)[j].out)
  BY <1>1, <1>4, <1>5, <1>6 DEF AvailableAt
<1>8. i \in ReadersOf(graph, n)
  BY DEF ReadersOf
<1> QED
  BY <1>3, <1>7, <1>8 DEF Table

(* Every activation in the table is made by an instruction, so that the planner
   has a place for every tensor. *)
LEMMA ActivationsMade ==
  ASSUME Compiled, NEW n \in Table, RegionIn(n) = "ACTIVATION"
  PROVE  \E i \in DOMAIN Program(graph) : n \in ToSet(Program(graph)[i].out)
<1>1. KindOf(graph, n) = "ACTIVATION"
  BY DEF RegionIn, RegionOf, KindOf
<1>2. n \in Referenced(graph)
  BY <1>1 DEF Table, Tabled
<1>3. CASE n \in Consumed(Program(graph))
  <2>1. PICK i \in DOMAIN Program(graph) : n \in ToSet(Program(graph)[i].in)
    BY <1>3 DEF Consumed
  <2> QED
    BY <1>1, <2>1, ReadHere
<1>4. CASE n \notin Consumed(Program(graph))
  BY <1>2, <1>4 DEF Referenced
<1> QED
  BY <1>3, <1>4

(* The memory map that the runtime loads. *)
Layout ==
  /\ \A n \in Table :
       /\ n \in Name /\ n \in DOMAIN tensors /\ graph.bytes[n] \in Nat
       /\ RegionIn(n) \in MemoryRegion
       /\ Loaded[n].region = RegionIn(n) /\ Loaded[n].size = graph.bytes[n]
       /\ At(n) \in Nat
  /\ \A m, n \in Table :
       /\ m # n /\ RegionIn(m) = RegionIn(n)
       /\ RegionIn(m) = "ACTIVATION" => LifetimesMeet(tensors[m], tensors[n])
       => Clear(At(m), graph.bytes[m], At(n), graph.bytes[n])

(* A compiled model has such a map. *)
LEMMA LaidOut ==
  ASSUME Compiled
  PROVE  Layout /\ DOMAIN Loaded = Table
<1>1. /\ OnnxModel(graph) /\ StoredOrderValid(graph) /\ AllSized(graph)
      /\ tensors = FinalTable(graph)
      /\ AllPlaced /\ build.tensors = TableFile /\ stage \in FromSchedule
      /\ ExtractionInv /\ TableInv
  BY CompiledStages DEF Compiled
<1>2. DOMAIN tensors = Table /\ WellFormed(tensors)
  BY <1>1, FinalTableIsWellFormed DEF FinalTable, Table
<1>3. ASSUME NEW n \in Table
      PROVE  /\ n \in Name /\ tensors[n].size = graph.bytes[n] /\ graph.bytes[n] \in Nat
             /\ tensors[n].region = RegionIn(n) /\ RegionIn(n) \in MemoryRegion
             /\ tensors[n].producer = MakerOf(graph, n)
  <2>1. /\ tensors[n].size = TableSize(graph, n) /\ tensors[n].region = RegionIn(n)
        /\ tensors[n].producer = MakerOf(graph, n)
    BY <1>1, FinalRows DEF Table, RegionIn
  <2>2. n \in Name /\ tensors[n].size \in Nat /\ tensors[n].region \in MemoryRegion
    BY <1>2 DEF WellFormed, Tensor
  <2>3. Sized(graph, n)
    BY <1>1 DEF AllSized, Table
  <2>4. TableSize(graph, n) = graph.bytes[n]
    BY <1>1, <2>2, <2>3, TableSizes
  <2> QED
    BY <2>1, <2>2, <2>4
<1>4. ASSUME NEW n \in Table, RegionIn(n) = "ACTIVATION"
      PROVE  n \in ToPlace(tensors)
  <2>1. PICK i \in DOMAIN Program(graph) : n \in ToSet(Program(graph)[i].out)
    BY <1>4, ActivationsMade
  <2>2. MakerOf(graph, n) = i /\ i \in Nat
    BY <2>1, MadeHere
  <2>3. tensors[n].producer # NONE
    BY <1>3, <2>2 DEF NONE
  <2> QED
    BY <1>2, <1>3, <1>4, <2>3 DEF ToPlace
<1>5. \A n \in Table : RegionIn(n) # "ACTIVATION" => n \in Persistent
  BY <1>2, <1>3 DEF Persistent
<1>6. ASSUME NEW n \in Table PROVE n \in DOMAIN offset /\ offset[n] \in Nat
  <2>1. CASE RegionIn(n) = "ACTIVATION"
    BY <1>1, <1>4, <2>1 DEF AllPlaced
  <2>2. CASE RegionIn(n) # "ACTIVATION"
    BY <1>1, <1>2, <1>5, <2>2, PersistentIsNat DEF AllPlaced
  <2> QED
    BY <2>1, <2>2
<1>7. ASSUME NEW n \in Table
      PROVE  /\ At(n) = offset[n] /\ Loaded[n].region = RegionIn(n)
             /\ Loaded[n].size = graph.bytes[n]
  <2>1. Loaded[n] = [region |-> tensors[n].region, size |-> tensors[n].size,
                     offset |-> offset[n], producer |-> tensors[n].producer]
    BY <1>1, <1>2, <1>6 DEF Loaded, TableFile
  <2>2. offset[n] # NONE
    BY <1>6 DEF NONE
  <2> QED
    BY <1>3, <2>1, <2>2 DEF At
<1>8. ASSUME NEW m \in Table, NEW n \in Table, m # n, RegionIn(m) = RegionIn(n),
             RegionIn(m) = "ACTIVATION" => LifetimesMeet(tensors[m], tensors[n])
      PROVE  Clear(At(m), graph.bytes[m], At(n), graph.bytes[n])
  <2>1. CASE RegionIn(m) = "ACTIVATION"
    <3>1. ~RangesMeet(offset[m], Align(tensors[m].size), offset[n], Align(tensors[n].size))
      BY <1>1, <1>4, <1>8, <2>1 DEF AllPlaced
    <3>2. /\ tensors[m].size <= Align(tensors[m].size) /\ Align(tensors[m].size) \in Nat
          /\ tensors[n].size <= Align(tensors[n].size) /\ Align(tensors[n].size) \in Nat
      BY <1>3, AlignRounds
    <3>3. offset[m] \in Nat /\ offset[n] \in Nat
      BY <1>6
    <3>4. /\ tensors[m].size = graph.bytes[m] /\ graph.bytes[m] \in Nat
          /\ tensors[n].size = graph.bytes[n] /\ graph.bytes[n] \in Nat
      BY <1>3
    <3>5. Clear(offset[m], graph.bytes[m], offset[n], graph.bytes[n])
      BY <3>1, <3>2, <3>3, <3>4 DEF RangesMeet, Clear
    <3> QED
      BY <1>7, <3>5
  <2>2. CASE RegionIn(m) # "ACTIVATION"
    <3>1. offset[m] = PersistentOffset(m) /\ offset[n] = PersistentOffset(n)
      BY <1>1, <1>5, <1>8, <2>2 DEF AllPlaced
    <3>2. Clear(PersistentOffset(m), tensors[m].size, PersistentOffset(n), tensors[n].size)
      BY <1>1, <1>2, <1>3, <1>8, PersistentApart
    <3> QED
      BY <1>3, <1>7, <3>1, <3>2
  <2> QED
    BY <2>1, <2>2
<1>9. DOMAIN Loaded = Table
  BY <1>1, <1>2 DEF Loaded, TableFile
<1>10. \A n \in Table : At(n) \in Nat
  BY <1>6, <1>7
<1> QED
  BY <1>2, <1>3, <1>7, <1>8, <1>9, <1>10 DEF Layout

-----------------------------------------------------------------------------
(* The bytes of a tensor in its arena. *)

(* The greatest of finitely many numbers. *)
LEMMA MaxOf ==
  ASSUME NEW S \in SUBSET Int, IsFiniteSet(S), S # {}
  PROVE  Max(S) \in S /\ \A x \in S : x <= Max(S)
<1> DEFINE n == Cardinality(S)
           q == Ascending(S)
<1>1. n \in Nat /\ Lists(q, n, S)
  BY AscendingLists
<1> HIDE DEF n, q
<1>2. /\ q \in [1..n -> S] /\ \A j \in 1..n : q[j] \in Int
      /\ \A i, j \in 1..n : i < j => q[i] < q[j]
      /\ \A x \in S : \E j \in 1..n : q[j] = x
  BY <1>1 DEF Lists
<1>3. n \in 1..n
  <2>1. PICK x \in S : TRUE
    OBVIOUS
  <2>2. PICK j \in 1..n : q[j] = x
    BY <1>2
  <2> QED
    BY <1>1, <2>2
<1>4. q[n] \in S /\ \A x \in S : q[n] >= x
  <2> SUFFICES ASSUME NEW x \in S PROVE q[n] >= x
    BY <1>2, <1>3
  <2>1. PICK j \in 1..n : q[j] = x
    BY <1>2
  <2>2. j < n \/ j = n
    BY <1>3
  <2> QED
    BY <1>2, <1>3, <2>1, <2>2
<1>5. Max(S) = CHOOSE x \in S : \A y \in S : x >= y
  BY DEF Max
<1>6. Max(S) \in S /\ \A y \in S : Max(S) >= y
  BY <1>4, <1>5
<1>7. Max(S) \in Int
  BY <1>6
<1> QED
  BY <1>6, <1>7

(* The arenas hold bytes, and there is room for every tensor of the table. *)
Byte == (Name \cup {ABSENT}) \X Int
Cell(n, k) == arena[RegionIn(n)][At(n) + k]
Room ==
  /\ arena \in [MemoryRegion -> Seq(Byte)]
  /\ \A n \in Table : \A k \in 1..graph.bytes[n] : At(n) + k \in DOMAIN arena[RegionIn(n)]
Holds(n) == \A k \in 1..graph.bytes[n] : Cell(n, k) = <<n, k>>

(* The bytes of a tensor, cell by cell. *)
LEMMA StoredIs ==
  ASSUME Layout, Room, NEW n \in Table
  PROVE  Stored(n) = [k \in 1..graph.bytes[n] |-> Cell(n, k)]
<1> DEFINE r == RegionIn(n)
           a == At(n)
           z == graph.bytes[n]
           s == arena[r]
           q == SubSeq(s, a + 1, a + z)
<1>1. /\ a \in Nat /\ z \in Nat /\ r \in MemoryRegion
      /\ Loaded[n].region = r /\ Loaded[n].size = z
  BY DEF Layout
<1>2. s \in Seq(Byte) /\ \A k \in 1..z : a + k \in DOMAIN s
  BY <1>1 DEF Room
<1>3. Stored(n) = q
  BY <1>1 DEF Stored
<1>4. \A k \in 1..z : Cell(n, k) = s[a + k]
  BY DEF Cell
<1> HIDE DEF r, a, z, s
<1>5. ASSUME NEW i \in a + 1..a + z PROVE s[i] \in Byte
  <2>1. i - a \in 1..z /\ a + (i - a) = i
    BY <1>1
  <2>2. i \in DOMAIN s
    BY <1>2, <2>1
  <2> QED
    BY <1>2, <2>2
<1>6. a + 1 \in Int /\ a + z \in Int
  BY <1>1
<1>7. /\ q \in Seq(Byte)
      /\ Len(q) = IF a + 1 <= a + z THEN (a + z) - (a + 1) + 1 ELSE 0
      /\ \A i \in 1..(a + z) - (a + 1) + 1 : q[i] = s[(a + 1) + i - 1]
  BY <1>5, <1>6, SubSeqProperties
<1>8. (a + z) - (a + 1) + 1 = z /\ (~(a + 1 <= a + z) => z = 0)
  BY <1>1
<1>9. Len(q) = z /\ \A i \in 1..z : q[i] = s[a + i]
  <2>1. \A i \in 1..z : (a + 1) + i - 1 = a + i
    BY <1>1
  <2> QED
    BY <1>7, <1>8, <2>1
<1> HIDE DEF q
<1>10. q = [i \in 1..z |-> q[i]]
  BY <1>7, <1>9
<1> QED
  BY <1>3, <1>4, <1>9, <1>10 DEF z

(* A tensor is intact if each of its bytes is in place. *)
LEMMA IntactMeans ==
  ASSUME Layout, Room, NEW n \in Table
  PROVE  Intact(n) <=> Holds(n)
<1> DEFINE z == graph.bytes[n]
<1>1. Stored(n) = [k \in 1..z |-> Cell(n, k)]
  BY StoredIs
<1>2. Bytes(n) = [k \in 1..z |-> <<n, k>>]
  BY DEF Bytes
<1>3. Holds(n) <=> \A k \in 1..z : Cell(n, k) = <<n, k>>
  BY DEF Holds
<1> HIDE DEF z
<1>4. ASSUME Intact(n) PROVE Holds(n)
  <2>1. [k \in 1..z |-> Cell(n, k)] = [k \in 1..z |-> <<n, k>>]
    BY <1>1, <1>2, <1>4 DEF Intact
  <2> SUFFICES ASSUME NEW k \in 1..z PROVE Cell(n, k) = <<n, k>>
    BY <1>3
  <2> QED
    BY <2>1
<1>5. ASSUME Holds(n) PROVE Intact(n)
  BY <1>1, <1>2, <1>3, <1>5 DEF Intact
<1> QED
  BY <1>4, <1>5

(* Binding makes room for everything. *)
LEMMA Bound ==
  ASSUME Compiled, Bind
  PROVE  Room'
<1>1. Layout /\ DOMAIN Loaded = Table /\ OnnxModel(graph)
  BY LaidOut, CompiledStages
<1>2. IsFiniteSet(Table)
  BY <1>1, ReferencedIsTabled DEF Table
<1> DEFINE In(r) == {m \in DOMAIN Loaded : Loaded[m].region = r}
           Ends1(r) == {At(n) + Loaded[n].size : n \in In(r)}
           cap(r) == Max(Ends1(r) \cup {0})
<1>3. /\ arena' = [r \in MemoryRegion |-> [k \in 1..cap(r) |-> ZERO]]
      /\ UNCHANGED <<graph, build>>
  BY DEF Bind, compilerVars, extractVars
<1>4. ASSUME NEW r
      PROVE  cap(r) \in Nat /\ \A n \in In(r) : At(n) + Loaded[n].size <= cap(r)
  <2> DEFINE E == Ends1(r) \cup {0}
             f == [n \in In(r) |-> At(n) + Loaded[n].size]
  <2>1. IsFiniteSet(In(r))
    BY <1>1, <1>2, FS_Subset
  <2>2. \A n \in In(r) : At(n) + Loaded[n].size \in Nat
    BY <1>1 DEF Layout
  <2>3. f \in Surjection(In(r), Ends1(r))
    BY DEF Surjection
  <2>4. IsFiniteSet(Ends1(r))
    BY <2>1, <2>3, FS_Surjection
  <2>5. IsFiniteSet(E)
    BY <2>4, FS_AddElement
  <2>6. E \in SUBSET Nat /\ E # {}
    BY <2>2
  <2>7. \A n \in In(r) : At(n) + Loaded[n].size \in E
    OBVIOUS
  <2> HIDE DEF E
  <2>8. E \in SUBSET Int
    BY <2>6
  <2>9. Max(E) \in E /\ \A x \in E : x <= Max(E)
    BY <2>5, <2>6, <2>8, MaxOf
  <2> QED
    BY <2>6, <2>7, <2>9 DEF E
<1>5. \A n \in Table : /\ RegionIn(n) \in MemoryRegion /\ n \in In(RegionIn(n))
                       /\ At(n) \in Nat /\ Loaded[n].size = graph.bytes[n] /\ graph.bytes[n] \in Nat
  BY <1>1 DEF Layout
<1> HIDE DEF cap, In
<1>6. ZERO \in Byte
  BY DEF ZERO, Byte
<1>7. arena' \in [MemoryRegion -> Seq(Byte)]
  <2> SUFFICES ASSUME NEW r \in MemoryRegion PROVE [k \in 1..cap(r) |-> ZERO] \in Seq(Byte)
    BY <1>3
  <2> QED
    BY <1>4, <1>6
<1>8. ASSUME NEW n \in Table, NEW k \in 1..graph.bytes[n]
      PROVE  At(n) + k \in DOMAIN arena'[RegionIn(n)]
  <2>1. At(n) + graph.bytes[n] <= cap(RegionIn(n)) /\ cap(RegionIn(n)) \in Nat
    BY <1>4, <1>5
  <2>2. At(n) + k \in 1..cap(RegionIn(n))
    BY <1>5, <2>1
  <2> QED
    BY <1>3, <1>5, <2>2
<1>9. /\ Table' = Table /\ \A n : RegionIn(n)' = RegionIn(n) /\ At(n)' = At(n)
  BY <1>3 DEF Table, RegionIn, At, Loaded
<1> QED
  BY <1>3, <1>7, <1>8, <1>9 DEF Room

-----------------------------------------------------------------------------
(* The loaders. *)

(* The runtime goes through a region in the order in which the compiler did. *)
LEMMA OrderedIs ==
  ASSUME Compiled, NEW r
  PROVE  /\ Ordered(r) = InRegion(r) /\ Ordered(r) \in Seq(Name) /\ NoRepeat(Ordered(r))
         /\ \A n : n \in ToSet(Ordered(r)) <=> n \in Table /\ RegionIn(n) = r
<1> DEFINE K == {i \in DOMAIN ids : ids[i] \in DOMAIN tensors}
           order == build.order
           L == {j \in DOMAIN order : Loaded[order[j]].region = r}
           c == Cardinality(K)
           q == Ascending(K)
<1>1. /\ ExtractionInv /\ TableInv /\ stage \in FromSchedule
      /\ order = OrderFile /\ tensors = FinalTable(graph)
  BY CompiledStages DEF Compiled
<1>2. Layout /\ DOMAIN Loaded = Table /\ DOMAIN tensors = Table
  BY <1>1, LaidOut DEF FinalTable, Table
<1>3. \A n \in Table : tensors[n].region = RegionIn(n) /\ Loaded[n].region = RegionIn(n)
  BY <1>1, <1>2, FinalRows DEF Layout, Table, RegionIn
<1>4. /\ InRegion(r) \in Seq(Name) /\ NoRepeat(InRegion(r))
      /\ ToSet(InRegion(r)) = InRegionSet(r)
      /\ ids \in Seq(Name) /\ RegionPlaces(r) \in SUBSET DOMAIN ids
      /\ InRegion(r) = Sublist(ids, RegionPlaces(r))
  BY <1>1, RegionListed
<1>5. K \in SUBSET DOMAIN ids /\ order = Sublist(ids, K)
  BY <1>1 DEF OrderFile
<1>6. /\ Lists(q, c, K) /\ DOMAIN order = 1..c /\ \A j \in 1..c : order[j] = ids[q[j]]
  BY <1>4, <1>5, SublistOf
<1>7. L \in SUBSET 1..c
  BY <1>6
<1>8. Ordered(r) = Sublist(order, L)
  BY DEF Ordered
<1> HIDE DEF K, L, order, c, q
<1>9. Ordered(r) = Sublist(ids, Through(q, L))
  BY <1>4, <1>5, <1>7, <1>8, SublistTwice DEF c, q
<1>10. Through(q, L) = RegionPlaces(r)
  <2>1. ASSUME NEW i \in RegionPlaces(r) PROVE i \in Through(q, L)
    <3>1. i \in K /\ ids[i] \in Table /\ RegionIn(ids[i]) = r
      BY <1>2, <1>3, <2>1 DEF RegionPlaces, K
    <3>2. PICK j \in 1..c : q[j] = i
      BY <1>6, <3>1 DEF Lists
    <3>3. order[j] = ids[i] /\ Loaded[order[j]].region = r
      BY <1>3, <1>6, <3>1, <3>2
    <3>4. j \in L
      BY <1>6, <3>3 DEF L
    <3> QED
      BY <3>2, <3>4 DEF Through
  <2>2. ASSUME NEW i \in Through(q, L) PROVE i \in RegionPlaces(r)
    <3>1. PICK j \in L : q[j] = i
      BY <2>2 DEF Through
    <3>2. j \in 1..c /\ Loaded[order[j]].region = r
      BY <1>6, <3>1 DEF L
    <3>3. i \in K /\ order[j] = ids[i]
      BY <1>6, <3>1, <3>2 DEF Lists
    <3>4. i \in DOMAIN ids /\ ids[i] \in Table
      BY <1>2, <3>3 DEF K
    <3> QED
      BY <1>2, <1>3, <3>2, <3>3, <3>4 DEF RegionPlaces
  <2> QED
    BY <2>1, <2>2
<1>11. Ordered(r) = InRegion(r)
  BY <1>4, <1>9, <1>10
<1>12. \A n : n \in InRegionSet(r) <=> n \in Table /\ RegionIn(n) = r
  BY <1>2, <1>3 DEF InRegionSet
<1> QED
  BY <1>4, <1>11, <1>12

(* Where the file of a region has the bytes of each tensor. *)
LoadedSizes(s) == [i \in 1..Len(s) |-> Loaded[s[i]].size]
FileOf(r, file) ==
  \A i \in 1..Len(Ordered(r)) :
    LET n == Ordered(r)[i]
    IN  \A x \in 1..graph.bytes[n] : file[SizesBefore(Ordered(r), i) + x] = <<n, x>>

(* SizesBefore adds up the sizes of the tensors before one. *)
LEMMA SizesAre ==
  ASSUME NEW s, Len(s) \in Nat, LoadedSizes(s) \in [1..Len(s) -> Nat]
  PROVE  \E P : /\ Running(P, LoadedSizes(s), Len(s))
                /\ \A i \in 1..Len(s) : SizesBefore(s, i) = P[i - 1]
<1> DEFINE n == Len(s)
           w == LoadedSizes(s)
           Fits(f) == f = [j \in 0..n |-> IF j = 0 THEN 0 ELSE f[j - 1] + Loaded[s[j]].size]
           P == CHOOSE f : Fits(f)
<1>1. \A i : SizesBefore(s, i) = P[i - 1]
  BY DEF SizesBefore
<1>2. \A j \in 1..n : w[j] = Loaded[s[j]].size
  BY DEF LoadedSizes
<1> HIDE DEF n, w
<1>3. n \in Nat /\ w \in [1..n -> Nat]
  BY DEF n, w
<1>4. ASSUME NEW f
      PROVE  [j \in 0..n |-> IF j = 0 THEN 0 ELSE f[j - 1] + Loaded[s[j]].size]
               = [j \in 0..n |-> IF j = 0 THEN 0 ELSE f[j - 1] + w[j]]
  <2>1. \A j \in 0..n : j # 0 => w[j] = Loaded[s[j]].size
    BY <1>2, <1>3
  <2> QED
    BY <2>1
<1>5. \A f : Fits(f) <=> SumsOf(f, w, n)
  BY <1>4 DEF SumsOf
<1> HIDE DEF Fits
<1>6. \E f : Fits(f)
  BY <1>3, <1>5, RunningSums
<1>7. SumsOf(P, w, n)
  BY <1>5, <1>6
<1> HIDE DEF P
<1>8. Running(P, w, n)
  BY <1>3, <1>7, SumsRun
<1> QED
  BY <1>1, <1>8 DEF n, w

(* The tensors of a region as a loader goes through them, and their sizes. *)
LEMMA ListedSizes ==
  ASSUME Compiled, NEW r
  PROVE  LET s == Ordered(r)
         IN  /\ Len(s) \in Nat /\ DOMAIN s = 1..Len(s)
             /\ LoadedSizes(s) \in [1..Len(s) -> Nat]
             /\ \A i \in 1..Len(s) : /\ s[i] \in Table /\ RegionIn(s[i]) = r /\ s[i] \in Name
                                     /\ graph.bytes[s[i]] \in Nat
                                     /\ LoadedSizes(s)[i] = graph.bytes[s[i]]
<1> DEFINE s == Ordered(r)
<1>1. s \in Seq(Name) /\ \A n : n \in ToSet(s) <=> n \in Table /\ RegionIn(n) = r
  BY OrderedIs
<1>2. Layout
  BY LaidOut
<1>3. Len(s) \in Nat /\ DOMAIN s = 1..Len(s)
  BY <1>1
<1>4. \A i \in 1..Len(s) : /\ s[i] \in Table /\ RegionIn(s[i]) = r
                           /\ graph.bytes[s[i]] \in Nat /\ s[i] \in Name
                           /\ Loaded[s[i]].size = graph.bytes[s[i]]
  BY <1>1, <1>2, <1>3 DEF ToSet, Layout
<1>5. LoadedSizes(s) = [i \in 1..Len(s) |-> Loaded[s[i]].size]
  BY DEF LoadedSizes
<1> HIDE DEF s
<1> QED
  BY <1>3, <1>4, <1>5 DEF s

(* weights.bin has the bytes of every weight where the loader looks for them. *)
LEMMA WeightsFound ==
  ASSUME Compiled
  PROVE  FileOf("WEIGHT", build.weights)
<1> DEFINE s == Ordered("WEIGHT")
           c == Len(s)
           w == LoadedSizes(s)
           q == [i \in 1..c |-> Contents(graph, s[i])]
<1>1. /\ ExtractionInv /\ TableInv /\ stage \in FromSchedule
      /\ build.weights = WeightFile(graph) /\ Refused(graph, WeightList(graph)) = {}
  BY CompiledStages DEF Compiled
<1>2. s = WeightList(graph)
  BY <1>1, OrderedIs, WeightsAre DEF WeightOrder
<1>3. /\ c \in Nat /\ DOMAIN s = 1..c /\ w \in [1..c -> Nat]
      /\ \A i \in 1..c : /\ s[i] \in Name /\ graph.bytes[s[i]] \in Nat
                         /\ w[i] = graph.bytes[s[i]]
  BY ListedSizes
<1>4. build.weights = FlattenSeq(q)
  BY <1>1, <1>2, <1>3 DEF WeightFile, Accepted
<1>5. PICK P : Running(P, w, c) /\ \A i \in 1..c : SizesBefore(s, i) = P[i - 1]
  BY <1>3, SizesAre
<1> HIDE DEF s, c, w
<1>6. \A i \in 1..c : /\ q[i] \in Seq(Byte) /\ Len(q[i]) = w[i]
                      /\ \A x \in 1..w[i] : q[i][x] = <<s[i], x>>
  <2> SUFFICES ASSUME NEW i \in 1..c
               PROVE  /\ q[i] \in Seq(Byte) /\ Len(q[i]) = w[i]
                      /\ \A x \in 1..w[i] : q[i][x] = <<s[i], x>>
    OBVIOUS
  <2>1. w[i] \in Nat /\ s[i] \in Name
    BY <1>3
  <2>2. q[i] = [k \in 1..w[i] |-> <<s[i], k>>]
    BY <1>3 DEF Contents
  <2>3. q[i] \in [1..w[i] -> Byte]
    BY <2>1, <2>2 DEF Byte
  <2>4. q[i] \in Seq(Byte) /\ Len(q[i]) = w[i]
    BY <2>1, <2>3, AsSequence
  <2> QED
    BY <2>2, <2>4
<1>7. q \in [1..c -> Seq(Byte)]
  BY <1>6
<1> HIDE DEF q
<1>8. Ends(P, q, c)
  BY <1>5, <1>6 DEF Running, Ends
<1>9. InPlace(FlattenSeq(q), P, q, c)
  BY <1>7, <1>8, FlattenPlaces
<1> SUFFICES ASSUME NEW i \in 1..c, NEW x \in 1..graph.bytes[s[i]]
             PROVE  build.weights[SizesBefore(s, i) + x] = <<s[i], x>>
  BY DEF FileOf, s, c
<1>10. x \in 1..w[i] /\ x \in 1..Len(q[i])
  BY <1>3, <1>6
<1>11. FlattenSeq(q)[P[i - 1] + x] = q[i][x]
  BY <1>9, <1>10 DEF InPlace
<1> QED
  BY <1>4, <1>5, <1>6, <1>10, <1>11

(* input.bin has the bytes of the one input. *)
LEMMA InputFound ==
  ASSUME Compiled, SessionRuns
  PROVE  FileOf("INPUT", InputFile)
<1> DEFINE s == Ordered("INPUT")
           c == Len(s)
           w == LoadedSizes(s)
           f == FirstSeen(graph.inputs, Initializers(graph))
<1>1. OnnxModel(graph) /\ graph.inputs \in Seq(Name)
  BY CompiledStages DEF OnnxModel
<1>2. f \in Seq(Name \ Initializers(graph)) /\ ToSet(f) = GraphInputs(graph)
  BY <1>1, FirstSeenOnce DEF GraphInputs
<1>3. IsFiniteSet(GraphInputs(graph))
  <2>1. IsFiniteSet(DOMAIN f)
    BY <1>2, FS_Interval
  <2>2. f \in Surjection(DOMAIN f, GraphInputs(graph))
    BY <1>2 DEF Surjection, ToSet
  <2> QED
    BY <2>1, <2>2, FS_Surjection
<1>4. PICK x : GraphInputs(graph) = {x}
  BY <1>3, FS_Singleton DEF SessionRuns, Runs
<1>5. Head(f) = x
  <2>1. \E i \in DOMAIN f : f[i] = x
    BY <1>2, <1>4 DEF ToSet
  <2>2. f # <<>> /\ 1 \in DOMAIN f
    BY <1>2, <2>1
  <2>3. Head(f) = f[1]
    BY <1>2, <2>2
  <2>4. f[1] \in GraphInputs(graph)
    BY <1>2, <2>2 DEF ToSet
  <2> QED
    BY <1>4, <2>3, <2>4
<1>6. InputFile = [k \in 1..graph.bytes[x] |-> <<x, k>>]
  BY <1>5 DEF InputFile, Bytes
<1>7. /\ c \in Nat /\ DOMAIN s = 1..c /\ w \in [1..c -> Nat] /\ NoRepeat(s)
      /\ \A i \in 1..c : RegionIn(s[i]) = "INPUT" /\ graph.bytes[s[i]] \in Nat
  BY ListedSizes, OrderedIs
<1>8. \A n : RegionIn(n) = "INPUT" => n \in GraphInputs(graph)
  BY DEF RegionIn, RegionOf, KindOf
<1>9. PICK P : Running(P, w, c) /\ \A i \in 1..c : SizesBefore(s, i) = P[i - 1]
  BY <1>7, SizesAre
<1> HIDE DEF s, c, w, f
<1>10. \A i \in 1..c : s[i] = x
  BY <1>4, <1>7, <1>8
<1>11. \A i \in 1..c : i = 1
  <2> SUFFICES ASSUME NEW i \in 1..c, i # 1 PROVE FALSE
    OBVIOUS
  <2>1. 1 \in DOMAIN s /\ i \in DOMAIN s
    BY <1>7
  <2> QED
    BY <1>7, <1>10, <2>1 DEF NoRepeat
<1> SUFFICES ASSUME NEW i \in 1..c, NEW k \in 1..graph.bytes[s[i]]
             PROVE  InputFile[SizesBefore(s, i) + k] = <<s[i], k>>
  BY DEF FileOf, s, c
<1>12. SizesBefore(s, i) = 0
  <2>1. P[0] = 0
    BY <1>9 DEF Running
  <2>2. i = 1
    BY <1>11
  <2>3. i - 1 = 0
    BY <2>2
  <2> QED
    BY <1>9, <2>1, <2>3
<1>13. k \in 1..graph.bytes[x] /\ s[i] = x /\ graph.bytes[x] \in Nat
  BY <1>7, <1>10
<1>14. 0 + k = k
  BY <1>13
<1> QED
  BY <1>6, <1>12, <1>13, <1>14

(* A loader puts every byte of its region in place. *)
LEMMA ReadInPlace ==
  ASSUME Compiled, Room, NEW r \in {"WEIGHT", "INPUT"}, NEW file, FileOf(r, file)
  PROVE  /\ ReadInto(r, file) \in Seq(Byte)
         /\ DOMAIN ReadInto(r, file) = DOMAIN arena[r]
         /\ \A n \in Table : RegionIn(n) = r =>
              \A k \in 1..graph.bytes[n] : ReadInto(r, file)[At(n) + k] = <<n, k>>
<1> DEFINE s == Ordered(r)
           c == Len(s)
           Hit(k) == {i \in DOMAIN s : At(s[i]) < k /\ k <= At(s[i]) + Loaded[s[i]].size}
           Got(k) == IF Hit(k) = {} THEN arena[r][k]
                     ELSE file[SizesBefore(s, Max(Hit(k))) + k - At(s[Max(Hit(k))])]
<1>1. ReadInto(r, file) = [k \in DOMAIN arena[r] |-> Got(k)]
  BY DEF ReadInto
<1>2. Layout
  BY LaidOut
<1>3. /\ c \in Nat /\ DOMAIN s = 1..c /\ LoadedSizes(s) \in [1..c -> Nat]
      /\ \A i \in 1..c : /\ s[i] \in Table /\ RegionIn(s[i]) = r /\ s[i] \in Name
                         /\ graph.bytes[s[i]] \in Nat
  BY ListedSizes
<1>4. NoRepeat(s) /\ \A n : n \in ToSet(s) <=> n \in Table /\ RegionIn(n) = r
  BY OrderedIs
<1>5. \A i \in 1..c : SizesBefore(s, i) \in Nat
  <2>1. PICK P : /\ Running(P, LoadedSizes(s), c)
                 /\ \A i \in 1..c : SizesBefore(s, i) = P[i - 1]
    BY <1>3, SizesAre
  <2>2. P \in [0..c -> Nat]
    BY <2>1 DEF Running
  <2>3. \A i \in 1..c : i - 1 \in 0..c
    BY <1>3
  <2> QED
    BY <2>1, <2>2, <2>3
<1>6. \A i \in 1..c : /\ At(s[i]) \in Nat /\ Loaded[s[i]].size = graph.bytes[s[i]]
                      /\ graph.bytes[s[i]] \in Nat
  BY <1>2, <1>3 DEF Layout
<1>7. \A i \in 1..c : \A x \in 1..graph.bytes[s[i]] : file[SizesBefore(s, i) + x] = <<s[i], x>>
  BY DEF FileOf
<1> HIDE DEF s, c
<1>8. ASSUME NEW i \in 1..c, NEW j \in 1..c, i # j
      PROVE  Clear(At(s[i]), graph.bytes[s[i]], At(s[j]), graph.bytes[s[j]])
  <2>1. s[i] # s[j]
    BY <1>3, <1>4, <1>8 DEF NoRepeat
  <2>2. RegionIn(s[i]) = r /\ RegionIn(s[j]) = r /\ r # "ACTIVATION"
    BY <1>3
  <2> QED
    BY <1>2, <1>3, <2>1, <2>2 DEF Layout
<1>9. ASSUME NEW i \in 1..c, NEW k \in 1..graph.bytes[s[i]]
      PROVE  Got(At(s[i]) + k) = <<s[i], k>>
  <2> DEFINE a == At(s[i])
             H == Hit(a + k)
  <2>1. a \in Nat /\ graph.bytes[s[i]] \in Nat /\ k \in Int /\ SizesBefore(s, i) \in Nat
    BY <1>5, <1>6
  <2>2. i \in H
    BY <1>3, <1>6, <2>1
  <2>3. ASSUME NEW j \in H, j # i PROVE FALSE
    <3>1. j \in 1..c /\ At(s[j]) < a + k /\ a + k <= At(s[j]) + graph.bytes[s[j]]
      BY <1>3, <1>6, <2>3
    <3>2. Clear(a, graph.bytes[s[i]], At(s[j]), graph.bytes[s[j]])
      BY <1>8, <2>3, <3>1
    <3>3. At(s[j]) \in Nat /\ graph.bytes[s[j]] \in Nat
      BY <1>6, <3>1
    <3> QED
      BY <2>1, <3>1, <3>2, <3>3 DEF Clear
  <2>4. H = {i}
    BY <2>2, <2>3
  <2>5. Max({i}) = i
    <3>1. i \in Int
      BY <1>3
    <3>2. IsFiniteSet({i})
      BY FS_Singleton
    <3>3. {i} \in SUBSET Int /\ {i} # {}
      BY <3>1
    <3>4. Max({i}) \in {i}
      BY <3>2, <3>3, MaxOf
    <3> QED
      BY <3>4
  <2>6. Got(a + k) = file[SizesBefore(s, i) + (a + k) - At(s[i])]
    BY <2>4, <2>5
  <2>7. SizesBefore(s, i) + (a + k) - At(s[i]) = SizesBefore(s, i) + k
    BY <2>1
  <2> QED
    BY <1>7, <2>6, <2>7
<1>10. arena[r] \in Seq(Byte)
  BY DEF Room, MemoryRegion
<1>11. ASSUME NEW k \in DOMAIN arena[r] PROVE Got(k) \in Byte
  <2>1. CASE Hit(k) = {}
    BY <1>10, <2>1
  <2>2. CASE Hit(k) # {}
    <3>1. PICK i \in Hit(k) : TRUE
      BY <2>2
    <3>2. i \in 1..c /\ At(s[i]) < k /\ k <= At(s[i]) + graph.bytes[s[i]]
      BY <1>3, <1>6, <3>1
    <3>3. At(s[i]) \in Nat /\ graph.bytes[s[i]] \in Nat /\ k \in Int
      BY <1>6, <1>10, <3>2
    <3>4. k - At(s[i]) \in 1..graph.bytes[s[i]] /\ At(s[i]) + (k - At(s[i])) = k
      BY <3>2, <3>3
    <3>5. Got(k) = <<s[i], k - At(s[i])>>
      <4> DEFINE x == k - At(s[i])
      <4>1. Got(At(s[i]) + x) = <<s[i], x>>
        BY <1>9, <3>2, <3>4
      <4> HIDE DEF Got
      <4> QED
        BY <3>4, <4>1
    <3> HIDE DEF Got
    <3> QED
      BY <1>3, <3>2, <3>4, <3>5 DEF Byte
  <2> QED
    BY <2>1, <2>2
<1> HIDE DEF Got
<1>12. /\ ReadInto(r, file) \in Seq(Byte)
       /\ DOMAIN ReadInto(r, file) = DOMAIN arena[r]
  BY <1>1, <1>10, <1>11
<1>13. ASSUME NEW n \in Table, RegionIn(n) = r, NEW k \in 1..graph.bytes[n]
       PROVE  ReadInto(r, file)[At(n) + k] = <<n, k>>
  <2>1. PICK i \in 1..c : s[i] = n
    BY <1>3, <1>4, <1>13 DEF ToSet
  <2>2. Got(At(n) + k) = <<n, k>>
    BY <1>9, <2>1
  <2>3. At(n) + k \in DOMAIN arena[r]
    BY <1>13 DEF Room
  <2> QED
    BY <1>1, <2>2, <2>3
<1> QED
  BY <1>12, <1>13

-----------------------------------------------------------------------------
(* The invariant of a run. *)

(* What the instructions before number p have made, and what of it is still
   needed when instruction pc begins. *)
Outs(i) == ToSet(Program(graph)[i].out)
Earlier(p) == UNION {Outs(j) : j \in 1..p - 1}
Kept(n) == RegionIn(n) = "ACTIVATION" => ~DeadBefore(tensors[n], pc)
Todo == OutputBytes(Program(graph)[pc])
RegionHolds(r) == \A n \in Table : RegionIn(n) = r => Holds(n)

(* How far the run has come. *)
Progress ==
  /\ pc \in 1..Len(Program(graph)) + 1 /\ written \in Nat
  /\ dumps = [n \in Earlier(pc) |-> Bytes(n)]
  /\ \A n \in Earlier(pc) : Kept(n) => Holds(n)
  /\ \A k \in 1..written :
       pc <= Len(Program(graph)) => k \in DOMAIN Todo /\ Cell(Todo[k][1], Todo[k][2]) = Todo[k]

AllCompiled == ExtractionInv /\ TableInv /\ PlanInv /\ FilesInv
RuntimeInv ==
  /\ SessionRuns /\ AllSized(graph)
  /\ step = "idle" => dumps = <<>>
  /\ step # "idle" => stage = "done" /\ Room
  /\ step \in {"weights", "input"} => pc = 1 /\ written = 0 /\ dumps = <<>>
  /\ step \in {"input", "run", "finished"} => RegionHolds("WEIGHT")
  /\ step \in {"run", "finished"} => RegionHolds("INPUT") /\ Progress
  /\ step = "finished" => pc = Len(Program(graph)) + 1

(* The compiler is done when it is done. *)
LEMMA DoneIsDone ==
  ASSUME stage = "done", CompilerStep
  PROVE  FALSE
<1>1. FirstPass \/ LaterPass
  BY DEF CompilerStep, Extract, FirstPass, LaterPass
<1>2. CASE FirstPass
  BY <1>2 DEF FirstPass, Inspect, ValidateTopologicalOrder, AssignTensorIds, FoldParameters,
       BuildInstructions, RemoveDeadInstructions
<1>3. CASE LaterPass
  BY <1>3 DEF LaterPass, BuildTensorTable, ResolveDynamicShapes, ComputeLiveness,
       ValidateInstructionOrder, ValidateStaticShapes, PlanBegins, PlaceActivation,
       PlacePersistent, ValidateNoMemoryOverlap, WriteJson, WriteWeights
<1> QED
  BY <1>1, <1>2, <1>3

(* A step of the runtime leaves the memory map alone. *)
LEMMA MapStays ==
  ASSUME UNCHANGED compilerVars
  PROVE  /\ UNCHANGED <<graph, stage, tensors, build, Table>>
         /\ UNCHANGED <<Program(graph), InputFile, SessionRuns, AllSized(graph)>>
         /\ \A n : /\ RegionIn(n)' = RegionIn(n) /\ At(n)' = At(n) /\ Bytes(n)' = Bytes(n)
         /\ \A i : /\ OutputBytes(i)' = OutputBytes(i)
                   /\ Outs(i)' = Outs(i) /\ Earlier(i)' = Earlier(i)
<1>1. UNCHANGED <<graph, stage, tensors, build>>
  BY DEF compilerVars, extractVars
<1>2. \A n : Bytes(n)' = Bytes(n) /\ RegionIn(n)' = RegionIn(n) /\ At(n)' = At(n)
  BY <1>1 DEF Bytes, RegionIn, At, Loaded
<1>3. UNCHANGED <<Table, Program(graph), SessionRuns, AllSized(graph)>>
  BY <1>1 DEF Table, SessionRuns, AllSized
<1>4. InputFile' = InputFile
  BY <1>1, <1>2 DEF InputFile
<1>5. \A i : OutputBytes(i)' = OutputBytes(i)
  BY <1>1 DEF OutputBytes, Loaded
<1>6. \A i : Outs(i)' = Outs(i)
  BY <1>3 DEF Outs
<1>7. \A i : Earlier(i)' = Earlier(i)
  BY <1>6 DEF Earlier
<1> QED
  BY <1>1, <1>2, <1>3, <1>4, <1>5, <1>6, <1>7

(* Room stays when the arenas keep their lengths. *)
LEMMA RoomStays ==
  ASSUME Room, UNCHANGED compilerVars, arena' \in [MemoryRegion -> Seq(Byte)], Layout,
         \A r \in MemoryRegion : DOMAIN arena'[r] = DOMAIN arena[r]
  PROVE  Room'
<1>1. /\ UNCHANGED <<graph, Table>> /\ \A n : RegionIn(n)' = RegionIn(n) /\ At(n)' = At(n)
  BY MapStays
<1>2. \A n \in Table : RegionIn(n) \in MemoryRegion
  BY DEF Layout
<1>3. \A n \in Table : \A k \in 1..graph.bytes[n] : At(n) + k \in DOMAIN arena'[RegionIn(n)]
  BY <1>2 DEF Room
<1> QED
  BY <1>1, <1>3 DEF Room

(* A loader fills its region and leaves the others alone. *)
LEMMA Loads ==
  ASSUME Compiled, Room, NEW r \in {"WEIGHT", "INPUT"}, NEW file, FileOf(r, file),
         NEW next, Load(r, file, next)
  PROVE  /\ Room' /\ UNCHANGED <<compilerVars, pc, written, dumps>>
         /\ \/ step' = "failed"
            \/ /\ step' = next /\ RegionHolds(r)'
               /\ \A q : q # r /\ RegionHolds(q) => RegionHolds(q)'
<1>1. UNCHANGED <<compilerVars, pc, written, dumps>>
  BY DEF Load
<1>2. Layout
  BY LaidOut
<1>3. /\ UNCHANGED <<graph, Table>> /\ \A n : RegionIn(n)' = RegionIn(n) /\ At(n)' = At(n)
  BY <1>1, MapStays
<1>4. arena \in [MemoryRegion -> Seq(Byte)] /\ r \in MemoryRegion
  BY DEF Room, MemoryRegion
<1>5. CASE LongEnough(r, file)
  <2>1. arena' = [arena EXCEPT ![r] = ReadInto(r, file)] /\ step' = next
    BY <1>5 DEF Load
  <2>2. /\ ReadInto(r, file) \in Seq(Byte)
        /\ DOMAIN ReadInto(r, file) = DOMAIN arena[r]
        /\ \A n \in Table : RegionIn(n) = r =>
             \A k \in 1..graph.bytes[n] : ReadInto(r, file)[At(n) + k] = <<n, k>>
    BY ReadInPlace
  <2>3. /\ arena'[r] = ReadInto(r, file)
        /\ \A q \in MemoryRegion : q # r => arena'[q] = arena[q]
    BY <1>4, <2>1
  <2>4. Room'
    <3>1. arena' \in [MemoryRegion -> Seq(Byte)]
      BY <1>4, <2>1, <2>2
    <3>2. \A q \in MemoryRegion : DOMAIN arena'[q] = DOMAIN arena[q]
      BY <2>2, <2>3
    <3> QED
      BY <1>1, <1>2, <3>1, <3>2, RoomStays
  <2>5. RegionHolds(r)'
    BY <1>3, <2>2, <2>3 DEF RegionHolds, Holds, Cell
  <2>6. ASSUME NEW q, q # r, RegionHolds(q) PROVE RegionHolds(q)'
    <3>1. \A n \in Table : RegionIn(n) = q => q \in MemoryRegion /\ arena'[q] = arena[q]
      BY <1>2, <2>3, <2>6 DEF Layout
    <3> QED
      BY <1>3, <2>6, <3>1 DEF RegionHolds, Holds, Cell
  <2> QED
    BY <1>1, <2>1, <2>4, <2>5, <2>6
<1>6. CASE ~LongEnough(r, file)
  <2>1. step' = "failed" /\ UNCHANGED arena
    BY <1>6 DEF Load
  <2>2. Room'
    BY <1>1, <1>2, <1>4, <2>1, RoomStays
  <2> QED
    BY <1>1, <2>1, <2>2
<1> QED
  BY <1>5, <1>6

-----------------------------------------------------------------------------
(* What the kernels read and write. *)

(* Every instruction of the program that is still to come finds intact what is
   loaded or has been made. *)
LEMMA InputsHold ==
  ASSUME Compiled, RegionHolds("WEIGHT"), RegionHolds("INPUT"), Progress,
         NEW i \in pc..Len(Program(graph)), NEW n \in ToSet(Program(graph)[i].in),
         n \in Earlier(pc) \/ KindOf(graph, n) \in {"INPUT", "WEIGHT", "BIAS", "CONSTANT"}
  PROVE  n \in Table /\ Holds(n)
<1>1. OnnxModel(graph) /\ tensors = FinalTable(graph)
  BY CompiledStages
<1>2. pc \in Nat \ {0} /\ Len(Program(graph)) \in Nat
      /\ DOMAIN Program(graph) = 1..Len(Program(graph))
  BY <1>1, InstructionsAre DEF Progress
<1>3. i \in DOMAIN Program(graph)
  BY <1>2
<1>4. n \in Table /\ i \in ReadersOf(graph, n)
  BY <1>3, ReadHere
<1>5. CASE KindOf(graph, n) \in {"INPUT", "WEIGHT", "BIAS", "CONSTANT"}
  <2>1. RegionIn(n) \in {"WEIGHT", "INPUT"}
    BY <1>5 DEF RegionIn, RegionOf
  <2> QED
    BY <1>4, <2>1 DEF RegionHolds
<1>6. CASE n \in Earlier(pc)
  <2>1. tensors[n].consumers = ReadersOf(graph, n)
    BY <1>1, <1>4, FinalRows DEF Table
  <2>2. ~(i < pc)
    BY <1>2, <1>3
  <2>3. Kept(n)
    BY <1>4, <2>1, <2>2 DEF Kept, DeadBefore
  <2> QED
    BY <1>4, <1>6, <2>3 DEF Progress
<1> QED
  BY <1>5, <1>6

(* What the instruction under way reads has been made or loaded. *)
LEMMA InputsKnown ==
  ASSUME Compiled, NEW i \in DOMAIN Program(graph), NEW n \in ToSet(Program(graph)[i].in)
  PROVE  n \in Earlier(i) \/ KindOf(graph, n) \in {"INPUT", "WEIGHT", "BIAS", "CONSTANT"}
<1>1. \/ KindOf(graph, n) \in {"INPUT", "WEIGHT", "BIAS", "CONSTANT"}
      \/ \E j \in 1..i - 1 : j \in DOMAIN Program(graph) /\ n \in ToSet(Program(graph)[j].out)
  BY ReadHere
<1> QED
  BY <1>1 DEF Earlier, Outs

(* The bytes that an instruction has to write: all those of its outputs. *)
LEMMA TodoIs ==
  ASSUME Compiled, NEW i \in DOMAIN Program(graph)
  PROVE  LET todo == OutputBytes(Program(graph)[i])
         IN  /\ DOMAIN todo = 1..Len(todo) /\ Len(todo) \in Nat
             /\ \A k \in DOMAIN todo :
                  \E n \in Outs(i) : \E x \in 1..graph.bytes[n] : todo[k] = <<n, x>>
             /\ \A n \in Outs(i) : \A x \in 1..graph.bytes[n] :
                  \E k \in DOMAIN todo : todo[k] = <<n, x>>
<1> DEFINE out == Program(graph)[i].out
           q == [j \in DOMAIN out |-> [k \in 1..Loaded[out[j]].size |-> <<out[j], k>>]]
           todo == OutputBytes(Program(graph)[i])
<1>1. todo = FlattenSeq(q)
  BY DEF OutputBytes
<1>2. out \in Seq(Name)
  <2>1. Program(graph) \in Seq(Instruction)
    BY CompiledStages, InstructionsAre
  <2>2. Program(graph)[i] \in Instruction
    BY <2>1
  <2> QED
    BY <2>2 DEF Instruction
<1>3. ASSUME NEW j \in DOMAIN out
      PROVE  /\ out[j] \in Outs(i) /\ out[j] \in Name /\ graph.bytes[out[j]] \in Nat
             /\ Loaded[out[j]].size = graph.bytes[out[j]]
  <2>1. out[j] \in ToSet(Program(graph)[i].out)
    BY DEF ToSet
  <2>2. out[j] \in Table
    BY <2>1, MadeHere
  <2> QED
    BY <2>1, <2>2, LaidOut DEF Layout, Outs
<1>4. \A n \in Outs(i) : \E j \in DOMAIN out : out[j] = n
  BY DEF Outs, ToSet
<1> HIDE DEF out
<1>5. ASSUME NEW j \in DOMAIN out
      PROVE  /\ q[j] \in Seq(Byte)
             /\ \A e : e \in ToSet(q[j]) <=> \E x \in 1..graph.bytes[out[j]] : e = <<out[j], x>>
  <2> DEFINE z == graph.bytes[out[j]]
             f == [k \in 1..z |-> <<out[j], k>>]
  <2>1. q[j] = f /\ z \in Nat
    BY <1>3
  <2>2. \A k \in 1..z : <<out[j], k>> \in Byte
    BY <1>3 DEF Byte
  <2>3. f \in [1..z -> Byte]
    BY <2>2
  <2>4. f \in Seq(Byte)
    BY <2>1, <2>3, AsSequence
  <2>5. ToSet(f) = {f[k] : k \in 1..z}
    BY DEF ToSet
  <2> QED
    BY <2>1, <2>4, <2>5
<1>6. q \in Seq(Seq(Byte)) /\ DOMAIN q = DOMAIN out
  <2>1. Len(out) \in Nat /\ DOMAIN out = 1..Len(out)
    BY <1>2
  <2>2. q \in [1..Len(out) -> Seq(Byte)]
    BY <1>5, <2>1
  <2> QED
    BY <2>1, <2>2, AsSequence
<1> HIDE DEF q
<1>7. todo \in Seq(Byte) /\ ToSet(todo) = UNION {ToSet(q[j]) : j \in DOMAIN q}
  BY <1>1, <1>6, FlattenElements
<1>8. DOMAIN todo = 1..Len(todo) /\ Len(todo) \in Nat /\ ToSet(todo) = {todo[k] : k \in DOMAIN todo}
  BY <1>7 DEF ToSet
<1> HIDE DEF todo
<1>9. ASSUME NEW k \in DOMAIN todo
      PROVE  \E n \in Outs(i) : \E x \in 1..graph.bytes[n] : todo[k] = <<n, x>>
  <2>1. todo[k] \in ToSet(todo)
    BY <1>8
  <2>2. PICK j \in DOMAIN out : todo[k] \in ToSet(q[j])
    BY <1>6, <1>7, <2>1
  <2> QED
    BY <1>3, <1>5, <2>2
<1>10. ASSUME NEW n \in Outs(i), NEW x \in 1..graph.bytes[n]
       PROVE  \E k \in DOMAIN todo : todo[k] = <<n, x>>
  <2>1. PICK j \in DOMAIN out : out[j] = n
    BY <1>4
  <2>2. <<n, x>> \in ToSet(q[j])
    BY <1>5, <2>1
  <2>3. <<n, x>> \in ToSet(todo)
    BY <1>6, <1>7, <2>1, <2>2
  <2> QED
    BY <1>8, <2>3
<1> QED
  BY <1>8, <1>9, <1>10 DEF todo

(* Nothing that is still needed lies where an instruction writes. *)
LEMMA WritesApart ==
  ASSUME Compiled, Layout, NEW i \in DOMAIN Program(graph), NEW m \in Outs(i), NEW n \in Table,
         m # n, RegionIn(m) = RegionIn(n), NEW j \in 1..i, n \in Outs(j),
         RegionIn(n) = "ACTIVATION" => ~DeadBefore(tensors[n], i),
         NEW x \in 1..graph.bytes[m], NEW y \in 1..graph.bytes[n]
  PROVE  At(m) + x # At(n) + y
<1>1. /\ OnnxModel(graph) /\ StoredOrderValid(graph) /\ tensors = FinalTable(graph)
  BY CompiledStages
<1>2. DOMAIN Program(graph) \in SUBSET Nat
      /\ \A k \in 1..i : k \in DOMAIN Program(graph)
  BY <1>1, InstructionsAre
<1>3. /\ m \in Table /\ MakerOf(graph, m) = i /\ MakerOf(graph, n) = j
  BY <1>2, MadeHere DEF Outs
<1>4. i \in MakersOf(graph, m) /\ j \in MakersOf(graph, n)
  BY <1>2 DEF MakersOf, Outs
<1>5. /\ tensors[m].producer = i /\ tensors[n].producer = j
      /\ tensors[m].consumers = ReadersOf(graph, m)
  BY <1>1, <1>3, FinalRows DEF Table
<1>6. ~DeadBefore(tensors[m], j)
  <2> SUFFICES ASSUME NEW c \in ReadersOf(graph, m), c < j PROVE FALSE
    BY <1>5 DEF DeadBefore
  <2>1. i < c
    BY <1>1, <1>4, MadeBeforeRead
  <2>2. c \in Nat /\ i \in Nat
    BY <1>2 DEF ReadersOf
  <2> QED
    BY <2>1, <2>2
<1>7. RegionIn(m) = "ACTIVATION" => LifetimesMeet(tensors[m], tensors[n])
  BY <1>5, <1>6 DEF LifetimesMeet
<1>8. Clear(At(m), graph.bytes[m], At(n), graph.bytes[n])
  BY <1>3, <1>7 DEF Layout
<1>9. /\ At(m) \in Nat /\ At(n) \in Nat /\ graph.bytes[m] \in Nat /\ graph.bytes[n] \in Nat
  BY <1>3 DEF Layout
<1> QED
  BY <1>8, <1>9 DEF Clear

(* One byte of an output appears where it belongs and nothing else that matters
   changes. *)
LEMMA ByteIsWritten ==
  ASSUME Compiled, Room, RegionHolds("WEIGHT"), RegionHolds("INPUT"), Progress, KernelWrites
  PROVE  /\ Room' /\ pc \in DOMAIN Program(graph) /\ written' = written + 1
         /\ UNCHANGED <<compilerVars, step, pc, dumps>>
         /\ \E m \in Outs(pc) : \E x \in 1..graph.bytes[m] :
              /\ written + 1 \in DOMAIN Todo /\ Todo[written + 1] = <<m, x>>
              /\ \A n \in Table : \A y \in 1..graph.bytes[n] :
                   Cell(n, y)' = IF RegionIn(n) = RegionIn(m) /\ At(m) + x = At(n) + y
                                 THEN <<m, x>> ELSE Cell(n, y)
<1>1. /\ build.instructions = Program(graph) /\ OnnxModel(graph)
  BY CompiledStages
<1>2. Layout
  BY LaidOut
<1>3. /\ pc \in DOMAIN Program(graph) /\ pc \in Nat
      /\ DOMAIN Program(graph) = 1..Len(Program(graph))
      /\ Len(Program(graph)) \in Nat /\ written \in Nat /\ pc <= Len(Program(graph))
  <2>1. pc <= Len(Program(graph))
    BY <1>1 DEF KernelWrites, AtKernel, AtInstruction
  <2>2. DOMAIN Program(graph) = 1..Len(Program(graph)) /\ Len(Program(graph)) \in Nat
    BY <1>1, InstructionsAre
  <2>3. pc \in 1..Len(Program(graph)) + 1 /\ written \in Nat
    BY DEF Progress
  <2> QED
    BY <2>1, <2>2, <2>3
<1> DEFINE i == Program(graph)[pc]
           b == Todo[written + 1]
           good == \A n \in ToSet(i.in) : Intact(n)
<1>4. /\ written < Len(Todo)
      /\ arena' = [arena EXCEPT ![Loaded[b[1]].region][At(b[1]) + b[2]] =
                                  IF good THEN b ELSE GARBAGE]
      /\ written' = written + 1
      /\ UNCHANGED <<compilerVars, step, pc, dumps>>
  BY <1>1 DEF KernelWrites, Todo
<1>5. /\ DOMAIN Todo = 1..Len(Todo) /\ Len(Todo) \in Nat
      /\ \A k \in DOMAIN Todo : \E n \in Outs(pc) : \E x \in 1..graph.bytes[n] : Todo[k] = <<n, x>>
  BY <1>3, TodoIs DEF Todo
<1>6. written + 1 \in DOMAIN Todo
  BY <1>3, <1>4, <1>5
<1>7. PICK m \in Outs(pc) : \E x \in 1..graph.bytes[m] : b = <<m, x>>
  BY <1>5, <1>6
<1>8. PICK x \in 1..graph.bytes[m] : b = <<m, x>>
  BY <1>7
<1>9. good
  <2> SUFFICES ASSUME NEW n \in ToSet(i.in) PROVE Intact(n)
    OBVIOUS
  <2>1. pc \in pc..Len(Program(graph))
    BY <1>3
  <2>2. n \in Earlier(pc) \/ KindOf(graph, n) \in {"INPUT", "WEIGHT", "BIAS", "CONSTANT"}
    BY <1>3, InputsKnown
  <2>3. n \in Table /\ Holds(n)
    BY <2>1, <2>2, InputsHold
  <2> QED
    BY <1>2, <2>3, IntactMeans
<1>10. m \in Table
  BY <1>3, MadeHere DEF Outs
<1> DEFINE r == RegionIn(m)
           z == At(m) + x
<1>11. /\ Loaded[m].region = r /\ r \in MemoryRegion /\ At(m) \in Nat /\ graph.bytes[m] \in Nat
       /\ m \in Name
  BY <1>2, <1>10 DEF Layout
<1> HIDE DEF good, b
<1>12. arena' = [arena EXCEPT ![r] = [arena[r] EXCEPT ![z] = <<m, x>>]]
  <2>1. b[1] = m /\ b[2] = x
    BY <1>8
  <2> QED
    BY <1>4, <1>8, <1>9, <1>11, <2>1
<1>13. arena \in [MemoryRegion -> Seq(Byte)] /\ z \in DOMAIN arena[r]
  BY <1>10 DEF Room
<1>14. /\ arena'[r] = [arena[r] EXCEPT ![z] = <<m, x>>]
       /\ \A q \in MemoryRegion : q # r => arena'[q] = arena[q]
  BY <1>11, <1>12, <1>13
<1>15. Room'
  <2>1. <<m, x>> \in Byte
    BY <1>11 DEF Byte
  <2>2. arena[r] \in Seq(Byte)
    BY <1>11, <1>13
  <2>3. arena'[r] \in Seq(Byte) /\ DOMAIN arena'[r] = DOMAIN arena[r]
    BY <1>13, <1>14, <2>1, <2>2
  <2>4. \A q \in MemoryRegion : DOMAIN arena'[q] = DOMAIN arena[q]
    BY <1>14, <2>3
  <2>5. arena' \in [MemoryRegion -> Seq(Byte)]
    <3>1. \A q \in MemoryRegion : arena'[q] \in Seq(Byte)
      BY <1>13, <1>14, <2>3
    <3>2. arena' = [q \in MemoryRegion |-> arena'[q]]
      BY <1>12, <1>13
    <3> QED
      BY <3>1, <3>2
  <2> QED
    BY <1>2, <1>4, <2>4, <2>5, RoomStays
<1>16. ASSUME NEW n \in Table, NEW y \in 1..graph.bytes[n]
       PROVE  Cell(n, y)' = IF RegionIn(n) = r /\ z = At(n) + y THEN <<m, x>> ELSE Cell(n, y)
  <2>1. RegionIn(n)' = RegionIn(n) /\ At(n)' = At(n)
    BY <1>4, MapStays
  <2>2. Cell(n, y)' = arena'[RegionIn(n)][At(n) + y]
    BY <2>1 DEF Cell
  <2>3. RegionIn(n) \in MemoryRegion /\ At(n) + y \in DOMAIN arena[RegionIn(n)]
    BY <1>2 DEF Layout, Room
  <2>4. CASE RegionIn(n) = r
    BY <1>14, <2>2, <2>3, <2>4 DEF Cell
  <2>5. CASE RegionIn(n) # r
    BY <1>14, <2>2, <2>3, <2>5 DEF Cell
  <2> QED
    BY <2>4, <2>5
<1> QED
  BY <1>3, <1>4, <1>6, <1>8, <1>15, <1>16 DEF b

(* The run comes one byte further, and all it needs stays in place. *)
LEMMA WritingProgresses ==
  ASSUME Compiled, Room, RegionHolds("WEIGHT"), RegionHolds("INPUT"), Progress, KernelWrites
  PROVE  RegionHolds("WEIGHT")' /\ RegionHolds("INPUT")' /\ Progress'
<1>1. /\ pc \in DOMAIN Program(graph) /\ written' = written + 1
      /\ UNCHANGED <<compilerVars, step, pc, dumps>>
  BY ByteIsWritten
<1>2. PICK m \in Outs(pc) : \E x \in 1..graph.bytes[m] :
              /\ written + 1 \in DOMAIN Todo /\ Todo[written + 1] = <<m, x>>
              /\ \A n \in Table : \A y \in 1..graph.bytes[n] :
                   Cell(n, y)' = IF RegionIn(n) = RegionIn(m) /\ At(m) + x = At(n) + y
                                 THEN <<m, x>> ELSE Cell(n, y)
  BY ByteIsWritten
<1>3. PICK x \in 1..graph.bytes[m] :
              /\ written + 1 \in DOMAIN Todo /\ Todo[written + 1] = <<m, x>>
              /\ \A n \in Table : \A y \in 1..graph.bytes[n] :
                   Cell(n, y)' = IF RegionIn(n) = RegionIn(m) /\ At(m) + x = At(n) + y
                                 THEN <<m, x>> ELSE Cell(n, y)
  BY <1>2
<1>4. Layout
  BY LaidOut
<1>5. m \in Table /\ RegionIn(m) \in {"OUTPUT", "ACTIVATION"}
  BY <1>1, MadeHere DEF Outs
<1>6. /\ UNCHANGED <<graph, tensors, Table, Program(graph)>>
      /\ \A n : RegionIn(n)' = RegionIn(n) /\ At(n)' = At(n) /\ Bytes(n)' = Bytes(n)
      /\ \A k : OutputBytes(k)' = OutputBytes(k) /\ Outs(k)' = Outs(k) /\ Earlier(k)' = Earlier(k)
  BY <1>1, MapStays
<1>7. \A n \in Table : RegionIn(n) \in {"WEIGHT", "INPUT"} /\ Holds(n) => Holds(n)'
  BY <1>3, <1>5, <1>6 DEF Holds
<1>8. RegionHolds("WEIGHT")' /\ RegionHolds("INPUT")'
  BY <1>6, <1>7 DEF RegionHolds
<1>9. /\ pc \in Nat \ {0} /\ written \in Nat
      /\ \A j \in 1..pc : j \in DOMAIN Program(graph)
  <2>1. DOMAIN Program(graph) = 1..Len(Program(graph)) /\ Len(Program(graph)) \in Nat
    BY CompiledStages, InstructionsAre
  <2> QED
    BY <1>1, <2>1 DEF Progress
<1>10. ASSUME NEW n \in Earlier(pc), Kept(n) PROVE Holds(n)'
  <2>1. PICK j \in 1..pc - 1 : n \in Outs(j)
    BY DEF Earlier
  <2>2. j \in 1..pc /\ j \in DOMAIN Program(graph) /\ j # pc
    BY <1>9
  <2>3. n \in Table /\ MakerOf(graph, n) = j /\ MakerOf(graph, m) = pc
    BY <1>1, <2>1, <2>2, MadeHere DEF Outs
  <2>4. m # n
    BY <2>2, <2>3
  <2>5. Holds(n)
    BY <1>10 DEF Progress
  <2>6. ASSUME NEW y \in 1..graph.bytes[n], RegionIn(n) = RegionIn(m) PROVE At(m) + x # At(n) + y
    BY <1>1, <1>4, <1>10, <2>1, <2>2, <2>3, <2>4, <2>6, WritesApart DEF Kept
  <2> QED
    BY <1>3, <1>6, <2>3, <2>5, <2>6 DEF Holds
<1>11. /\ Todo' = Todo
       /\ \A k \in DOMAIN Todo : \E n \in Outs(pc) : \E y \in 1..graph.bytes[n] : Todo[k] = <<n, y>>
  BY <1>1, <1>6, TodoIs DEF Todo
<1>12. ASSUME NEW k \in 1..written + 1
       PROVE  k \in DOMAIN Todo /\ Cell(Todo[k][1], Todo[k][2])' = Todo[k]
  <2>1. k \in DOMAIN Todo /\ (k # written + 1 => Cell(Todo[k][1], Todo[k][2]) = Todo[k])
    <3>1. CASE k = written + 1
      BY <1>3, <3>1
    <3>2. CASE k # written + 1
      <4>1. k \in 1..written
        BY <1>9, <3>2
      <4>2. pc <= Len(Program(graph))
        BY <1>1, CompiledStages, InstructionsAre
      <4> QED
        BY <4>1, <4>2 DEF Progress
    <3> QED
      BY <3>1, <3>2
  <2>2. PICK n \in Outs(pc) : \E y \in 1..graph.bytes[n] : Todo[k] = <<n, y>>
    BY <1>11, <2>1
  <2>3. PICK y \in 1..graph.bytes[n] : Todo[k] = <<n, y>>
    BY <2>2
  <2>4. n \in Table
    BY <1>1, MadeHere DEF Outs
  <2>5. Cell(n, y)' = IF RegionIn(n) = RegionIn(m) /\ At(m) + x = At(n) + y
                      THEN <<m, x>> ELSE Cell(n, y)
    BY <1>3, <2>4
  <2>6. Todo[k][1] = n /\ Todo[k][2] = y
    BY <2>3
  <2>7. Cell(n, y)' = <<n, y>>
    <3>1. CASE k = written + 1
      BY <1>3, <2>3, <2>5, <3>1
    <3>2. CASE k # written + 1
      <4>1. Cell(n, y) = <<n, y>>
        BY <2>1, <2>3, <2>6, <3>2
      <4>2. CASE n = m
        <5>1. At(m) \in Nat
          BY <1>4, <1>5 DEF Layout
        <5>2. At(m) + x = At(n) + y => x = y
          BY <4>2, <5>1
        <5> QED
          BY <2>5, <4>1, <4>2, <5>2
      <4>3. CASE n # m
        <5>1. ASSUME RegionIn(n) = RegionIn(m) PROVE At(m) + x # At(n) + y
          <6>1. ~DeadBefore(tensors[n], pc)
            <7>1. /\ OnnxModel(graph) /\ StoredOrderValid(graph) /\ tensors = FinalTable(graph)
              BY CompiledStages
            <7>2. tensors[n].consumers = ReadersOf(graph, n)
              BY <2>4, <7>1, FinalRows DEF Table
            <7>3. pc \in MakersOf(graph, n)
              BY <1>1 DEF MakersOf, Outs
            <7>4. DOMAIN Program(graph) \in SUBSET Nat
              BY <7>1, InstructionsAre
            <7>5. \A c \in ReadersOf(graph, n) : pc < c /\ c \in Nat
              BY <7>1, <7>3, <7>4, MadeBeforeRead DEF ReadersOf
            <7>6. \A c \in ReadersOf(graph, n) : ~(c < pc)
              BY <1>9, <7>5
            <7> QED
              BY <7>2, <7>6 DEF DeadBefore
          <6>2. pc \in 1..pc
            BY <1>9
          <6> QED
            BY <1>1, <1>4, <2>4, <4>3, <5>1, <6>1, <6>2, WritesApart
        <5> QED
          BY <2>5, <4>1, <5>1
      <4> QED
        BY <4>2, <4>3
    <3> QED
      BY <3>1, <3>2
  <2> QED
    BY <1>11, <2>1, <2>3, <2>6, <2>7
<1>13. /\ pc' \in 1..Len(Program(graph)') + 1 /\ written' \in Nat
       /\ dumps' = [n \in Earlier(pc)' |-> Bytes(n)']
  <2>1. Earlier(pc)' = Earlier(pc)
    BY <1>1, <1>6
  <2>2. dumps' = [n \in Earlier(pc) |-> Bytes(n)]
    BY <1>1 DEF Progress
  <2> QED
    BY <1>1, <1>6, <1>9, <2>1, <2>2 DEF Progress
<1>14. \A n : Kept(n)' <=> Kept(n)
  BY <1>1, <1>6 DEF Kept
<1>15. \A n \in Earlier(pc)' : Kept(n)' => Holds(n)'
  BY <1>1, <1>6, <1>10, <1>14
<1>16. \A k \in 1..written' : k \in DOMAIN Todo' /\ Cell(Todo[k][1], Todo[k][2])' = (Todo[k])'
  BY <1>1, <1>11, <1>12
<1> QED
  BY <1>8, <1>13, <1>15, <1>16 DEF Progress

-----------------------------------------------------------------------------
(* Every step keeps the invariant. *)

(* When an instruction has written its last byte, its outputs hold, and what it
   dumps is what ONNX computes for them. *)
LEMMA DoneProgresses ==
  ASSUME Compiled, Room, Progress, InstructionDone
  PROVE  /\ Progress' /\ pc \in DOMAIN Program(graph)
         /\ UNCHANGED <<compilerVars, step, arena>>
         /\ dumps' = [n \in Earlier(pc) \cup Outs(pc) |-> Bytes(n)]
<1>1. /\ build.instructions = Program(graph) /\ OnnxModel(graph) /\ Layout
  BY CompiledStages, LaidOut
<1>2. /\ pc \in DOMAIN Program(graph) /\ pc \in 1..Len(Program(graph))
      /\ DOMAIN Program(graph) = 1..Len(Program(graph)) /\ Len(Program(graph)) \in Nat
  <2>1. pc <= Len(Program(graph))
    BY <1>1 DEF InstructionDone, AtKernel, AtInstruction
  <2>2. DOMAIN Program(graph) = 1..Len(Program(graph)) /\ Len(Program(graph)) \in Nat
    BY <1>1, InstructionsAre
  <2>3. pc \in 1..Len(Program(graph)) + 1
    BY DEF Progress
  <2> QED
    BY <2>1, <2>2, <2>3
<1>3. /\ written = Len(Todo) /\ pc' = pc + 1 /\ written' = 0
      /\ UNCHANGED <<compilerVars, step, arena>>
      /\ dumps' = [n \in DOMAIN dumps \cup Outs(pc) |->
                     IF n \in Outs(pc) THEN Stored(n) ELSE dumps[n]]
  BY <1>1 DEF InstructionDone, Todo, Outs
<1>4. /\ UNCHANGED <<graph, tensors, Table, Program(graph)>>
      /\ \A n : RegionIn(n)' = RegionIn(n) /\ At(n)' = At(n) /\ Bytes(n)' = Bytes(n)
      /\ \A k : Outs(k)' = Outs(k) /\ Earlier(k)' = Earlier(k)
  BY <1>3, MapStays
<1>5. ASSUME NEW n \in Outs(pc) PROVE n \in Table /\ Holds(n)
  <2>1. n \in Table
    BY <1>2, MadeHere DEF Outs
  <2> SUFFICES ASSUME NEW x \in 1..graph.bytes[n] PROVE Cell(n, x) = <<n, x>>
    BY <2>1 DEF Holds
  <2>2. /\ DOMAIN Todo = 1..Len(Todo)
        /\ \A m \in Outs(pc) : \A y \in 1..graph.bytes[m] :
             \E k \in DOMAIN Todo : Todo[k] = <<m, y>>
    BY <1>2, TodoIs DEF Todo
  <2>3. PICK k \in DOMAIN Todo : Todo[k] = <<n, x>>
    BY <2>2
  <2>4. k \in 1..written /\ pc <= Len(Program(graph))
    BY <1>2, <1>3, <2>2
  <2>5. Cell(Todo[k][1], Todo[k][2]) = Todo[k]
    BY <2>4 DEF Progress
  <2> QED
    BY <2>3, <2>5
<1>6. \A n \in Outs(pc) : Stored(n) = Bytes(n)
  BY <1>1, <1>5, IntactMeans DEF Intact
<1>7. dumps = [n \in Earlier(pc) |-> Bytes(n)]
  BY DEF Progress
<1>8. dumps' = [n \in Earlier(pc) \cup Outs(pc) |-> Bytes(n)]
  <2>1. DOMAIN dumps = Earlier(pc) /\ \A n \in Earlier(pc) : dumps[n] = Bytes(n)
    BY <1>7
  <2> QED
    BY <1>3, <1>6, <2>1
<1>9. Earlier(pc + 1) = Earlier(pc) \cup Outs(pc)
  <2>1. \A j : j \in 1..(pc + 1) - 1 <=> j \in 1..pc - 1 \/ j = pc
    BY <1>2
  <2> QED
    BY <2>1 DEF Earlier
<1>10. Earlier(pc)' = Earlier(pc) \cup Outs(pc)
  BY <1>3, <1>4, <1>9
<1>11. dumps' = [n \in Earlier(pc)' |-> Bytes(n)']
  BY <1>4, <1>8, <1>10
<1>12. \A n : Holds(n) => Holds(n)'
  BY <1>3, <1>4 DEF Holds, Cell
<1>13. ASSUME NEW n \in Earlier(pc), Kept(n)' PROVE Holds(n)'
  <2>1. PICK j \in 1..pc - 1 : n \in Outs(j)
    BY DEF Earlier
  <2>2. n \in Table
    BY <1>2, <2>1, MadeHere DEF Outs
  <2>3. tensors[n].consumers = ReadersOf(graph, n) /\ ReadersOf(graph, n) \in SUBSET Nat
    <3>1. tensors = FinalTable(graph)
      BY CompiledStages
    <3>2. tensors[n].consumers = ReadersOf(graph, n)
      BY <2>2, <3>1, FinalRows DEF Table
    <3>3. ReadersOf(graph, n) \in SUBSET DOMAIN Program(graph)
      BY DEF ReadersOf
    <3> QED
      BY <1>2, <3>2, <3>3
  <2>4. DeadBefore(tensors[n], pc) => DeadBefore(tensors[n], pc + 1)
    BY <1>2, <2>3 DEF DeadBefore
  <2>5. Kept(n)
    BY <1>3, <1>4, <1>13, <2>4 DEF Kept
  <2>6. Holds(n)
    BY <2>5 DEF Progress
  <2> QED
    BY <1>12, <2>6
<1>14. \A n \in Earlier(pc)' : Kept(n)' => Holds(n)'
  BY <1>5, <1>10, <1>12, <1>13
<1>15. pc' \in 1..Len(Program(graph)') + 1 /\ written' \in Nat
  BY <1>2, <1>3, <1>4
<1>16. \A k \in 1..written' : pc' <= Len(Program(graph)') =>
         k \in DOMAIN Todo' /\ Cell(Todo[k][1], Todo[k][2])' = (Todo[k])'
  BY <1>3
<1>17. Progress'
  BY <1>11, <1>14, <1>15, <1>16 DEF Progress
<1> QED
  BY <1>2, <1>3, <1>8, <1>17

(* Steps that change neither the arenas nor the dumps. *)
LEMMA NothingWritten ==
  ASSUME UNCHANGED <<compilerVars, arena, pc, written, dumps>>
  PROVE  /\ Room' <=> Room
         /\ \A r : RegionHolds(r)' <=> RegionHolds(r)
         /\ Progress' <=> Progress
<1>1. /\ UNCHANGED <<graph, tensors, Table, Program(graph)>>
      /\ \A n : RegionIn(n)' = RegionIn(n) /\ At(n)' = At(n) /\ Bytes(n)' = Bytes(n)
      /\ \A k : OutputBytes(k)' = OutputBytes(k) /\ Outs(k)' = Outs(k) /\ Earlier(k)' = Earlier(k)
  BY MapStays
<1>2. Room' <=> Room
  BY <1>1 DEF Room
<1>3. \A n, k : Cell(n, k)' = Cell(n, k)
  BY <1>1 DEF Cell
<1>4. \A n : (Holds(n)' <=> Holds(n)) /\ (Kept(n)' <=> Kept(n))
  BY <1>1, <1>3 DEF Holds, Kept
<1>5. \A r : RegionHolds(r)' <=> RegionHolds(r)
  BY <1>1, <1>4 DEF RegionHolds
<1>6. Todo' = Todo /\ Earlier(pc)' = Earlier(pc)
  BY <1>1 DEF Todo
<1>7. Progress' <=> Progress
  BY <1>1, <1>3, <1>4, <1>6 DEF Progress
<1> QED
  BY <1>2, <1>5, <1>7

(* A run starts from nothing. *)
LEMMA RuntimeStarts ==
  ASSUME SessionRuns, AllSized(graph), Init
  PROVE  RuntimeInv
  BY DEF Init, RuntimeStart, RuntimeInv

(* The invariant of a run: every step of either program keeps it. *)
LEMMA RuntimeInvStep ==
  ASSUME AllCompiled, RuntimeInv, [Next]_allVars
  PROVE  RuntimeInv' /\ [CompilerNext]_compilerVars
<1>c. stage = "done" <=> Compiled
  BY DEF AllCompiled, Compiled, RuntimeInv
<1>1. CASE Compile
  <2>1. CompilerStep /\ UNCHANGED <<step, arena, pc, written, dumps>>
    BY <1>1 DEF Compile, runtimeVars
  <2>2. step = "idle"
    BY <2>1, DoneIsDone DEF RuntimeInv
  <2>3. [CompilerNext]_compilerVars
    BY <2>1 DEF CompilerNext
  <2>4. SessionRuns' /\ AllSized(graph)'
    <3>1. graph' = graph
      BY <2>3, GraphStays
    <3> QED
      BY <3>1 DEF RuntimeInv, SessionRuns, AllSized
  <2> QED
    BY <2>1, <2>2, <2>3, <2>4 DEF RuntimeInv
<1> DEFINE Same == UNCHANGED compilerVars
<1>2. ASSUME Same
      PROVE  stage' = stage /\ [CompilerNext]_compilerVars /\ SessionRuns' /\ AllSized(graph)'
  <2>1. UNCHANGED <<stage, SessionRuns, AllSized(graph)>>
    BY <1>2, MapStays
  <2> QED
    BY <1>2, <2>1 DEF RuntimeInv
<1>3. CASE Bind
  <2>1. /\ Same /\ step = "idle" /\ stage = "done" /\ step' = "weights" /\ pc' = 1
        /\ written' = 0 /\ UNCHANGED dumps
    BY <1>3 DEF Bind
  <2>2. Room'
    BY <1>3, <1>c, <2>1, Bound
  <2> QED
    BY <1>2, <2>1, <2>2 DEF RuntimeInv
<1>4. CASE LoadWeights
  <2>1. step = "weights" /\ Load("WEIGHT", build.weights, "input")
    BY <1>4 DEF LoadWeights
  <2>2. Compiled /\ Room
    BY <1>c, <2>1 DEF RuntimeInv
  <2>3. FileOf("WEIGHT", build.weights)
    BY <2>2, WeightsFound
  <2>4. /\ Room' /\ UNCHANGED <<compilerVars, pc, written, dumps>>
        /\ step' = "failed" \/ (step' = "input" /\ RegionHolds("WEIGHT")')
    <3>1. "WEIGHT" \in {"WEIGHT", "INPUT"}
      OBVIOUS
    <3> QED
      BY <2>1, <2>2, <2>3, <3>1, Loads
  <2> QED
    BY <1>2, <1>c, <2>1, <2>2, <2>4 DEF RuntimeInv
<1>5. CASE LoadInput
  <2>1. step = "input" /\ Load("INPUT", InputFile, "run")
    BY <1>5 DEF LoadInput
  <2>2. Compiled /\ Room /\ SessionRuns /\ RegionHolds("WEIGHT")
    BY <1>c, <2>1 DEF RuntimeInv
  <2>3. FileOf("INPUT", InputFile)
    BY <2>2, InputFound
  <2>4. /\ Room' /\ UNCHANGED <<compilerVars, pc, written, dumps>>
        /\ step' = "failed" \/ (step' = "run" /\ RegionHolds("INPUT")' /\ RegionHolds("WEIGHT")')
    <3>1. "INPUT" \in {"WEIGHT", "INPUT"} /\ "WEIGHT" # "INPUT"
      OBVIOUS
    <3> QED
      BY <2>1, <2>2, <2>3, <3>1, Loads
  <2>5. step' = "run" => Progress'
    <3>1. pc' = 1 /\ written' = 0 /\ dumps' = <<>>
      BY <2>1, <2>4 DEF RuntimeInv
    <3>2. UNCHANGED Program(graph) /\ Earlier(1)' = Earlier(1)
      BY <2>4, MapStays
    <3>3. Earlier(1) = {} /\ Len(Program(graph)) \in Nat
      BY <2>2, CompiledStages, InstructionsAre DEF Earlier
    <3>4. Earlier(pc)' = {}
      BY <3>1, <3>2, <3>3
    <3>5. dumps' = [n \in Earlier(pc)' |-> Bytes(n)']
      BY <3>1, <3>4
    <3> QED
      BY <3>1, <3>2, <3>3, <3>4, <3>5 DEF Progress
  <2> QED
    BY <1>2, <1>c, <2>1, <2>2, <2>4, <2>5 DEF RuntimeInv
<1>6. CASE KernelWrites
  <2>1. step = "run"
    BY <1>6 DEF KernelWrites, AtKernel, AtInstruction
  <2>2. /\ Compiled /\ Room /\ RegionHolds("WEIGHT") /\ RegionHolds("INPUT") /\ Progress
    BY <1>c, <2>1 DEF RuntimeInv
  <2>3. Room' /\ UNCHANGED <<compilerVars, step>>
    BY <1>6, <2>2, ByteIsWritten
  <2>4. RegionHolds("WEIGHT")' /\ RegionHolds("INPUT")' /\ Progress'
    BY <1>6, <2>2, WritingProgresses
  <2> QED
    BY <1>2, <1>c, <2>1, <2>2, <2>3, <2>4 DEF RuntimeInv, Compiled
<1>7. CASE InstructionDone
  <2>1. step = "run"
    BY <1>7 DEF InstructionDone, AtKernel, AtInstruction
  <2>2. /\ Compiled /\ Room /\ RegionHolds("WEIGHT") /\ RegionHolds("INPUT") /\ Progress
    BY <1>c, <2>1 DEF RuntimeInv
  <2>3. Progress' /\ UNCHANGED <<compilerVars, step, arena>>
    BY <1>7, <2>2, DoneProgresses
  <2>4. /\ UNCHANGED <<graph, Table>>
        /\ \A n : RegionIn(n)' = RegionIn(n) /\ At(n)' = At(n)
    BY <2>3, MapStays
  <2>5. Room'
    BY <2>2, <2>3, <2>4 DEF Room
  <2>6. RegionHolds("WEIGHT")' /\ RegionHolds("INPUT")'
    BY <2>2, <2>3, <2>4 DEF RegionHolds, Holds, Cell
  <2> QED
    BY <1>2, <1>c, <2>1, <2>2, <2>3, <2>5, <2>6 DEF RuntimeInv, Compiled
<1>8. CASE KernelFails
  <2>1. /\ step = "run" /\ step' = "refused" /\ UNCHANGED <<compilerVars, arena, pc, written, dumps>>
    BY <1>8 DEF KernelFails, AtInstruction
  <2>2. Room' <=> Room
    BY <2>1, NothingWritten
  <2> QED
    BY <1>2, <2>1, <2>2 DEF RuntimeInv
<1>9. CASE Finish
  <2>1. /\ step = "run" /\ step' = "finished" /\ pc = Len(build.instructions) + 1
        /\ UNCHANGED <<compilerVars, arena, pc, written, dumps>>
    BY <1>9 DEF Finish
  <2>2. Compiled
    BY <1>c, <2>1 DEF RuntimeInv
  <2>3. build.instructions = Program(graph) /\ Program(graph)' = Program(graph)
    BY <2>1, <2>2, CompiledStages, MapStays
  <2>4. /\ Room' <=> Room
        /\ RegionHolds("WEIGHT")' <=> RegionHolds("WEIGHT")
        /\ RegionHolds("INPUT")' <=> RegionHolds("INPUT")
        /\ Progress' <=> Progress
    BY <2>1, NothingWritten
  <2> QED
    BY <1>2, <2>1, <2>3, <2>4 DEF RuntimeInv
<1>10. CASE UNCHANGED allVars
  <2>1. UNCHANGED <<compilerVars, arena, pc, written, dumps>> /\ UNCHANGED step
    BY <1>10 DEF allVars, runtimeVars
  <2>2. /\ Room' <=> Room
        /\ RegionHolds("WEIGHT")' <=> RegionHolds("WEIGHT")
        /\ RegionHolds("INPUT")' <=> RegionHolds("INPUT")
        /\ Progress' <=> Progress
    BY <2>1, NothingWritten
  <2>3. Program(graph)' = Program(graph)
    BY <2>1, MapStays
  <2> QED
    BY <1>2, <2>1, <2>2, <2>3 DEF RuntimeInv
<1>11. CASE InputMissing
  BY <1>11 DEF InputMissing, RuntimeInv
<1> QED
  BY <1>1, <1>3, <1>4, <1>5, <1>6, <1>7, <1>8, <1>9, <1>10, <1>11 DEF Next, RuntimeStep

-----------------------------------------------------------------------------
(* What follows. *)

(* Compiling and running together keep both invariants. *)
LEMMA RunHolds ==
  OnnxModel(graph) /\ AllSized(graph) /\ SessionRuns /\ Spec
    => [](AllCompiled /\ RuntimeInv) /\ [][CompilerNext]_compilerVars
<1>1. OnnxModel(graph) /\ CompilerStart => AllCompiled
  <2>1. CompilerStart => PlanInv
    BY DEF CompilerStart, PlanInv, AfterSchedule, AfterPlacement, FromPlan
  <2> QED
    BY <2>1, ExtractionStarts, TableStarts, FilesStart DEF AllCompiled
<1>2. AllCompiled /\ [CompilerNext]_compilerVars => AllCompiled'
  BY ExtractionStep, TableStep, PlanStep, FilesStep DEF AllCompiled
<1>3. SessionRuns /\ AllSized(graph) /\ Init => RuntimeInv /\ CompilerStart
  BY RuntimeStarts DEF Init
<1>4. AllCompiled /\ RuntimeInv /\ [Next]_allVars => RuntimeInv' /\ [CompilerNext]_compilerVars
  BY RuntimeInvStep
<1> QED
  BY <1>1, <1>2, <1>3, <1>4, PTL DEF Spec

(* Whatever an instruction still has to read is intact. *)
THEOREM InputsStayIntact ==
  OnnxModel(graph) /\ AllSized(graph) /\ SessionRuns /\ Spec => []InputsIntact
<1>1. AllCompiled /\ RuntimeInv => InputsIntact
  <2> SUFFICES ASSUME AllCompiled, RuntimeInv, step = "run", pc <= Len(instructions),
                      NEW i \in pc..Len(instructions), NEW n \in ToSet(instructions[i].in),
                      tensors[n].producer = NONE \/ Computed(n)
               PROVE  Intact(n)
    BY DEF InputsIntact
  <2>1. /\ Compiled /\ Room /\ RegionHolds("WEIGHT") /\ RegionHolds("INPUT") /\ Progress
    BY DEF RuntimeInv, AllCompiled, Compiled
  <2>2. /\ instructions = Program(graph) /\ OnnxModel(graph) /\ tensors = FinalTable(graph)
        /\ Layout
    BY <2>1, CompiledStages, LaidOut
  <2>3. /\ DOMAIN Program(graph) = 1..Len(Program(graph)) /\ Len(Program(graph)) \in Nat
        /\ pc \in Nat \ {0}
    BY <2>1, <2>2, InstructionsAre DEF Progress
  <2>4. i \in DOMAIN Program(graph) /\ n \in ToSet(Program(graph)[i].in)
    BY <2>2, <2>3
  <2>5. n \in Earlier(pc) \/ KindOf(graph, n) \in {"INPUT", "WEIGHT", "BIAS", "CONSTANT"}
    <3>1. CASE Computed(n)
      BY <2>2, <3>1 DEF Computed, Earlier, Outs
    <3>2. CASE tensors[n].producer = NONE
      <4>1. n \in Earlier(i) \/ KindOf(graph, n) \in {"INPUT", "WEIGHT", "BIAS", "CONSTANT"}
        BY <2>1, <2>4, InputsKnown
      <4>2. ASSUME n \in Earlier(i) PROVE FALSE
        <5>1. PICK j \in 1..i - 1 : n \in Outs(j)
          BY <4>2 DEF Earlier
        <5>2. j \in DOMAIN Program(graph)
          BY <2>3, <2>4, <5>1
        <5>3. n \in Table /\ MakerOf(graph, n) = j /\ j \in Nat
          BY <2>1, <5>1, <5>2, MadeHere DEF Outs
        <5>4. tensors[n].producer = j
          BY <2>2, <5>3, FinalRows DEF Table
        <5> QED
          BY <3>2, <5>3, <5>4 DEF NONE
      <4> QED
        BY <4>1, <4>2
    <3> QED
      BY <3>1, <3>2
  <2>6. i \in pc..Len(Program(graph))
    BY <2>2
  <2>7. n \in Table /\ Holds(n)
    BY <2>1, <2>4, <2>5, <2>6, InputsHold
  <2> QED
    BY <2>1, <2>2, <2>7, IntactMeans
<1> QED
  BY <1>1, RunHolds, PTL

(* When the run is over, every graph output that a node computes is dumped and in
   place. *)
THEOREM OutputsAreComplete ==
  OnnxModel(graph) /\ AllSized(graph) /\ SessionRuns /\ Spec => []OutputsComplete
<1>1. AllCompiled /\ RuntimeInv => OutputsComplete
  <2> SUFFICES ASSUME AllCompiled, RuntimeInv, step = "finished", NEW n \in GraphOutputs(graph),
                      ProducersOf(graph, n) # {}, n \notin ConstantOutputs(graph)
               PROVE  n \in DOMAIN dumps /\ Intact(n)
    BY DEF OutputsComplete
  <2>1. /\ Compiled /\ Room /\ Progress /\ pc = Len(Program(graph)) + 1
    BY DEF RuntimeInv, AllCompiled, Compiled
  <2>2. OnnxModel(graph) /\ Layout
    BY <2>1, CompiledStages, LaidOut
  <2>3. PICK j \in DOMAIN graph.nodes : n \in Present(graph.nodes[j].out)
    BY DEF ProducersOf
  <2>4. graph.nodes[j].op # "Constant"
    <3> SUFFICES ASSUME graph.nodes[j].op = "Constant" PROVE FALSE
      OBVIOUS
    <3>1. Len(graph.nodes[j].out) = 1 /\ graph.nodes[j].out \in Seq(Name \cup {ABSENT})
      BY <2>2, NodeTypes DEF OnnxModel
    <3>2. PICK k \in DOMAIN graph.nodes[j].out : graph.nodes[j].out[k] = n
      BY <2>3 DEF Present, ToSet
    <3>3. k = 1
      BY <3>1, <3>2
    <3> QED
      BY <3>2, <3>3 DEF ConstantOutputs
  <2>5. j \in Needed(graph)
    <3>1. j \in Computing(graph, GraphOutputs(graph))
      BY <2>3, <2>4 DEF Computing
    <3> QED
      BY <3>1, NeededIsLeast DEF Pruning, SuppliesItself
  <2> DEFINE a == Ascending(Needed(graph))
             c == Cardinality(Needed(graph))
  <2>6. /\ c \in Nat /\ DOMAIN Program(graph) = 1..c /\ Len(Program(graph)) = c
        /\ \A i \in 1..c : ToSet(Program(graph)[i].out) = Present(graph.nodes[a[i]].out)
        /\ \E i \in 1..c : a[i] = j
    BY <2>2, <2>5, InstructionsAre
  <2> HIDE DEF a, c
  <2>7. PICK i \in 1..c : a[i] = j
    BY <2>6
  <2>8. i \in 1..pc - 1 /\ n \in Outs(i) /\ i \in DOMAIN Program(graph)
    BY <2>1, <2>3, <2>6, <2>7 DEF Outs
  <2>9. n \in Earlier(pc)
    BY <2>8 DEF Earlier
  <2>10. n \in Table /\ n \notin ConstantOutputs(graph)
    BY <2>1, <2>8, MadeHere DEF Outs
  <2>11. RegionIn(n) = "OUTPUT"
    BY <2>10 DEF RegionIn, RegionOf, KindOf
  <2>12. Holds(n)
    BY <2>1, <2>9, <2>11 DEF Progress, Kept
  <2>13. n \in DOMAIN dumps
    BY <2>1, <2>9 DEF Progress
  <2> QED
    BY <2>1, <2>2, <2>10, <2>12, <2>13, IntactMeans
<1> QED
  BY <1>1, RunHolds, PTL

(* An instruction evaluates its node as ONNX does. *)
LEMMA InstructionEvaluates ==
  ASSUME Compiled, Room, Progress, InstructionDone
  PROVE  Onnx!Next
<1>1. /\ pc \in DOMAIN Program(graph)
      /\ UNCHANGED <<compilerVars, step, arena>>
      /\ dumps' = [n \in Earlier(pc) \cup Outs(pc) |-> Bytes(n)]
  BY DoneProgresses
<1>2. dumps = [n \in Earlier(pc) |-> Bytes(n)]
  BY DEF Progress
<1> DEFINE k == Ascending(Needed(graph))[pc]
<1>3. /\ k \in DOMAIN graph.nodes
      /\ Program(graph)[pc].in = RuntimeInputs(graph.nodes[k])
      /\ Outs(pc) = Present(graph.nodes[k].out)
      /\ DOMAIN Program(graph) \in SUBSET Nat
      /\ \A j \in 1..pc - 1 : j \in DOMAIN Program(graph)
  BY <1>1, CompiledStages, InstructionsAre DEF Outs
<1> HIDE DEF k
<1> DEFINE Known == GraphInputs(graph) \cup Initializers(graph) \cup ConstantOutputs(graph)
                      \cup DOMAIN dumps
<1>s. /\ Onnx!Known = Known
      /\ \A node : Onnx!RuntimeInputs(node) = RuntimeInputs(node)
      /\ \A s : Onnx!Present(s) = Present(s) /\ Onnx!ToSet(s) = ToSet(s)
  <2>1. \A s : Onnx!ToSet(s) = ToSet(s)
    BY DEF Onnx!ToSet, ToSet
  <2>2. Onnx!Initializers(graph) = Initializers(graph) /\ Onnx!ABSENT = ABSENT
    BY <2>1 DEF Onnx!Initializers, Initializers, Onnx!ABSENT, ABSENT
  <2>3. Onnx!GraphInputs(graph) = GraphInputs(graph)
    BY <2>1, <2>2 DEF Onnx!GraphInputs, GraphInputs
  <2>4. Onnx!ConstantOutputs(graph) = ConstantOutputs(graph)
    BY DEF Onnx!ConstantOutputs, ConstantOutputs
  <2>5. \A s : Onnx!Present(s) = Present(s)
    BY <2>1, <2>2 DEF Onnx!Present, Present
  <2>6. \A K : Onnx!Ascending(K) = Ascending(K)
    BY DEF Onnx!Ascending, Ascending, Onnx!Cardinality, Cardinality
  <2>7. \A s, K : Onnx!Sublist(s, K) = Sublist(s, K)
    BY <2>6 DEF Onnx!Sublist, Sublist
  <2>8. \A node : Onnx!ParamPositions(node) = ParamPositions(node)
    BY DEF Onnx!ParamPositions, ParamPositions
  <2>9. \A node : Onnx!RuntimeInputs(node) = RuntimeInputs(node)
    BY <2>2, <2>7, <2>8 DEF Onnx!RuntimeInputs, RuntimeInputs
  <2> QED
    BY <2>1, <2>2, <2>3, <2>4, <2>5, <2>9 DEF Onnx!Known
<1>4. ToSet(RuntimeInputs(graph.nodes[k])) \subseteq Known
  <2> SUFFICES ASSUME NEW n \in ToSet(Program(graph)[pc].in) PROVE n \in Known
    BY <1>3
  <2>1. n \in Earlier(pc) \/ KindOf(graph, n) \in {"INPUT", "WEIGHT", "BIAS", "CONSTANT"}
    BY <1>1, InputsKnown
  <2>2. KindOf(graph, n) \in {"INPUT", "WEIGHT", "BIAS", "CONSTANT"}
          => n \in GraphInputs(graph) \cup Initializers(graph) \cup ConstantOutputs(graph)
    BY DEF KindOf
  <2>3. DOMAIN dumps = Earlier(pc)
    BY <1>2
  <2> QED
    BY <2>1, <2>2, <2>3
<1>5. Outs(pc) \cap DOMAIN dumps = {}
  <2> SUFFICES ASSUME NEW n \in Outs(pc), n \in Earlier(pc) PROVE FALSE
    BY <1>2
  <2>1. PICK j \in 1..pc - 1 : n \in Outs(j)
    BY DEF Earlier
  <2>2. MakerOf(graph, n) = pc /\ MakerOf(graph, n) = j
    BY <1>1, <1>3, <2>1, MadeHere DEF Outs
  <2> QED
    BY <1>1, <1>3, <2>1, <2>2
<1>6. dumps' = [n \in DOMAIN dumps \cup Outs(pc) |->
                  IF n \in Outs(pc) THEN Onnx!Reference(n) ELSE dumps[n]]
  <2>1. \A n : Onnx!Reference(n) = Bytes(n)
    BY DEF Onnx!Reference, Bytes
  <2>2. DOMAIN dumps = Earlier(pc) /\ \A n \in Earlier(pc) : dumps[n] = Bytes(n)
    BY <1>2
  <2> QED
    BY <1>1, <2>1, <2>2
<1>7. Onnx!Evaluate(k)
  BY <1>s, <1>3, <1>4, <1>5, <1>6 DEF Onnx!Evaluate
<1>8. graph' = graph
  BY <1>1, MapStays
<1> QED
  BY <1>3, <1>7, <1>8 DEF Onnx!Next

(* What the runtime dumps is what onnxruntime computes: compiling and running a
   model implements the semantics of ONNX. *)
THEOREM RunImplementsOnnx ==
  OnnxModel(graph) /\ AllSized(graph) /\ SessionRuns /\ Spec => ImplementsOnnx
<1>1. Init => Onnx!Init
  BY DEF Init, RuntimeStart, Onnx!Init
<1>2. AllCompiled /\ RuntimeInv /\ [Next]_allVars /\ [CompilerNext]_compilerVars
        => [Onnx!Next]_<<graph, dumps>>
  <2> SUFFICES ASSUME AllCompiled, RuntimeInv, [Next]_allVars, [CompilerNext]_compilerVars
               PROVE  [Onnx!Next]_<<graph, dumps>>
    OBVIOUS
  <2>1. graph' = graph
    BY GraphStays
  <2>2. CASE InstructionDone
    <3>1. step = "run"
      BY <2>2 DEF InstructionDone, AtKernel, AtInstruction
    <3>2. Compiled /\ Room /\ Progress
      BY <3>1 DEF RuntimeInv, AllCompiled, Compiled
    <3> QED
      BY <2>2, <3>2, InstructionEvaluates
  <2>3. CASE ~InstructionDone
    <3>1. UNCHANGED dumps
      BY <2>3 DEF Next, Compile, RuntimeStep, runtimeVars, allVars, Bind, LoadWeights, LoadInput,
         InputMissing, Load, KernelWrites, KernelFails, Finish
    <3> QED
      BY <2>1, <3>1
  <2> QED
    BY <2>2, <2>3
<1>3. Onnx!Init /\ [][Onnx!Next]_<<graph, dumps>> => Onnx!Spec
  BY DEF Onnx!Spec
<1> QED
  BY <1>1, <1>2, <1>3, RunHolds, PTL DEF Spec, ImplementsOnnx
=============================================================================
