-------------------------- MODULE CompilerProofs ---------------------------
(***************************************************************************)
(* The compiler, for every model that the ONNX checker passes, every       *)
(* alignment and any number of compilations: the activations that are      *)
(* alive together never share a byte, what each pass leaves is a function  *)
(* of the model, the validators find no error of the passes before them,   *)
(* and a second compilation writes what the first one wrote.               *)
(*                                                                         *)
(* The first part is about the planner alone, for every table of tensors   *)
(* and every order in which tensors of equal producer are placed.          *)
(***************************************************************************)
EXTENDS Compiler, ExtractionProofs

Multiple(x) == \E k \in Nat : x = k * ALIGNMENT
Block == [owner : Name, offset : Nat, size : Nat]
Apart(b, c) == ~RangesMeet(b.offset, b.size, c.offset, c.size)
Inside(x, b) == b.offset <= x /\ x < b.offset + b.size

(* The placed tensors are those of the table that are not pending, and every
   pending one is produced at or after them. *)
PlacementType ==
  /\ WellFormed(tensors)
  /\ pending \subseteq ToPlace(tensors)
  /\ offset \in [ToPlace(tensors) \ pending -> Nat]
  /\ active \subseteq Block /\ free \subseteq Block
  /\ highWater \in Nat
InProducerOrder ==
  \A m \in DOMAIN offset, n \in pending : tensors[m].producer <= tensors[n].producer

(* An active block is that of its owner; no owner has a free one besides. *)
Owned ==
  /\ \A b \in active : /\ b.owner \in DOMAIN offset
                       /\ b.offset = offset[b.owner]
                       /\ b.size = Align(tensors[b.owner].size)
  /\ \A b \in free : b.owner \in DOMAIN offset
  /\ \A b \in active, c \in free : b.owner # c.owner

(* A tensor whose block was given back is dead for whatever comes. *)
Accounted ==
  \A m \in DOMAIN offset :
    \/ \E b \in active : b.owner = m
    \/ \A n \in pending : DeadBefore(tensors[m], tensors[n].producer)

(* The blocks S cover the bytes below h, each once, on boundaries. *)
Disjoint(S) == \A b, c \in S : b # c => Apart(b, c)
Bounded(S, h) == \A b \in S : b.offset + b.size <= h
Covered(S, h) == \A x \in 0..h - 1 : \E b \in S : Inside(x, b)
OnBoundary(S, h) == Multiple(h) /\ \A b \in S : Multiple(b.offset) /\ Multiple(b.size)
Tiles(S, h) == Disjoint(S) /\ Bounded(S, h) /\ Covered(S, h) /\ OnBoundary(S, h)

PInv == /\ PlacementType
        /\ InProducerOrder
        /\ Owned
        /\ Accounted
        /\ Tiles(Blocks, highWater)
        /\ LiveDisjoint
-----------------------------------------------------------------------------
(* Align rounds up to a multiple. *)
LEMMA AlignRounds ==
  ASSUME NEW s \in Nat
  PROVE  Align(s) \in Nat /\ s <= Align(s) /\ Multiple(Align(s))
<1> USE AlignmentAssumption
<1> DEFINE q == (s + ALIGNMENT - 1) \div ALIGNMENT
<1>1. s + ALIGNMENT - 1 \in Nat
  OBVIOUS
<1>2. q \in Nat
  BY <1>1
<1>3. s + ALIGNMENT - 1 < q * ALIGNMENT + ALIGNMENT
  BY <1>1
<1>4. Align(s) = q * ALIGNMENT
  BY DEF Align
<1> HIDE DEF q
<1>5. q * ALIGNMENT \in Nat
  BY <1>2
<1>6. Multiple(Align(s))
  BY <1>2, <1>4 DEF Multiple
<1> QED
  BY <1>3, <1>4, <1>5, <1>6

(* Multiples add and subtract. *)
LEMMA MultiplesAdd ==
  ASSUME NEW x \in Nat, NEW y \in Nat, Multiple(x), Multiple(y)
  PROVE  Multiple(x + y) /\ (y <= x => Multiple(x - y))
<1> USE AlignmentAssumption
<1>1. PICK k \in Nat : x = k * ALIGNMENT
  BY DEF Multiple
<1>2. PICK l \in Nat : y = l * ALIGNMENT
  BY DEF Multiple
<1>3. k + l \in Nat /\ x + y = (k + l) * ALIGNMENT
  BY <1>1, <1>2
<1>4. ASSUME y <= x PROVE k - l \in Nat /\ x - y = (k - l) * ALIGNMENT
  BY <1>1, <1>2, <1>4
<1>5. Multiple(x + y)
  BY ONLY <1>3 DEF Multiple
<1>6. ASSUME y <= x PROVE Multiple(x - y)
  BY ONLY <1>4, <1>6 DEF Multiple
<1> QED
  BY <1>5, <1>6

(* What the property calls being on a boundary. *)
LEMMA MultipleDivides ==
  ASSUME NEW x \in Nat, Multiple(x)
  PROVE  x % ALIGNMENT = 0
<1>1. PICK k \in Nat : x = k * ALIGNMENT
  BY DEF Multiple
<1> QED
  BY <1>1, AlignmentAssumption
-----------------------------------------------------------------------------
(* A block appended at the end of the region. *)
LEMMA GrowTiles ==
  ASSUME NEW S, S \subseteq Block, NEW h \in Nat, Tiles(S, h),
         NEW a \in Block, a.offset = h, Multiple(a.size)
  PROVE  Tiles(S \cup {a}, h + a.size)
<1> USE DEF Tiles, Block
<1>1. \A b \in S : Apart(b, a) /\ Apart(a, b)
  BY DEF Bounded, Apart, RangesMeet
<1>2. Disjoint(S \cup {a})
  BY <1>1 DEF Disjoint
<1>3. Bounded(S \cup {a}, h + a.size)
  BY DEF Bounded
<1>4. Covered(S \cup {a}, h + a.size)
  <2> SUFFICES ASSUME NEW x \in 0..(h + a.size) - 1
               PROVE  \E b \in S \cup {a} : Inside(x, b)
    BY DEF Covered
  <2>1. CASE x < h
    <3>1. x \in 0..h - 1
      BY <2>1
    <3> QED
      BY <3>1 DEF Covered
  <2>2. CASE ~(x < h)
    <3>1. Inside(x, a)
      BY <2>2 DEF Inside
    <3> QED
      BY <3>1
  <2> QED
    BY <2>1, <2>2
<1>5. OnBoundary(S \cup {a}, h + a.size)
  <2>1. Multiple(h) /\ Multiple(h + a.size)
    BY MultiplesAdd DEF OnBoundary
  <2> QED
    BY <2>1 DEF OnBoundary
<1> QED
  BY <1>2, <1>3, <1>4, <1>5

(* The head of a block taken, its tail kept. *)
LEMMA SplitTiles ==
  ASSUME NEW S, S \subseteq Block, NEW h \in Nat, Tiles(S, h),
         NEW b \in S, NEW a \in Block,
         a.offset = b.offset, a.size <= b.size, Multiple(a.size)
  PROVE  /\ Rest(b, a.size) \subseteq Block
         /\ Tiles((S \ {b}) \cup {a} \cup Rest(b, a.size), h)
<1> DEFINE R == Rest(b, a.size)
           T == (S \ {b}) \cup {a} \cup R
<1> USE DEF Tiles
<1>1. b \in Block /\ b.offset \in Nat /\ b.size \in Nat /\ a.size \in Nat
  BY DEF Block
<1>2. \A r \in R : /\ r \in Block /\ r.offset = b.offset + a.size
                  /\ r.size = b.size - a.size /\ a.size < b.size
  <2> SUFFICES ASSUME NEW r \in R
               PROVE  /\ r \in Block /\ r.offset = b.offset + a.size
                      /\ r.size = b.size - a.size /\ a.size < b.size
    OBVIOUS
  <2>1. /\ b.size > a.size
        /\ r = [owner |-> b.owner, offset |-> b.offset + a.size, size |-> b.size - a.size]
    BY DEF Rest
  <2>2. b.offset + a.size \in Nat /\ b.size - a.size \in Nat
    BY <1>1, <2>1
  <2>3. r \in Block
    BY <1>1, <2>1, <2>2 DEF Block
  <2>4. r.offset = b.offset + a.size /\ r.size = b.size - a.size
    BY <2>1
  <2> QED
    BY <1>1, <2>1, <2>3, <2>4
<1>3. \A r, s \in R : r = s
  BY DEF Rest
<1>4. b.size > a.size => \E r \in R : TRUE
  BY DEF Rest
<1> HIDE DEF R
<1>5. \A c \in S \ {b} : c.offset \in Nat /\ c.size \in Nat /\ Apart(c, b) /\ Apart(b, c)
  BY DEF Disjoint, Block
<1>6. \A c \in S \ {b} : Apart(c, a) /\ Apart(a, c)
  BY <1>1, <1>5 DEF Apart, RangesMeet
<1>7. \A c \in S \ {b} : \A r \in R : Apart(c, r) /\ Apart(r, c)
  BY <1>1, <1>2, <1>5 DEF Apart, RangesMeet
<1>8. \A r \in R : Apart(a, r) /\ Apart(r, a)
  BY <1>1, <1>2 DEF Apart, RangesMeet
<1>9. Disjoint(T)
  BY <1>3, <1>6, <1>7, <1>8 DEF Disjoint
<1>10. Bounded(T, h)
  <2>1. b.offset + b.size <= h
    BY DEF Bounded
  <2>2. a.offset + a.size <= h
    BY <1>1, <2>1
  <2>3. \A r \in R : r.offset + r.size <= h
    BY <1>1, <1>2, <2>1
  <2> QED
    BY <2>2, <2>3 DEF Bounded
<1>11. Covered(T, h)
  <2> SUFFICES ASSUME NEW x \in 0..h - 1
               PROVE  \E c \in T : Inside(x, c)
    BY DEF Covered
  <2>1. PICK c \in S : Inside(x, c)
    BY DEF Covered
  <2>2. CASE c # b
    BY <2>1, <2>2
  <2>3. CASE c = b /\ x < b.offset + a.size
    <3>1. Inside(x, a)
      BY <2>1, <2>3 DEF Inside
    <3> QED
      BY <3>1
  <2>4. CASE c = b /\ ~(x < b.offset + a.size)
    <3>1. b.size > a.size
      BY <1>1, <2>1, <2>4 DEF Inside
    <3>2. PICK r \in R : TRUE
      BY <1>4, <3>1
    <3>3. Inside(x, r)
      BY <1>1, <1>2, <2>1, <2>4 DEF Inside
    <3> QED
      BY <3>3
  <2> QED
    BY <2>2, <2>3, <2>4
<1>12. OnBoundary(T, h)
  <2>1. Multiple(b.offset) /\ Multiple(b.size)
    BY DEF OnBoundary
  <2>2. Multiple(b.offset + a.size) /\ Multiple(b.size - a.size)
    BY <1>1, <2>1, MultiplesAdd
  <2>3. \A r \in R : Multiple(r.offset) /\ Multiple(r.size)
    BY <1>2, <2>2
  <2> QED
    BY <2>1, <2>3 DEF OnBoundary
<1> QED
  BY <1>2, <1>9, <1>10, <1>11, <1>12 DEF R
-----------------------------------------------------------------------------
(* Before the first tensor is placed the region is empty. *)
LEMMA InitPInv ==
  PlanInit => PInv
<1> SUFFICES ASSUME PlanInit PROVE PInv
  OBVIOUS
<1> USE DEF PlanInit, EmptyRegion
<1>1. DOMAIN offset = {} /\ Blocks = {}
  BY DEF Blocks
<1>2. PlacementType
  <2>1. offset \in [ToPlace(tensors) \ pending -> Nat]
    BY <1>1
  <2> QED
    BY <2>1 DEF PlacementType
<1>3. Tiles(Blocks, highWater)
  <2>1. Multiple(0)
    BY AlignmentAssumption DEF Multiple
  <2> QED
    BY <1>1, <2>1 DEF Tiles, Disjoint, Bounded, Covered, OnBoundary
<1> QED
  BY <1>1, <1>2, <1>3 DEF PInv, InProducerOrder, Owned, Accounted, LiveDisjoint

(* The tensors the pass places have a size and lifetimes to compare. *)
LEMMA Placeable ==
  ASSUME PlacementType
  PROVE  /\ DOMAIN offset = ToPlace(tensors) \ pending
         /\ \A n \in pending \cup DOMAIN offset :
              /\ n \in Name
              /\ tensors[n].size \in Nat
              /\ tensors[n].producer \in Nat
              /\ tensors[n].consumers \subseteq Nat
              /\ \A c \in tensors[n].consumers : tensors[n].producer < c
<1>1. DOMAIN offset = ToPlace(tensors) \ pending
  BY DEF PlacementType
<1>2. pending \cup DOMAIN offset \subseteq ToPlace(tensors)
  BY <1>1 DEF PlacementType
<1>3. \A n \in ToPlace(tensors) : /\ n \in DOMAIN tensors
                                 /\ tensors[n].producer # NONE
  BY DEF ToPlace
<1>4. \A n \in DOMAIN tensors : /\ n \in Name
                               /\ tensors[n].size \in Nat
                               /\ tensors[n].producer \in Nat \cup {NONE}
                               /\ tensors[n].consumers \subseteq Nat
                               /\ \A c \in tensors[n].consumers : tensors[n].producer < c
  BY DEF PlacementType, WellFormed, Tensor
<1> QED
  BY <1>1, <1>2, <1>3, <1>4

(* Both ways of placing a tensor, on a block that is free or at the end of the
   region, make one block for it and leave the region tiled; what is free was
   free or has just expired. *)
LEMMA PlaceTiles ==
  ASSUME PInv, NEW n \in pending, Place(n)
  PROVE  LET expired == Expired(tensors[n].producer)
         IN  \E a \in Block :
               /\ a.owner = n /\ a.size = Align(tensors[n].size)
               /\ PlaceAt(n, a.offset, a.size, active \ expired)
               /\ a = [owner |-> n, offset |-> a.offset, size |-> a.size]
               /\ free' \subseteq Block
               /\ \A c \in free' : \E d \in free \cup expired : c.owner = d.owner
               /\ highWater' \in Nat
               /\ Tiles(Blocks', highWater')
<1> DEFINE expired == Expired(tensors[n].producer)
           size == Align(tensors[n].size)
           released == free \cup expired
           block(x) == [owner |-> n, offset |-> x, size |-> size]
<1>1. /\ active \subseteq Block /\ free \subseteq Block /\ highWater \in Nat
      /\ PlacementType /\ Owned /\ Tiles(Blocks, highWater)
  BY DEF PInv, PlacementType
<1>2. n \in Name /\ size \in Nat /\ Multiple(size)
  BY <1>1, Placeable, AlignRounds
<1>3. expired \subseteq active /\ Blocks = (active \ expired) \cup released
  BY DEF Expired, Blocks
<1>4. Blocks \subseteq Block
  BY <1>1 DEF Blocks
<1>5. \A x \in Nat : /\ block(x) \in Block /\ block(x).owner = n
                    /\ block(x).offset = x /\ block(x).size = size
  BY <1>2 DEF Block
<1>6. \A b \in released : b \notin active \ expired
  BY <1>1 DEF Owned
<1>7. n \in NextToPlace /\ \/ /\ PlaceAt(n, highWater, size, active \ expired)
                              /\ free' = released
                              /\ highWater' = highWater + size
                           \/ \E b \in FirstFit(released, size) :
                                /\ PlaceAt(n, b.offset, size, active \ expired)
                                /\ free' = (released \ {b}) \cup Rest(b, size)
                                /\ UNCHANGED highWater
  BY DEF Place
<1> HIDE DEF expired, size, block
<1>8. CASE /\ PlaceAt(n, highWater, size, active \ expired)
           /\ free' = released
           /\ highWater' = highWater + size
  <2> DEFINE a == block(highWater)
  <2>1. /\ a \in Block /\ a.owner = n /\ a.offset = highWater /\ a.size = size
    BY <1>1, <1>5
  <2>2. a = [owner |-> n, offset |-> a.offset, size |-> a.size]
    BY <2>1 DEF block
  <2>3. active' = (active \ expired) \cup {a}
    BY <1>8 DEF PlaceAt, block
  <2> HIDE DEF a
  <2>4. Blocks' = Blocks \cup {a}
    BY <1>3, <1>8, <2>3 DEF Blocks
  <2>5. Tiles(Blocks \cup {a}, highWater + a.size)
    BY <1>1, <1>2, <1>4, <2>1, GrowTiles
  <2>6. Tiles(Blocks', highWater')
    BY <1>8, <2>1, <2>4, <2>5
  <2>7. highWater' \in Nat
    BY <1>1, <1>2, <1>8
  <2>8. free' \subseteq Block
    BY <1>1, <1>3, <1>8
  <2> QED
    BY <1>8, <2>1, <2>2, <2>6, <2>7, <2>8 DEF expired, size
<1>9. ASSUME NEW b \in FirstFit(released, size),
             PlaceAt(n, b.offset, size, active \ expired),
             free' = (released \ {b}) \cup Rest(b, size),
             highWater' = highWater
      PROVE  \E a \in Block :
               /\ a.owner = n /\ a.size = size
               /\ PlaceAt(n, a.offset, a.size, active \ expired)
               /\ a = [owner |-> n, offset |-> a.offset, size |-> a.size]
               /\ free' \subseteq Block
               /\ \A c \in free' : \E d \in released : c.owner = d.owner
               /\ highWater' \in Nat
               /\ Tiles(Blocks', highWater')
  <2> DEFINE a == block(b.offset)
  <2>1. /\ b \in released /\ b \in Blocks /\ b \in Block
        /\ size <= b.size /\ b.offset \in Nat
    BY <1>2, <1>3, <1>4 DEF FirstFit, Block
  <2>2. /\ a \in Block /\ a.owner = n /\ a.offset = b.offset /\ a.size = size
    BY <1>5, <2>1
  <2>3. a = [owner |-> n, offset |-> a.offset, size |-> a.size]
    BY <2>2 DEF block
  <2>4. active' = (active \ expired) \cup {a}
    BY <1>9 DEF PlaceAt, block
  <2> HIDE DEF a
  <2>5. Blocks' = (Blocks \ {b}) \cup {a} \cup Rest(b, a.size)
    BY <1>3, <1>6, <1>9, <2>1, <2>2, <2>4 DEF Blocks
  <2>6. /\ Rest(b, a.size) \subseteq Block
        /\ Tiles((Blocks \ {b}) \cup {a} \cup Rest(b, a.size), highWater)
    BY <1>1, <1>2, <1>4, <2>1, <2>2, SplitTiles
  <2>7. Tiles(Blocks', highWater')
    BY <1>9, <2>5, <2>6
  <2>8. free' \subseteq Block
    BY <1>1, <1>3, <1>9, <2>2, <2>6
  <2>9. \A c \in Rest(b, size) : c.owner = b.owner
    BY DEF Rest
  <2>10. \A c \in free' : \E d \in released : c.owner = d.owner
    BY <1>9, <2>1, <2>9
  <2> QED
    BY <1>1, <1>9, <2>2, <2>3, <2>7, <2>8, <2>10
<1> QED
  BY <1>7, <1>8, <1>9 DEF expired, size

(* A tensor that is dead stays so for whatever is produced later. *)
LEMMA DeadLater ==
  ASSUME NEW t, t.consumers \subseteq Nat, NEW i \in Nat, NEW j \in Nat,
         DeadBefore(t, i), i <= j
  PROVE  DeadBefore(t, j)
BY DEF DeadBefore

(* Placing one tensor preserves the invariant. *)
LEMMA PlaceStep ==
  ASSUME PInv, NEW n \in pending, Place(n), UNCHANGED tensors
  PROVE  PInv'
<1> DEFINE expired == Expired(tensors[n].producer)
<1>1. PICK a \in Block :
        /\ a.owner = n /\ a.size = Align(tensors[n].size)
        /\ PlaceAt(n, a.offset, a.size, active \ expired)
        /\ a = [owner |-> n, offset |-> a.offset, size |-> a.size]
        /\ free' \subseteq Block
        /\ \A c \in free' : \E d \in free \cup expired : c.owner = d.owner
        /\ highWater' \in Nat
        /\ Tiles(Blocks', highWater')
  BY PlaceTiles
<1>2. /\ PlacementType /\ InProducerOrder /\ Owned /\ Accounted /\ LiveDisjoint
      /\ active \subseteq Block
  BY DEF PInv, PlacementType
<1>3. /\ DOMAIN offset = ToPlace(tensors) \ pending
      /\ \A m \in pending \cup DOMAIN offset :
           /\ m \in Name
           /\ tensors[m].size \in Nat
           /\ tensors[m].producer \in Nat
           /\ tensors[m].consumers \subseteq Nat
           /\ \A c \in tensors[m].consumers : tensors[m].producer < c
  BY <1>2, Placeable
<1>4. n \notin DOMAIN offset /\ a.offset \in Nat /\ a.size \in Nat
  BY <1>3 DEF Block
<1>5. /\ DOMAIN offset' = DOMAIN offset \cup {n}
      /\ offset' = [m \in DOMAIN offset \cup {n} |-> IF m = n THEN a.offset ELSE offset[m]]
      /\ pending' = pending \ {n}
      /\ active' = (active \ expired) \cup {a}
  BY <1>1 DEF PlaceAt
<1>6. offset'[n] = a.offset /\ \A m \in DOMAIN offset : offset'[m] = offset[m]
  BY <1>4, <1>5
<1>7. \A m \in pending : tensors[n].producer <= tensors[m].producer
  BY DEF Place, NextToPlace
<1>8. \A b \in active : b \in expired <=> DeadBefore(tensors[b.owner], tensors[n].producer)
  BY DEF Expired
<1>9. expired \subseteq active
  BY DEF Expired
<1> HIDE DEF expired
<1>10. PlacementType'
  <2>1. pending' \subseteq ToPlace(tensors)
    BY <1>2, <1>5 DEF PlacementType
  <2>2. DOMAIN offset' = ToPlace(tensors) \ pending'
    BY <1>2, <1>3, <1>5 DEF PlacementType
  <2>3. \A m \in DOMAIN offset' : offset'[m] \in Nat
    BY <1>2, <1>3, <1>4, <1>5, <1>6 DEF PlacementType
  <2>4. offset' = [m \in DOMAIN offset' |-> offset'[m]]
    BY <1>5
  <2>5. offset' \in [ToPlace(tensors) \ pending' -> Nat]
    BY ONLY <2>2, <2>3, <2>4
  <2>6. active' \subseteq Block
    BY <1>2, <1>5
  <2>7. ToPlace(tensors)' = ToPlace(tensors) /\ WellFormed(tensors)'
    BY <1>2 DEF ToPlace, PlacementType, WellFormed
  <2> QED
    BY <1>1, <2>1, <2>5, <2>6, <2>7 DEF PlacementType
<1>11. InProducerOrder'
  <2> SUFFICES ASSUME NEW m \in DOMAIN offset', NEW p \in pending'
               PROVE  tensors[m].producer <= tensors[p].producer
    BY DEF InProducerOrder
  <2> QED
    BY <1>2, <1>5, <1>7 DEF InProducerOrder
<1>12. Owned'
  <2>1. \A b \in active \ expired : b.owner \in DOMAIN offset /\ b.owner # n
    BY <1>2, <1>4 DEF Owned
  <2>2. \A b \in active' : /\ b.owner \in DOMAIN offset'
                          /\ b.offset = offset'[b.owner]
                          /\ b.size = Align(tensors[b.owner].size)
    BY <1>1, <1>2, <1>5, <1>6, <2>1 DEF Owned
  <2>3. \A d \in free \cup expired : d.owner \in DOMAIN offset /\ d.owner # n
    BY <1>2, <1>4, <1>9 DEF Owned
  <2>4. \A b \in active \ expired, d \in free \cup expired : b.owner # d.owner
    BY <1>2, <1>8, <1>9 DEF Owned
  <2>5. \A c \in free' : c.owner \in DOMAIN offset'
    BY <1>1, <1>5, <2>3
  <2>6. ASSUME NEW b \in active', NEW c \in free'
        PROVE  b.owner # c.owner
    <3>1. PICK d \in free \cup expired : c.owner = d.owner
      BY <1>1
    <3>2. CASE b = a
      BY <1>1, <2>3, <3>1, <3>2
    <3>3. CASE b \in active \ expired
      BY <2>4, <3>1, <3>3
    <3> QED
      BY <1>5, <3>2, <3>3
  <2>7. (\A b \in active : b.size = Align(tensors[b.owner].size))'
    BY <2>2 DEF Align
  <2> QED
    BY <2>2, <2>5, <2>6, <2>7 DEF Owned
<1>13. Accounted'
  <2> SUFFICES ASSUME NEW m \in DOMAIN offset'
               PROVE  \/ \E b \in active' : b.owner = m
                      \/ \A p \in pending' : DeadBefore(tensors[m], tensors[p].producer)
    BY DEF Accounted, DeadBefore
  <2>1. CASE m = n
    BY <1>1, <1>5, <2>1
  <2>2. CASE m \in DOMAIN offset /\ \A p \in pending : DeadBefore(tensors[m], tensors[p].producer)
    BY <1>5, <2>2
  <2>3. ASSUME m \in DOMAIN offset, NEW b \in active, b.owner = m
        PROVE  \/ \E c \in active' : c.owner = m
               \/ \A p \in pending' : DeadBefore(tensors[m], tensors[p].producer)
    <3>1. CASE b \notin expired
      BY <1>5, <2>3, <3>1
    <3>2. CASE b \in expired
      <4>1. DeadBefore(tensors[m], tensors[n].producer)
        BY <1>8, <2>3, <3>2
      <4>2. \A p \in pending : DeadBefore(tensors[m], tensors[p].producer)
        BY <1>3, <1>7, <2>3, <4>1, DeadLater
      <4> QED
        BY <1>5, <4>2
    <3> QED
      BY <3>1, <3>2
  <2> QED
    BY <1>2, <1>5, <2>1, <2>2, <2>3 DEF Accounted
<1>14. LiveDisjoint'
  <2>1. \A b, c \in Blocks' : b # c => Apart(b, c)
    BY <1>1 DEF Tiles, Disjoint
  <2>2. ASSUME NEW m \in DOMAIN offset, LifetimesMeet(tensors[m], tensors[n])
        PROVE  LET size == Align(tensors[n].size)
                   other == Align(tensors[m].size)
               IN  /\ ~RangesMeet(offset[m], other, a.offset, size)
                   /\ ~RangesMeet(a.offset, size, offset[m], other)
    <3>1. ~DeadBefore(tensors[m], tensors[n].producer)
      BY <2>2 DEF LifetimesMeet
    <3>2. PICK b \in active : b.owner = m
      BY <1>2, <3>1 DEF Accounted
    <3>3. b \in active \ expired /\ b \in Blocks' /\ a \in Blocks'
      BY <1>5, <1>8, <3>1, <3>2 DEF Blocks
    <3>4. Apart(a, b) /\ Apart(b, a)
      BY <1>1, <1>4, <2>1, <3>2, <3>3
    <3>5. b.offset = offset[m] /\ b.size = Align(tensors[m].size)
      BY <1>2, <3>2 DEF Owned
    <3> QED
      BY <1>1, <3>4, <3>5 DEF Apart
  <2>3. \A m : LifetimesMeet(tensors[n], tensors[m]) => LifetimesMeet(tensors[m], tensors[n])
    BY DEF LifetimesMeet
  <2>4. ASSUME NEW l \in DOMAIN offset', NEW m \in DOMAIN offset', l # m,
               LifetimesMeet(tensors[l], tensors[m])
        PROVE  ~RangesMeet(offset'[l], Align(tensors[l].size), offset'[m], Align(tensors[m].size))
    <3>1. CASE l # n /\ m # n
      BY <1>2, <1>5, <1>6, <2>4, <3>1 DEF LiveDisjoint
    <3>2. CASE m = n
      BY <1>5, <1>6, <2>2, <2>4, <3>2
    <3>3. CASE l = n
      BY <1>5, <1>6, <2>2, <2>3, <2>4, <3>3
    <3> QED
      BY <3>1, <3>2, <3>3
  <2> QED
    BY <2>4 DEF LiveDisjoint
<1>15. Tiles(Blocks, highWater)'
  BY <1>1
<1> QED
  BY <1>10, <1>11, <1>12, <1>13, <1>14, <1>15 DEF PInv
-----------------------------------------------------------------------------
(* The invariant holds throughout the pass. *)
LEMMA PInvHolds ==
  PlanSpec => []PInv
<1>1. PInv /\ UNCHANGED planVars => PInv'
  <2> SUFFICES ASSUME PInv, UNCHANGED planVars PROVE PInv'
    OBVIOUS
  <2> USE DEF planVars, plannerVars
  <2>1. PlacementType' /\ InProducerOrder'
    BY DEF PInv, PlacementType, InProducerOrder, ToPlace, WellFormed
  <2>2. Owned' /\ Accounted' /\ LiveDisjoint'
    BY DEF PInv, Owned, Accounted, LiveDisjoint
  <2>3. Tiles(Blocks, highWater)'
    BY DEF PInv, Blocks
  <2> QED
    BY <2>1, <2>2, <2>3 DEF PInv
<1>2. PInv /\ [PlanNext]_planVars => PInv'
  BY <1>1, PlaceStep DEF PlanNext
<1> QED
  BY InitPInv, <1>2, PTL DEF PlanSpec

(* Whatever the tensors, their sizes and lifetimes and the alignment, two
   tensors that are alive together share no byte of the region. *)
THEOREM LiveTensorsDisjoint ==
  PlanSpec => []LiveDisjoint
<1>1. PInv => LiveDisjoint
  BY DEF PInv
<1> QED
  BY PInvHolds, <1>1, PTL

(* However blocks are split, given back and reused, every byte of the region
   belongs to exactly one of them, and each begins on a boundary. *)
THEOREM RegionIsTiled ==
  PlanSpec => []RegionTiled
<1>1. PInv => RegionTiled
  <2> SUFFICES ASSUME PInv PROVE RegionTiled
    OBVIOUS
  <2>1. Blocks \subseteq Block /\ highWater \in Nat /\ Tiles(Blocks, highWater)
    BY DEF PInv, PlacementType, Blocks
  <2>2. \A b \in Blocks : b.offset % ALIGNMENT = 0
    BY <2>1, MultipleDivides DEF Tiles, OnBoundary, Block
  <2>3. ASSUME NEW x \in 0..highWater - 1
        PROVE  Cardinality({b \in Blocks : b.offset <= x /\ x < b.offset + b.size}) = 1
    <3> DEFINE holders == {b \in Blocks : b.offset <= x /\ x < b.offset + b.size}
    <3>1. PICK b \in Blocks : Inside(x, b)
      BY <2>1 DEF Tiles, Covered
    <3>2. \A c \in Blocks : Inside(x, c) => ~Apart(b, c)
      BY <2>1, <3>1 DEF Inside, Apart, RangesMeet, Block
    <3>3. \A c \in Blocks : Inside(x, c) => c = b
      BY <2>1, <3>2 DEF Tiles, Disjoint
    <3>4. holders = {b}
      BY <3>1, <3>3 DEF Inside
    <3> QED
      BY <3>4, FS_Singleton
  <2> QED
    BY <2>2, <2>3 DEF RegionTiled
<1> QED
  BY PInvHolds, <1>1, PTL

-----------------------------------------------------------------------------
(* From the first pass to the dead-code loop. *)

Program(g) == ProgramOf(g, Needed(g))

(* The stages from one pass on. *)
FromPlan == {"plan", "place", "overlap", "json", "weights", "done"}
FromSchedule == {"schedule", "shapes"} \cup FromPlan
FromTable == {"table", "resolve", "liveness"} \cup FromSchedule
FromFold == {"fold", "build", "prune"} \cup FromTable
FromIds == {"ids"} \cup FromFold

(* What the first passes leave, a function of the model from the end of the
   dead-code loop on. *)
ExtractionInv ==
  /\ OnnxModel(graph)
  /\ stage \in FromIds => StoredOrderValid(graph)
  /\ stage \in FromFold => ids = TensorIds(graph)
  /\ stage = "build" => folded = CandidateNames(graph)
  /\ stage = "prune" => \E K : Pruning(graph, K) /\ instructions = ProgramOf(graph, K)
  /\ stage \in FromTable => instructions = Program(graph)

(* The passes after the dead-code loop. *)
LaterPass == \/ BuildTensorTable \/ ResolveDynamicShapes
             \/ ComputeLiveness \/ ValidateInstructionOrder \/ ValidateStaticShapes
             \/ PlanBegins \/ PlaceActivation \/ PlacePersistent \/ ValidateNoMemoryOverlap
             \/ WriteJson \/ WriteWeights

(* They change neither the ids nor the instructions. *)
LEMMA LaterPasses ==
  ASSUME LaterPass
  PROVE  /\ UNCHANGED <<graph, ids, folded, instructions>>
         /\ stage \in FromTable /\ stage' \in (FromTable \ {"table"}) \cup {"failed"}
<1> USE DEF FromTable, FromSchedule, FromPlan, Goto, Fail
<1>1. CASE BuildTensorTable
  BY <1>1 DEF BuildTensorTable
<1>2. CASE ResolveDynamicShapes
  BY <1>2 DEF ResolveDynamicShapes
<1>3. CASE ComputeLiveness
  BY <1>3 DEF ComputeLiveness
<1>4. CASE ValidateInstructionOrder
  BY <1>4 DEF ValidateInstructionOrder
<1>5. CASE ValidateStaticShapes
  BY <1>5 DEF ValidateStaticShapes
<1>6. CASE PlanBegins
  BY <1>6 DEF PlanBegins
<1>7. CASE PlaceActivation
  BY <1>7 DEF PlaceActivation, extractVars
<1>8. CASE PlacePersistent
  BY <1>8 DEF PlacePersistent
<1>9. CASE ValidateNoMemoryOverlap
  BY <1>9 DEF ValidateNoMemoryOverlap
<1>10. CASE WriteJson
  BY <1>10 DEF WriteJson
<1>11. CASE WriteWeights
  BY <1>11 DEF WriteWeights
<1> QED
  BY <1>1, <1>2, <1>3, <1>4, <1>5, <1>6, <1>7, <1>8, <1>9, <1>10, <1>11 DEF LaterPass

(* The passes that come first. *)
FirstPass == \/ Inspect \/ ValidateTopologicalOrder \/ AssignTensorIds \/ FoldParameters
             \/ BuildInstructions \/ RemoveDeadInstructions

(* There are no others. *)
LEMMA CompilerSteps ==
  ASSUME CompilerNext
  PROVE  FirstPass \/ LaterPass \/ CompileAgain
  BY DEF CompilerNext, CompilerStep, Extract, FirstPass, LaterPass

(* Nothing changes the model. *)
LEMMA GraphStays ==
  ASSUME [CompilerNext]_compilerVars
  PROVE  graph' = graph
<1>1. CASE FirstPass
  BY <1>1 DEF FirstPass, Inspect, ValidateTopologicalOrder, AssignTensorIds, FoldParameters,
       BuildInstructions, RemoveDeadInstructions
<1>2. CASE LaterPass
  BY <1>2, LaterPasses
<1>3. CASE CompileAgain
  BY <1>3 DEF CompileAgain
<1>4. CASE UNCHANGED compilerVars
  BY <1>4 DEF compilerVars, extractVars
<1> QED
  BY <1>1, <1>2, <1>3, <1>4, CompilerSteps

(* The parameters of the nodes of a model are its candidate names. *)
LEMMA NothingUnfolded ==
  ASSUME ExtractionInv, BuildInstructions
  PROVE  /\ stage' = "prune"
         /\ instructions' = ProgramOf(graph, RealNodes(graph))
<1> DEFINE K == RealNodes(graph)
           real == Sublist(graph.nodes, K)
           n == Cardinality(K)
<1>1. stage = "build" /\ OnnxModel(graph) /\ folded = CandidateNames(graph)
  BY DEF ExtractionInv, BuildInstructions
<1>2. K \in SUBSET DOMAIN graph.nodes /\ graph.nodes \in Seq(Node)
  BY <1>1, PruningStarts, NodeTypes
<1>3. IF \E i \in DOMAIN real : Params(real[i]) \ folded # {}
      THEN Fail("parameter not folded") /\ UNCHANGED instructions
      ELSE /\ Goto("prune")
           /\ instructions' = [i \in DOMAIN real |-> Translate(real[i])]
  BY DEF BuildInstructions, RealNodes
<1> HIDE DEF K
<1>4. /\ Lists(Ascending(K), n, K) /\ DOMAIN real = 1..n
      /\ \A k \in 1..n : real[k] = graph.nodes[Ascending(K)[k]]
  BY <1>2, SublistOf
<1>5. \A k \in DOMAIN real : \E i \in DOMAIN graph.nodes : real[k] = graph.nodes[i]
  BY <1>2, <1>4 DEF Lists
<1>6. \A k \in DOMAIN real : Params(real[k]) \ folded = {}
  <2>1. \A i \in DOMAIN graph.nodes : Params(graph.nodes[i]) \subseteq CandidateNames(graph)
    BY DEF CandidateNames
  <2> QED
    BY <1>1, <1>5, <2>1
<1>7. Goto("prune") /\ instructions' = [i \in DOMAIN real |-> Translate(real[i])]
  BY <1>3, <1>6
<1> QED
  BY <1>7 DEF ProgramOf, Goto, K

(* A round of the loop removes what is of no use, and the last one leaves the
   instructions of the needed nodes. *)
LEMMA RoundOfPruning ==
  ASSUME ExtractionInv, RemoveDeadInstructions
  PROVE  \/ /\ stage' = "prune"
            /\ \E K : Pruning(graph, K) /\ instructions' = ProgramOf(graph, K)
         \/ stage' = "table" /\ instructions' = Program(graph)
<1>1. /\ stage = "prune" /\ OnnxModel(graph) /\ StoredOrderValid(graph)
      /\ \E K : Pruning(graph, K) /\ instructions = ProgramOf(graph, K)
  BY DEF ExtractionInv, RemoveDeadInstructions, FromIds, FromFold
<1>2. PICK K : Pruning(graph, K) /\ instructions = ProgramOf(graph, K)
  BY <1>1
<1>3. K \in SUBSET DOMAIN graph.nodes
  BY <1>2, PruningStarts DEF Pruning
<1>4. Live = LiveOf(graph, instructions)
  BY DEF Live, LiveOf
<1>5. /\ instructions' = Sublist(instructions, Live)
      /\ IF Cardinality(Live) = Len(instructions) THEN stage' = "table" ELSE stage' = "prune"
  BY DEF RemoveDeadInstructions, Goto
<1>6. /\ instructions' = ProgramOf(graph, Useful(graph, K))
      /\ Cardinality(Live) = Len(instructions) <=> Useful(graph, K) = K
  BY <1>1, <1>2, <1>3, <1>4, <1>5, RoundKeepsUseful
<1>7. Pruning(graph, Useful(graph, K))
  BY <1>2, PruningStep
<1>8. Useful(graph, K) = K => K = Needed(graph)
  BY <1>1, <1>2, PruningEnds
<1> QED
  BY <1>5, <1>6, <1>7, <1>8 DEF Program

(* The invariant of extraction, from the first pass on. *)
LEMMA ExtractionStarts ==
  ASSUME OnnxModel(graph), CompilerStart
  PROVE  ExtractionInv
  BY DEF ExtractionInv, CompilerStart, FromIds, FromFold, FromTable, FromSchedule, FromPlan

(* Every pass keeps it, and so does a new compilation. *)
LEMMA ExtractionStep ==
  ASSUME ExtractionInv, [CompilerNext]_compilerVars
  PROVE  ExtractionInv'
<1>0. graph' = graph
  BY GraphStays
<1> DEFINE Sets == /\ "inspect" \notin FromIds /\ "order" \notin FromIds /\ "failed" \notin FromIds
                   /\ FromIds = {"ids"} \cup FromFold
                   /\ FromFold = {"fold", "build", "prune"} \cup FromTable
                   /\ "ids" \notin FromFold /\ "table" \in FromTable
                   /\ {"fold", "build", "prune"} \cap FromTable = {}
<1>s. Sets
  BY DEF FromIds, FromFold, FromTable, FromSchedule, FromPlan
<1>1. CASE Inspect
  BY <1>0, <1>1, <1>s DEF ExtractionInv, Inspect, Goto, Fail
<1>2. CASE ValidateTopologicalOrder
  BY <1>0, <1>2, <1>s DEF ExtractionInv, ValidateTopologicalOrder, Goto, Fail
<1>3. CASE AssignTensorIds
  BY <1>0, <1>3, <1>s DEF ExtractionInv, AssignTensorIds, Goto, Fail
<1>4. CASE FoldParameters
  BY <1>0, <1>4, <1>s DEF ExtractionInv, FoldParameters, Goto, Fail
<1>5. CASE BuildInstructions
  <2>1. UNCHANGED <<ids, folded>> /\ stage = "build"
    BY <1>5 DEF BuildInstructions
  <2>2. stage' = "prune" /\ instructions' = ProgramOf(graph, RealNodes(graph))
    BY <1>5, NothingUnfolded
  <2>3. Pruning(graph, RealNodes(graph))
    BY PruningStarts
  <2> QED
    BY <1>0, <1>s, <2>1, <2>2, <2>3 DEF ExtractionInv
<1>6. CASE RemoveDeadInstructions
  <2>1. UNCHANGED <<ids, folded>> /\ stage = "prune"
    BY <1>6 DEF RemoveDeadInstructions
  <2>2. \/ /\ stage' = "prune"
           /\ \E K : Pruning(graph, K) /\ instructions' = ProgramOf(graph, K)
        \/ stage' = "table" /\ instructions' = Program(graph)
    BY <1>6, RoundOfPruning
  <2> QED
    BY <1>0, <1>s, <2>1, <2>2 DEF ExtractionInv
<1>7. CASE LaterPass
  <2>1. /\ UNCHANGED <<graph, ids, folded, instructions>>
        /\ stage \in FromTable /\ stage' \in (FromTable \ {"table"}) \cup {"failed"}
    BY <1>7, LaterPasses
  <2>2. stage' # "build" /\ stage' # "prune"
    BY <1>s, <2>1
  <2>3. stage \in FromFold /\ stage \in FromIds
    BY <1>s, <2>1
  <2>4. stage' \in FromTable => stage \in FromTable
    BY <2>1
  <2> QED
    BY <1>s, <2>1, <2>2, <2>3, <2>4 DEF ExtractionInv
<1>8. CASE CompileAgain
  BY <1>0, <1>8, <1>s DEF ExtractionInv, CompileAgain
<1>9. CASE UNCHANGED compilerVars
  BY <1>9 DEF ExtractionInv, compilerVars, extractVars
<1> QED
  BY <1>1, <1>2, <1>3, <1>4, <1>5, <1>6, <1>7, <1>8, <1>9, CompilerSteps DEF FirstPass

(* It holds always. *)
LEMMA ExtractionHolds ==
  OnnxModel(graph) /\ CompilerSpec => []ExtractionInv
<1>1. OnnxModel(graph) /\ CompilerStart => ExtractionInv
  BY ExtractionStarts
<1>2. ExtractionInv /\ [CompilerNext]_compilerVars => ExtractionInv'
  BY ExtractionStep
<1> QED
  BY <1>1, <1>2, PTL DEF CompilerSpec, CompilerBehavior

(* The dead-code loop ends with the instructions of the nodes that some output
   needs, and no others. *)
THEOREM DeadCodeIsExact ==
  OnnxModel(graph) /\ CompilerSpec => []DeadCodeExact
<1>1. ExtractionInv => DeadCodeExact
  BY DEF ExtractionInv, DeadCodeExact, Program, ProgramOf, FromTable
<1> QED
  BY <1>1, ExtractionHolds, PTL

(* On every model that the checker passes topological_sort agrees with the
   order check. *)
THEOREM SortAgreesAlways ==
  OnnxModel(graph) /\ CompilerSpec => []SortAgrees
<1>1. ExtractionInv => SortAgrees
  BY SortIsExact DEF ExtractionInv, SortAgrees
<1> QED
  BY <1>1, ExtractionHolds, PTL

-----------------------------------------------------------------------------
(* The program and the tensor table. *)

Referenced(g) ==
  LET p == Program(g)
  IN  Consumed(p) \cup UNION {ToSet(p[i].out) : i \in DOMAIN p}
Tabled(g) == {m \in ToSet(TensorIds(g)) : KindOf(g, m) = "ACTIVATION" => m \in Referenced(g)}

(* Who makes a tensor, and who reads it. *)
MakersOf(g, n) == {i \in DOMAIN Program(g) : n \in ToSet(Program(g)[i].out)}
ReadersOf(g, n) == {i \in DOMAIN Program(g) : n \in ToSet(Program(g)[i].in)}

(* The size that the table records once the shapes are resolved. *)
TableSize(g, n) ==
  IF InferredShape(g, n) \in {"static", "dynamic"} THEN KnownBytes(g, n) ELSE ScalarBytes(g, n)

(* The tensor table after shape resolution and after the liveness pass. *)
Row(g, n, maker, readers) ==
  [kind |-> KindOf(g, n), region |-> RegionOf(KindOf(g, n)), size |-> TableSize(g, n),
   static |-> TRUE, producer |-> maker, consumers |-> readers]
FirstTable(g) == [n \in Tabled(g) |-> TableEntry(g, n)]
Resolved(g) == [n \in Tabled(g) |-> Row(g, n, NONE, {})]
MakerOf(g, n) == IF MakersOf(g, n) = {} THEN NONE ELSE Max(MakersOf(g, n))
FinalTable(g) == [n \in Tabled(g) |-> Row(g, n, MakerOf(g, n), ReadersOf(g, n))]

TableInv ==
  /\ stage = "resolve" => tensors = FirstTable(graph)
  /\ stage = "liveness" => tensors = Resolved(graph)
  /\ stage \in FromSchedule => tensors = FinalTable(graph)

(* Whatever the program mentions is in the table. *)
LEMMA ReferencedIsTabled ==
  ASSUME NEW g, OnnxModel(g)
  PROVE  /\ Referenced(g) \in SUBSET Tabled(g) /\ Tabled(g) \in SUBSET Name
         /\ Tabled(g) \in SUBSET AllNames(g) /\ IsFiniteSet(Tabled(g))
<1> DEFINE K == Needed(g)
<1>1. K \in SUBSET DOMAIN g.nodes
  BY NeededIsLeast
<1>2. Referenced(g) = (UNION {ToSet(RuntimeInputs(g.nodes[i])) : i \in K})
                        \cup UNION {Present(g.nodes[i].out) : i \in K}
  BY <1>1, ProgramUses DEF Referenced, Program
<1>3. \A i \in DOMAIN g.nodes : ToSet(RuntimeInputs(g.nodes[i])) \subseteq Present(g.nodes[i].in)
  <2>1. \A i \in DOMAIN g.nodes :
          /\ Translate(g.nodes[i]).in = RuntimeInputs(g.nodes[i])
          /\ ToSet(Translate(g.nodes[i]).in) \subseteq Present(g.nodes[i].in)
    BY Translated
  <2> QED
    BY <2>1
<1>4. \A i \in DOMAIN g.nodes : /\ Present(g.nodes[i].in) \subseteq Present(NodeNames(g))
                               /\ Present(g.nodes[i].out) \subseteq Present(NodeNames(g))
  BY NamesOfNodes
<1> HIDE DEF K
<1>5. Referenced(g) \subseteq Present(NodeNames(g))
  BY <1>1, <1>2, <1>3, <1>4
<1>6. Referenced(g) \subseteq AllNames(g)
  BY <1>5 DEF AllNames
<1>7. ToSet(TensorIds(g)) = AllNames(g) /\ AllNames(g) \in SUBSET Name /\ IsFiniteSet(AllNames(g))
  BY IdsAreNames
<1>8. Tabled(g) \in SUBSET AllNames(g) /\ Referenced(g) \in SUBSET Tabled(g)
  BY <1>6, <1>7 DEF Tabled
<1>9. IsFiniteSet(Tabled(g))
  BY <1>7, <1>8, FS_Subset
<1> QED
  BY <1>7, <1>8, <1>9

(* The instructions of a program, and the nodes they come from. *)
LEMMA InstructionsAre ==
  ASSUME NEW g, OnnxModel(g)
  PROVE  LET a == Ascending(Needed(g))
             n == Cardinality(Needed(g))
         IN  /\ n \in Nat /\ DOMAIN Program(g) = 1..n /\ Len(Program(g)) = n
             /\ Program(g) \in Seq(Instruction)
             /\ \A i \in 1..n :
                  /\ a[i] \in DOMAIN g.nodes /\ a[i] \in Needed(g) /\ a[i] \in Nat
                  /\ g.nodes[a[i]].op # "Constant"
                  /\ Program(g)[i].op = g.nodes[a[i]].op
                  /\ Program(g)[i].in = RuntimeInputs(g.nodes[a[i]])
                  /\ ToSet(Program(g)[i].in) \subseteq Present(g.nodes[a[i]].in)
                  /\ ToSet(Program(g)[i].out) = Present(g.nodes[a[i]].out)
             /\ \A i, j \in 1..n : i < j <=> a[i] < a[j]
             /\ \A i, j \in 1..n : a[i] = a[j] => i = j
             /\ \A j \in Needed(g) : \E i \in 1..n : a[i] = j
<1> DEFINE K == Needed(g)
           a == Ascending(K)
           n == Cardinality(K)
           p == Program(g)
<1>1. K \in SUBSET DOMAIN g.nodes /\ \A i \in K : g.nodes[i].op # "Constant"
  BY NeededIsLeast DEF Pruning, RealNodes
<1>2. DOMAIN g.nodes \in SUBSET Nat
  BY NodeTypes
<1>3. /\ n \in Nat /\ Lists(a, n, K)
      /\ \A k \in 1..n : a[k] \in K
      /\ DOMAIN p = 1..n /\ Len(p) = n
      /\ p \in Seq(Instruction)
      /\ \A k \in 1..n : p[k] = Translate(g.nodes[a[k]])
  BY <1>1, ProgramIs DEF Program
<1>4. \A i \in DOMAIN g.nodes :
        /\ Translate(g.nodes[i]).op = g.nodes[i].op
        /\ Translate(g.nodes[i]).in = RuntimeInputs(g.nodes[i])
        /\ ToSet(Translate(g.nodes[i]).in) \subseteq Present(g.nodes[i].in)
        /\ ToSet(Translate(g.nodes[i]).out) = Present(g.nodes[i].out)
  BY Translated
<1> HIDE DEF K, a, n, p
<1>5. \A k \in 1..n : a[k] \in DOMAIN g.nodes /\ a[k] \in K /\ a[k] \in Nat
                      /\ g.nodes[a[k]].op # "Constant"
  BY <1>1, <1>2, <1>3
<1>6. \A i \in 1..n :
        /\ p[i].op = g.nodes[a[i]].op
        /\ p[i].in = RuntimeInputs(g.nodes[a[i]])
        /\ ToSet(p[i].in) \subseteq Present(g.nodes[a[i]].in)
        /\ ToSet(p[i].out) = Present(g.nodes[a[i]].out)
  BY <1>3, <1>4, <1>5
<1>7. /\ \A i, j \in 1..n : i < j => a[i] < a[j]
      /\ \A j \in K : \E i \in 1..n : a[i] = j
  BY <1>3 DEF Lists
<1>8. \A i, j \in 1..n : /\ i < j <=> a[i] < a[j]
                         /\ a[i] = a[j] => i = j
  <2> SUFFICES ASSUME NEW i \in 1..n, NEW j \in 1..n
               PROVE  /\ i < j <=> a[i] < a[j]
                      /\ a[i] = a[j] => i = j
    OBVIOUS
  <2>1. i < j \/ i = j \/ j < i
    BY <1>3
  <2>2. a[i] \in Nat /\ a[j] \in Nat
    BY <1>5
  <2> QED
    BY <1>7, <2>1, <2>2
<1> QED
  BY <1>3, <1>5, <1>6, <1>7, <1>8 DEF K, a, n, p

(* A tensor is made by at most one instruction, before those that read it. *)
LEMMA MadeOnce ==
  ASSUME NEW g, OnnxModel(g), NEW n, NEW i \in MakersOf(g, n)
  PROVE  /\ MakersOf(g, n) = {i} /\ MakerOf(g, n) = i /\ i \in Nat \ {0}
         /\ i \in DOMAIN Program(g) /\ n \notin Given(g)
         /\ n \notin ConstantOutputs(g)
<1> DEFINE a == Ascending(Needed(g))
           c == Cardinality(Needed(g))
           p == Program(g)
<1>1. /\ c \in Nat /\ DOMAIN p = 1..c
      /\ \A k \in 1..c :
           /\ a[k] \in DOMAIN g.nodes
           /\ g.nodes[a[k]].op # "Constant"
           /\ ToSet(p[k].out) = Present(g.nodes[a[k]].out)
      /\ \A k, l \in 1..c : a[k] = a[l] => k = l
  BY InstructionsAre
<1>2. \A k : k \in MakersOf(g, n) <=> k \in DOMAIN p /\ n \in ToSet(p[k].out)
  BY DEF MakersOf
<1> HIDE DEF a, c, p
<1>3. \A k \in MakersOf(g, n) : k \in 1..c /\ a[k] \in ProducersOf(g, n)
  BY <1>1, <1>2 DEF ProducersOf
<1>4. ProducersOf(g, n) = {a[i]}
  BY <1>3, OneProducer
<1>5. \A k \in MakersOf(g, n) : k = i
  BY <1>1, <1>3, <1>4
<1>6. MakersOf(g, n) = {i} /\ i \in Nat \ {0} /\ i \in DOMAIN p
  BY <1>1, <1>3, <1>5
<1>7. Max({i}) = i
  BY <1>6 DEF Max
<1>8. MakerOf(g, n) = i
  BY <1>6, <1>7 DEF MakerOf
<1>9. n \notin Given(g)
  <2>1. PICK k \in DOMAIN g.nodes[a[i]].out : g.nodes[a[i]].out[k] = n /\ n # ABSENT
    BY <1>3 DEF ProducersOf, Present, ToSet
  <2>2. SingleAssignment(g)
    BY DEF OnnxModel
  <2>3. n \notin ToSet(g.inputs) \cup ToSet(g.inits)
    BY <1>1, <1>3, <2>1, <2>2 DEF SingleAssignment
  <2> QED
    BY <2>3 DEF Given, GraphInputs, Initializers
<1>10. n \notin ConstantOutputs(g)
  <2> SUFFICES ASSUME NEW j \in DOMAIN g.nodes, g.nodes[j].op = "Constant",
                      n = g.nodes[j].out[1]
               PROVE  FALSE
    BY DEF ConstantOutputs
  <2>1. Len(g.nodes[j].out) = 1 /\ g.nodes[j].out[1] # ABSENT
    BY DEF OnnxModel
  <2>2. g.nodes[j].out \in Seq(Name \cup {ABSENT})
    BY NodeTypes
  <2>3. 1 \in DOMAIN g.nodes[j].out
    BY <2>1, <2>2
  <2>4. j \in ProducersOf(g, n)
    BY <2>1, <2>3 DEF ProducersOf, Present, ToSet
  <2> QED
    BY <1>1, <1>3, <1>4, <2>4
<1> QED
  BY <1>6, <1>8, <1>9, <1>10 DEF p

(* An instruction that reads a tensor comes after the one that makes it. *)
LEMMA MadeBeforeRead ==
  ASSUME NEW g, OnnxModel(g), StoredOrderValid(g), NEW n, NEW i \in MakersOf(g, n),
         NEW j \in ReadersOf(g, n)
  PROVE  i < j
<1> DEFINE a == Ascending(Needed(g))
           c == Cardinality(Needed(g))
           p == Program(g)
<1>1. /\ c \in Nat /\ DOMAIN p = 1..c
      /\ \A k \in 1..c :
           /\ a[k] \in DOMAIN g.nodes
           /\ ToSet(p[k].in) \subseteq Present(g.nodes[a[k]].in)
           /\ ToSet(p[k].out) = Present(g.nodes[a[k]].out)
      /\ \A k, l \in 1..c : k < l <=> a[k] < a[l]
  BY InstructionsAre
<1>2. i \in DOMAIN p /\ n \in ToSet(p[i].out) /\ j \in DOMAIN p /\ n \in ToSet(p[j].in)
  BY DEF MakersOf, ReadersOf
<1> HIDE DEF a, c, p
<1>3. /\ a[i] \in DOMAIN g.nodes /\ a[j] \in DOMAIN g.nodes
      /\ n \in Present(g.nodes[a[j]].in) /\ n \in Present(g.nodes[a[i]].out)
  BY <1>1, <1>2
<1>4. a[i] < a[j]
  BY <1>3, ReadsEarlier
<1> QED
  BY <1>1, <1>2, <1>4

(* It is a number, and the true one where the extractor can tell. *)
LEMMA TableSizes ==
  ASSUME NEW g, OnnxModel(g), NEW n \in Name
  PROVE  /\ InferredShape(g, n) \in ShapeClass
         /\ TableType(g, n) \in {"float32", "int64", "unknown"}
         /\ TableSize(g, n) \in Nat
         /\ Sized(g, n) => TableSize(g, n) = g.bytes[n]
<1>1. InferredShape(g, n) \in ShapeClass
  BY DEF InferredShape, OnnxModel, ShapeClass
<1>2. TableType(g, n) \in {"float32", "int64", "unknown"}
  BY DEF TableType, OnnxModel
<1>3. g.bytes[n] \in Nat
  BY DEF OnnxModel
<1>4. KnownBytes(g, n) \in Nat
  BY <1>3 DEF KnownBytes
<1>5. ScalarBytes(g, n) \in Nat
  BY <1>2 DEF ScalarBytes
<1>6. Sized(g, n) => TableSize(g, n) = g.bytes[n]
  BY DEF Sized, TableSize, KnownBytes
<1> QED
  BY <1>1, <1>2, <1>4, <1>5, <1>6 DEF TableSize

(* The table that the planner is given is well formed. *)
LEMMA FinalTableIsWellFormed ==
  ASSUME NEW g, OnnxModel(g), StoredOrderValid(g)
  PROVE  WellFormed(FinalTable(g))
<1> DEFINE t == FinalTable(g)
<1>1. DOMAIN t = Tabled(g) /\ \A n \in Tabled(g) : t[n] = Row(g, n, MakerOf(g, n), ReadersOf(g, n))
  BY DEF FinalTable
<1>2. Tabled(g) \in SUBSET Name /\ IsFiniteSet(Tabled(g))
  BY ReferencedIsTabled
<1> HIDE DEF t
<1>3. ASSUME NEW n \in Tabled(g)
      PROVE  t[n] \in Tensor /\ \A c \in t[n].consumers : t[n].producer < c
  <2>1. KindOf(g, n) \in Kind
    BY DEF KindOf, Kind
  <2>2. RegionOf(KindOf(g, n)) \in MemoryRegion
    BY <2>1 DEF RegionOf, Kind, MemoryRegion
  <2>3. TableSize(g, n) \in Nat
    BY <1>2, TableSizes
  <2>4. DOMAIN Program(g) \in SUBSET (Nat \ {0})
    BY InstructionsAre
  <2>5. ReadersOf(g, n) \in SUBSET (Nat \ {0})
    BY <2>4 DEF ReadersOf
  <2> DEFINE kd == KindOf(g, n)
             rg == RegionOf(KindOf(g, n))
             sz == TableSize(g, n)
             mk == MakerOf(g, n)
             rd == ReadersOf(g, n)
  <2>6. t[n] = [kind |-> kd, region |-> rg, size |-> sz, static |-> TRUE,
                producer |-> mk, consumers |-> rd]
    BY <1>1 DEF Row
  <2>7. mk \in Nat \cup {NONE} /\ \A c \in rd : mk < c
    <3>1. CASE MakersOf(g, n) = {}
      <4>1. mk = NONE
        BY <3>1 DEF MakerOf
      <4> QED
        BY <2>5, <4>1 DEF NONE
    <3>2. CASE MakersOf(g, n) # {}
      <4>1. PICK i \in MakersOf(g, n) : TRUE
        BY <3>2
      <4>2. MakerOf(g, n) = i /\ i \in Nat
        BY MadeOnce
      <4>3. \A j \in ReadersOf(g, n) : i < j
        BY MadeBeforeRead
      <4> QED
        BY <4>2, <4>3
    <3> QED
      BY <3>1, <3>2
  <2>8. kd \in Kind /\ rg \in MemoryRegion /\ sz \in Nat /\ rd \in SUBSET Nat
    BY <2>1, <2>2, <2>3, <2>5
  <2> HIDE DEF kd, rg, sz, mk, rd
  <2> QED
    BY <2>6, <2>7, <2>8 DEF Tensor
<1> QED
  BY <1>1, <1>2, <1>3 DEF WellFormed, t

(* Before it runs, an instruction finds what it reads, unless that is an output
   that nothing computes. *)
LEMMA ReadsAreAvailable ==
  ASSUME NEW g, OnnxModel(g), StoredOrderValid(g), NEW i \in DOMAIN Program(g),
         NEW n \in ToSet(Program(g)[i].in)
  PROVE  \/ n \in GraphOutputs(g) \cap Given(g) /\ ConsumersOf(g, n) # {}
         \/ KindOf(g, n) \in {"INPUT", "WEIGHT", "BIAS", "CONSTANT"}
         \/ \E k \in 1..i - 1 : n \in ToSet(Program(g)[k].out)
<1> DEFINE a == Ascending(Needed(g))
           c == Cardinality(Needed(g))
           p == Program(g)
<1>1. /\ c \in Nat /\ DOMAIN p = 1..c
      /\ \A k \in 1..c :
           /\ a[k] \in DOMAIN g.nodes /\ a[k] \in Needed(g)
           /\ p[k].in = RuntimeInputs(g.nodes[a[k]])
           /\ ToSet(p[k].in) \subseteq Present(g.nodes[a[k]].in)
           /\ ToSet(p[k].out) = Present(g.nodes[a[k]].out)
      /\ \A k, l \in 1..c : k < l <=> a[k] < a[l]
      /\ \A j \in Needed(g) : \E k \in 1..c : a[k] = j
  BY InstructionsAre
<1>2. i \in 1..c /\ n \in ToSet(p[i].in)
  BY <1>1
<1> HIDE DEF a, c, p
<1>3. a[i] \in DOMAIN g.nodes /\ n \in Present(g.nodes[a[i]].in) /\ a[i] \in ConsumersOf(g, n)
  BY <1>1, <1>2 DEF ConsumersOf
<1>4. CASE n \in Given(g)
  <2>1. n \in GraphOutputs(g) \/ KindOf(g, n) \in {"INPUT", "WEIGHT", "BIAS", "CONSTANT"}
    BY <1>4 DEF Given, KindOf
  <2> QED
    BY <1>3, <1>4, <2>1
<1>5. CASE n \notin Given(g) /\ n \in ConstantOutputs(g)
  BY <1>5 DEF KindOf
<1>6. CASE n \notin Given(g) /\ n \notin ConstantOutputs(g)
  <2>1. PICK j \in ProducersOf(g, n) : j < a[i]
    BY <1>3, <1>6 DEF StoredOrderValid
  <2>2. j \in DOMAIN g.nodes /\ n \in Present(g.nodes[j].out)
    BY <2>1 DEF ProducersOf
  <2>3. g.nodes[j].op # "Constant"
    <3> SUFFICES ASSUME g.nodes[j].op = "Constant" PROVE FALSE
      OBVIOUS
    <3>1. Len(g.nodes[j].out) = 1 /\ g.nodes[j].out \in Seq(Name \cup {ABSENT})
      BY <2>2, NodeTypes DEF OnnxModel
    <3>2. PICK k \in DOMAIN g.nodes[j].out : g.nodes[j].out[k] = n
      BY <2>2 DEF Present, ToSet
    <3>3. k = 1
      BY <3>1, <3>2
    <3> QED
      BY <1>6, <2>2, <3>2, <3>3 DEF ConstantOutputs
  <2>4. j \in Computing(g, ToSet(RuntimeInputs(g.nodes[a[i]])))
    BY <1>1, <1>2, <2>2, <2>3 DEF Computing
  <2>5. j \in Needed(g)
    BY <1>1, <1>2, <2>4, NeededIsLeast DEF Pruning, SuppliesItself
  <2>6. PICK k \in 1..c : a[k] = j
    BY <1>1, <2>5
  <2>7. k < i
    BY <1>1, <1>2, <2>1, <2>6
  <2>8. k \in 1..i - 1
    BY <1>1, <1>2, <2>7
  <2> QED
    BY <1>1, <2>2, <2>6, <2>8 DEF p
<1> QED
  BY <1>4, <1>5, <1>6

-----------------------------------------------------------------------------
(* The table from pass to pass. *)

(* The fields of a row of the final table. *)
LEMMA FinalRows ==
  ASSUME NEW g, NEW n \in Tabled(g)
  PROVE  /\ DOMAIN FinalTable(g) = Tabled(g)
         /\ FinalTable(g)[n].kind = KindOf(g, n)
         /\ FinalTable(g)[n].region = RegionOf(KindOf(g, n))
         /\ FinalTable(g)[n].size = TableSize(g, n)
         /\ FinalTable(g)[n].static = TRUE
         /\ FinalTable(g)[n].producer = MakerOf(g, n)
         /\ FinalTable(g)[n].consumers = ReadersOf(g, n)
<1>1. DOMAIN FinalTable(g) = Tabled(g)
      /\ FinalTable(g)[n] = Row(g, n, MakerOf(g, n), ReadersOf(g, n))
  BY DEF FinalTable
<1> QED
  BY <1>1 DEF Row

(* build_tensor_table *)
LEMMA TableBuilt ==
  ASSUME ExtractionInv, BuildTensorTable
  PROVE  tensors' = FirstTable(graph) /\ stage' = "resolve"
<1>1. ids = TensorIds(graph) /\ instructions = Program(graph) /\ stage = "table"
  BY DEF ExtractionInv, BuildTensorTable, FromFold, FromTable
<1> DEFINE referenced == Consumed(instructions)
                           \cup UNION {ToSet(instructions[i].out) : i \in DOMAIN instructions}
           T == {m \in ToSet(ids) : KindOf(graph, m) = "ACTIVATION" => m \in referenced}
<1>2. tensors' = [n \in T |-> TableEntry(graph, n)] /\ stage' = "resolve"
  BY DEF BuildTensorTable, Goto
<1>3. referenced = Referenced(graph)
  BY <1>1 DEF Referenced
<1> HIDE DEF referenced
<1>4. T = Tabled(graph)
  BY <1>1, <1>3 DEF Tabled
<1> HIDE DEF T
<1> QED
  BY <1>2, <1>4 DEF FirstTable

(* _resolve_dynamic_shapes: every tensor gets the size that its shape and its
   type give, unless the run of the model or a type without a size prevents it. *)
LEMMA SizesResolved ==
  ASSUME ExtractionInv, TableInv, ResolveDynamicShapes
  PROVE  \/ tensors' = Resolved(graph) /\ stage' = "liveness"
         \/ stage' = "failed" /\ Explained(error')
<1>1. /\ OnnxModel(graph) /\ stage = "resolve" /\ tensors = FirstTable(graph)
  BY DEF ExtractionInv, TableInv, ResolveDynamicShapes
<1> DEFINE dynamic == {n \in DOMAIN tensors : ~tensors[n].static}
           raising == {n \in dynamic : TableType(graph, n) = "unknown"}
           new(n) == IF n \in dynamic
                     THEN [tensors[n] EXCEPT !.size = graph.bytes[n], !.static = TRUE]
                     ELSE tensors[n]
<1>2. \/ stage' = "failed" /\ error' = "session"
      \/ stage' = "failed" /\ error' = "unknown type" /\ raising # {}
      \/ raising = {} /\ stage' = "liveness" /\ tensors' = [n \in DOMAIN tensors |-> new(n)]
  BY DEF ResolveDynamicShapes, Goto, Fail
<1>d. ASSUME NEW n \in dynamic
      PROVE  InferredShape(graph, n) = "dynamic" /\ n \in Name
  <2>1. n \in Tabled(graph) /\ n \in Name
    BY <1>1, ReferencedIsTabled DEF FirstTable
  <2>2. tensors[n] = TableEntry(graph, n) /\ ~tensors[n].static
    BY <1>1, <2>1 DEF FirstTable
  <2> DEFINE kd == KindOf(graph, n)
             rg == RegionOf(KindOf(graph, n))
             shape == InferredShape(graph, n)
             size == CASE shape = "static" -> KnownBytes(graph, n)
                       [] shape = "dynamic" -> 0
                       [] shape \in {"unranked", "missing"} -> ScalarBytes(graph, n)
  <2>3. tensors[n] = [kind |-> kd, region |-> rg, size |-> size, static |-> shape # "dynamic",
                      producer |-> NONE, consumers |-> {}]
    BY <2>2 DEF TableEntry
  <2> HIDE DEF kd, rg, size
  <2> DEFINE closed == shape # "dynamic"
  <2>4. tensors[n].static = closed
    <3> HIDE DEF closed, shape
    <3> SUFFICES [kind |-> kd, region |-> rg, size |-> size, static |-> closed,
                  producer |-> NONE, consumers |-> {}].static = closed
      BY <2>3 DEF closed
    <3> QED
      BY SMT
  <2> QED
    BY <2>1, <2>2, <2>4
<1>3. ASSUME raising = {}, NEW n \in DOMAIN tensors PROVE new(n) = Row(graph, n, NONE, {})
  <2>1. n \in Tabled(graph) /\ n \in Name
    BY <1>1, <1>3, ReferencedIsTabled DEF FirstTable
  <2>2. InferredShape(graph, n) \in {"static", "dynamic", "unranked", "missing"}
    BY <1>1, <2>1, TableSizes DEF ShapeClass
  <2> DEFINE kd == KindOf(graph, n)
             rg == RegionOf(KindOf(graph, n))
             sz == TableSize(graph, n)
             t == tensors[n]
  <2>3. t = TableEntry(graph, n)
    BY <1>1, <2>1 DEF FirstTable
  <2>4. Row(graph, n, NONE, {}) = [kind |-> kd, region |-> rg, size |-> sz, static |-> TRUE,
                                   producer |-> NONE, consumers |-> {}]
    BY DEF Row
  <2>5. CASE InferredShape(graph, n) # "dynamic"
    <3> DEFINE shape == InferredShape(graph, n)
               size == CASE shape = "static" -> KnownBytes(graph, n)
                         [] shape = "dynamic" -> 0
                         [] shape \in {"unranked", "missing"} -> ScalarBytes(graph, n)
    <3>s. size = sz
      <4>1. CASE shape = "static"
        BY <4>1 DEF TableSize
      <4>2. CASE shape = "unranked"
        BY <4>2 DEF TableSize
      <4>3. CASE shape = "missing"
        BY <4>3 DEF TableSize
      <4> QED
        BY <2>2, <2>5, <4>1, <4>2, <4>3
    <3>t. t = [kind |-> kd, region |-> rg, size |-> size, static |-> shape # "dynamic",
               producer |-> NONE, consumers |-> {}]
      BY <2>3 DEF TableEntry
    <3>u. (shape # "dynamic") = TRUE
      BY <2>5
    <3>1. t = [kind |-> kd, region |-> rg, size |-> sz, static |-> TRUE,
               producer |-> NONE, consumers |-> {}]
      BY <3>s, <3>t, <3>u
    <3>2. n \notin dynamic
      BY <3>1
    <3> QED
      BY <2>4, <3>1, <3>2
  <2>6. CASE InferredShape(graph, n) = "dynamic"
    <3>1. t = [kind |-> kd, region |-> rg, size |-> 0, static |-> FALSE,
               producer |-> NONE, consumers |-> {}]
      BY <2>3, <2>6 DEF TableEntry
    <3>2. n \in dynamic
      BY <1>3, <3>1
    <3>r. sz = graph.bytes[n]
      BY <1>3, <2>6, <3>2 DEF TableSize, KnownBytes
    <3>3. new(n) = [t EXCEPT !.size = sz, !.static = TRUE]
      BY <3>2, <3>r
    <3> HIDE DEF kd, rg, sz, t
    <3>4. PICK yes, no : yes = TRUE /\ no = FALSE
      BY Zenon
    <3>5. t = [kind |-> kd, region |-> rg, size |-> 0, static |-> no,
               producer |-> NONE, consumers |-> {}]
      BY <3>1, <3>4, Zenon
    <3> DEFINE u == [t EXCEPT !.size = sz]
    <3>a. [t EXCEPT !.size = sz, !.static = yes] = [u EXCEPT !.static = yes]
      OBVIOUS
    <3>b. u = [kind |-> kd, region |-> rg, size |-> sz, static |-> no,
               producer |-> NONE, consumers |-> {}]
      BY <3>5, SMT
    <3> HIDE DEF u
    <3>c. [u EXCEPT !.static = yes]
            = [kind |-> kd, region |-> rg, size |-> sz, static |-> yes,
               producer |-> NONE, consumers |-> {}]
      BY <3>b, SMT
    <3>6. [t EXCEPT !.size = sz, !.static = yes]
            = [kind |-> kd, region |-> rg, size |-> sz, static |-> yes,
               producer |-> NONE, consumers |-> {}]
      BY <3>a, <3>c, Zenon
    <3>7. [t EXCEPT !.size = sz, !.static = TRUE]
            = [kind |-> kd, region |-> rg, size |-> sz, static |-> TRUE,
               producer |-> NONE, consumers |-> {}]
      BY <3>4, <3>6, Zenon
    <3> QED
      BY <2>4, <3>3, <3>7, Zenon
  <2> QED
    BY <2>5, <2>6
<1>4. DOMAIN tensors = Tabled(graph)
  BY <1>1 DEF FirstTable
<1>5. ASSUME raising # {} PROVE Explained("unknown type")
  <2>1. PICK n \in dynamic : TableType(graph, n) = "unknown"
    BY <1>5
  <2>2. InferredShape(graph, n) = "dynamic" /\ n \in Name
    BY <1>d
  <2>3. graph.shape[n] = "dynamic" /\ graph.dtype[n] = "unknown"
    BY <2>1, <2>2 DEF InferredShape, TableType
  <2> QED
    BY <2>2, <2>3 DEF Explained
<1>6. Explained("session")
  BY DEF Explained
<1> HIDE DEF new, dynamic, raising
<1>7. raising = {} => [n \in DOMAIN tensors |-> new(n)] = Resolved(graph)
  BY <1>3, <1>4 DEF Resolved
<1> QED
  BY <1>2, <1>5, <1>6, <1>7

(* compute_liveness *)
LEMMA LivenessComputed ==
  ASSUME ExtractionInv, TableInv, ComputeLiveness
  PROVE  tensors' = FinalTable(graph) /\ stage' = "schedule"
<1>1. /\ instructions = Program(graph) /\ stage = "liveness"
      /\ tensors = Resolved(graph)
  BY DEF ExtractionInv, TableInv, ComputeLiveness, FromTable
<1> DEFINE makers(n) == {i \in DOMAIN instructions : n \in ToSet(instructions[i].out)}
           readers(n) == {i \in DOMAIN instructions : n \in ToSet(instructions[i].in)}
           mk(n) == IF makers(n) = {} THEN NONE ELSE Max(makers(n))
           new(n) == [tensors[n] EXCEPT !.producer = mk(n), !.consumers = readers(n)]
<1>2. tensors' = [n \in DOMAIN tensors |-> new(n)] /\ stage' = "schedule"
  BY DEF ComputeLiveness, Goto
<1>3. ASSUME NEW n \in DOMAIN tensors
      PROVE  new(n) = Row(graph, n, MakerOf(graph, n), ReadersOf(graph, n))
  <2>1. n \in Tabled(graph)
    BY <1>1 DEF Resolved
  <2>2. makers(n) = MakersOf(graph, n) /\ readers(n) = ReadersOf(graph, n)
    BY <1>1 DEF MakersOf, ReadersOf
  <2> HIDE DEF makers, readers
  <2>3. mk(n) = MakerOf(graph, n)
    BY <2>2 DEF MakerOf
  <2> HIDE DEF mk
  <2> DEFINE kd == KindOf(graph, n)
             rg == RegionOf(KindOf(graph, n))
             sz == TableSize(graph, n)
             t == tensors[n]
             m == MakerOf(graph, n)
             r == ReadersOf(graph, n)
  <2>4. t = [kind |-> kd, region |-> rg, size |-> sz, static |-> TRUE,
             producer |-> NONE, consumers |-> {}]
    BY <1>1, <2>1 DEF Resolved, Row
  <2>5. new(n) = [t EXCEPT !.producer = m, !.consumers = r]
    BY <2>2, <2>3
  <2>6. Row(graph, n, m, r) = [kind |-> kd, region |-> rg, size |-> sz, static |-> TRUE,
                               producer |-> m, consumers |-> r]
    BY DEF Row
  <2> HIDE DEF kd, rg, sz, t, m, r, new
  <2>7. PICK yes : yes = TRUE
    BY Zenon
  <2>8. t = [kind |-> kd, region |-> rg, size |-> sz, static |-> yes,
             producer |-> NONE, consumers |-> {}]
    BY <2>4, <2>7, Zenon
  <2> DEFINE u == [t EXCEPT !.producer = m]
  <2>a. [t EXCEPT !.producer = m, !.consumers = r] = [u EXCEPT !.consumers = r]
    OBVIOUS
  <2>b. u = [kind |-> kd, region |-> rg, size |-> sz, static |-> yes,
             producer |-> m, consumers |-> {}]
    BY <2>8, SMT
  <2> HIDE DEF u
  <2>c. [u EXCEPT !.consumers = r]
          = [kind |-> kd, region |-> rg, size |-> sz, static |-> yes,
             producer |-> m, consumers |-> r]
    BY <2>b, SMT
  <2>9. [t EXCEPT !.producer = m, !.consumers = r]
          = [kind |-> kd, region |-> rg, size |-> sz, static |-> yes,
             producer |-> m, consumers |-> r]
    BY <2>a, <2>c, Zenon
  <2>10. [t EXCEPT !.producer = m, !.consumers = r]
           = [kind |-> kd, region |-> rg, size |-> sz, static |-> TRUE,
              producer |-> m, consumers |-> r]
    BY <2>7, <2>9, Zenon
  <2> QED
    BY <2>5, <2>6, <2>10, Zenon DEF m, r
<1>4. DOMAIN tensors = Tabled(graph)
  BY <1>1 DEF Resolved
<1> HIDE DEF new
<1>5. [n \in DOMAIN tensors |-> new(n)] = FinalTable(graph)
  BY <1>3, <1>4 DEF FinalTable
<1> QED
  BY <1>2, <1>5

(* The invariant of the tensor table: nothing to show before there is one. *)
LEMMA TableStarts ==
  ASSUME CompilerStart
  PROVE  TableInv
  BY DEF TableInv, CompilerStart, FromSchedule, FromPlan

(* The passes after liveness. *)
PlanningPass == \/ ValidateInstructionOrder \/ ValidateStaticShapes
                \/ PlanBegins \/ PlaceActivation \/ PlacePersistent \/ ValidateNoMemoryOverlap
                \/ WriteJson \/ WriteWeights

(* They leave the table alone. *)
LEMMA PlanningPasses ==
  ASSUME PlanningPass
  PROVE  /\ UNCHANGED <<graph, ids, instructions, tensors>>
         /\ stage \in FromSchedule /\ stage' \in (FromSchedule \ {"schedule"}) \cup {"failed"}
<1> USE DEF FromSchedule, FromPlan, Goto, Fail
<1>4. CASE ValidateInstructionOrder
  BY <1>4 DEF ValidateInstructionOrder
<1>5. CASE ValidateStaticShapes
  BY <1>5 DEF ValidateStaticShapes
<1>6. CASE PlanBegins
  BY <1>6 DEF PlanBegins
<1>7. CASE PlaceActivation
  BY <1>7 DEF PlaceActivation, extractVars
<1>8. CASE PlacePersistent
  BY <1>8 DEF PlacePersistent
<1>9. CASE ValidateNoMemoryOverlap
  BY <1>9 DEF ValidateNoMemoryOverlap
<1>10. CASE WriteJson
  BY <1>10 DEF WriteJson
<1>11. CASE WriteWeights
  BY <1>11 DEF WriteWeights
<1> QED
  BY <1>4, <1>5, <1>6, <1>7, <1>8, <1>9, <1>10, <1>11 DEF PlanningPass

(* Every pass keeps it. *)
LEMMA TableStep ==
  ASSUME ExtractionInv, TableInv, [CompilerNext]_compilerVars
  PROVE  TableInv'
<1>0. graph' = graph
  BY GraphStays
<1> DEFINE Sets == /\ "resolve" \notin FromSchedule /\ "liveness" \notin FromSchedule
                   /\ "schedule" \in FromSchedule /\ "failed" \notin FromSchedule
                   /\ {"inspect", "order", "ids", "fold", "build", "prune", "table"}
                        \cap FromSchedule = {}
<1>s. Sets
  BY DEF FromSchedule, FromPlan
<1>1. CASE FirstPass
  <2>1. stage' \in {"order", "ids", "fold", "build", "prune", "table", "failed"}
    BY <1>1 DEF FirstPass, Inspect, ValidateTopologicalOrder, AssignTensorIds, FoldParameters,
         BuildInstructions, RemoveDeadInstructions, Goto, Fail
  <2> QED
    BY <1>0, <1>s, <2>1 DEF TableInv
<1>2. CASE BuildTensorTable
  BY <1>0, <1>2, <1>s, TableBuilt DEF TableInv
<1>3. CASE ResolveDynamicShapes
  BY <1>0, <1>3, <1>s, SizesResolved DEF TableInv
<1>4. CASE ComputeLiveness
  BY <1>0, <1>4, <1>s, LivenessComputed DEF TableInv
<1>5. CASE PlanningPass
  <2>1. /\ UNCHANGED <<graph, tensors>> /\ stage \in FromSchedule
        /\ stage' \in (FromSchedule \ {"schedule"}) \cup {"failed"}
    BY <1>5, PlanningPasses
  <2> QED
    BY <1>0, <1>s, <2>1 DEF TableInv
<1>6. CASE CompileAgain
  BY <1>0, <1>6, <1>s DEF TableInv, CompileAgain
<1>7. CASE UNCHANGED compilerVars
  BY <1>7 DEF TableInv, compilerVars, extractVars
<1> QED
  BY <1>1, <1>2, <1>3, <1>4, <1>5, <1>6, <1>7, CompilerSteps DEF LaterPass, PlanningPass

(* It holds always. *)
LEMMA TableHolds ==
  OnnxModel(graph) /\ CompilerSpec => [](ExtractionInv /\ TableInv)
<1>1. CompilerStart => TableInv
  BY TableStarts
<1>2. ExtractionInv /\ TableInv /\ [CompilerNext]_compilerVars => TableInv'
  BY TableStep
<1> QED
  BY <1>1, <1>2, ExtractionHolds, PTL DEF CompilerSpec, CompilerBehavior

(* The names in use are those of the program. *)
LEMMA UsedIsTabled ==
  ASSUME ExtractionInv, stage \in FromTable
  PROVE  Used = Referenced(graph) /\ Used \in SUBSET Tabled(graph)
  BY ReferencedIsTabled DEF ExtractionInv, Used, Referenced

(* A compilation that reaches the planner knows the true size of every tensor
   the program touches, if inference knows its rank and the extractor the size
   of its type. *)
THEOREM SizesAreTrue ==
  OnnxModel(graph) /\ CompilerSpec => []SizesTrue
<1>1. ExtractionInv /\ TableInv => SizesTrue
  <2> SUFFICES ASSUME ExtractionInv, TableInv, stage \in FromPlan, NEW n \in Used, Sized(graph, n)
               PROVE  tensors[n].size = graph.bytes[n]
    BY DEF SizesTrue, Planned, FromPlan
  <2>1. n \in Tabled(graph) /\ tensors = FinalTable(graph)
    BY UsedIsTabled DEF TableInv, FromTable, FromSchedule
  <2>2. OnnxModel(graph) /\ n \in Name
    BY <2>1, ReferencedIsTabled DEF ExtractionInv
  <2> QED
    BY <2>1, <2>2, FinalRows, TableSizes
<1> QED
  BY <1>1, TableHolds, PTL

-----------------------------------------------------------------------------
(* The validators and the plan. *)

(* What the planner leaves: a place for every tensor of the table but the
   activations that nothing produces. *)
Persistent == {n \in DOMAIN tensors : tensors[n].region # "ACTIVATION"}
AllPlaced ==
  /\ DOMAIN offset = ToPlace(tensors) \cup Persistent
  /\ \A n \in ToPlace(tensors) : offset[n] \in Nat
  /\ \A m, n \in ToPlace(tensors) :
       m # n /\ LifetimesMeet(tensors[m], tensors[n]) =>
         ~RangesMeet(offset[m], Align(tensors[m].size), offset[n], Align(tensors[n].size))
  /\ \A n \in Persistent : offset[n] = PersistentOffset(n)

AfterPlacement == {"overlap", "json", "weights", "done"}
AfterSchedule == FromPlan \cup {"shapes"}
InOrder == \A i \in DOMAIN instructions : ToSet(instructions[i].in) \subseteq AvailableAt(i)
PlanInv ==
  /\ stage \in AfterSchedule => InOrder
  /\ stage = "place" => PInv
  /\ stage \in AfterPlacement => AllPlaced

(* validate_instruction_order finds fault with a read output only. *)
LEMMA ScheduleChecked ==
  ASSUME ExtractionInv, TableInv, stage = "schedule"
  PROVE  InOrder \/ ReadOutput
<1>1. /\ OnnxModel(graph) /\ StoredOrderValid(graph) /\ instructions = Program(graph)
      /\ tensors = FinalTable(graph)
  BY DEF ExtractionInv, TableInv, FromIds, FromFold, FromTable, FromSchedule
<1> SUFFICES ASSUME ~ReadOutput, NEW i \in DOMAIN instructions,
                    NEW n \in ToSet(instructions[i].in)
             PROVE  n \in AvailableAt(i)
  BY DEF InOrder
<1>2. i \in DOMAIN Program(graph) /\ n \in ToSet(Program(graph)[i].in)
  BY <1>1
<1>3. ~(n \in GraphOutputs(graph) \cap Given(graph) /\ ConsumersOf(graph, n) # {})
  BY DEF ReadOutput, Given
<1>4. \/ KindOf(graph, n) \in {"INPUT", "WEIGHT", "BIAS", "CONSTANT"}
      \/ \E k \in 1..i - 1 : n \in ToSet(Program(graph)[k].out)
  BY <1>1, <1>2, <1>3, ReadsAreAvailable
<1>5. n \in Tabled(graph)
  <2>1. n \in Referenced(graph)
    BY <1>2 DEF Referenced, Consumed
  <2> QED
    BY <1>1, <2>1, ReferencedIsTabled
<1>6. n \in DOMAIN tensors /\ tensors[n].kind = KindOf(graph, n)
  BY <1>1, <1>5, FinalRows
<1> QED
  BY <1>1, <1>4, <1>6 DEF AvailableAt

(* validate_static_shapes finds every tensor of the program resolved. *)
LEMMA ShapesChecked ==
  ASSUME ExtractionInv, TableInv, stage = "shapes"
  PROVE  \A n \in Used : tensors[n].static
<1> TAKE n \in Used
<1>1. n \in Tabled(graph) /\ tensors = FinalTable(graph)
  BY UsedIsTabled DEF TableInv, FromTable, FromSchedule
<1> QED
  BY <1>1, FinalRows

(* Planning starts from an empty region and a table in order. *)
LEMMA PlanBegun ==
  ASSUME ExtractionInv, TableInv, PlanBegins
  PROVE  PInv'
<1>1. /\ OnnxModel(graph) /\ StoredOrderValid(graph) /\ tensors = FinalTable(graph)
      /\ tensors' = tensors
  BY DEF ExtractionInv, TableInv, FromIds, FromFold, FromTable, FromSchedule, FromPlan, PlanBegins
<1>2. WellFormed(tensors)'
  BY <1>1, FinalTableIsWellFormed
<1>3. PlanInit'
  BY <1>1, <1>2 DEF PlanBegins, PlanInit, EmptyRegion
<1> QED
  BY <1>3, InitPInv, PTL

(* Placing depends on the ids and the table only. *)
LEMMA OffsetsStay ==
  ASSUME UNCHANGED <<ids, tensors>>, NEW n
  PROVE  PersistentOffset(n)' = PersistentOffset(n)
  BY DEF PersistentOffset, InRegion, Align

(* When nothing is pending, the persistent tensors complete the plan. *)
LEMMA PlanCompleted ==
  ASSUME PInv, PlacePersistent
  PROVE  AllPlaced'
<1>1. /\ pending = {} /\ UNCHANGED <<ids, tensors>>
      /\ offset' = [n \in DOMAIN offset \cup Persistent |->
                      IF n \in DOMAIN offset THEN offset[n] ELSE PersistentOffset(n)]
  BY DEF PlacePersistent, Persistent
<1>2. offset \in [ToPlace(tensors) \ pending -> Nat] /\ LiveDisjoint
  BY DEF PInv, PlacementType
<1>3. DOMAIN offset = ToPlace(tensors) /\ \A n \in ToPlace(tensors) : offset[n] \in Nat
  BY <1>1, <1>2
<1>4. \A n \in Persistent : n \notin ToPlace(tensors)
  BY DEF Persistent, ToPlace
<1>5. ToPlace(tensors)' = ToPlace(tensors) /\ Persistent' = Persistent
  BY <1>1 DEF ToPlace, Persistent
<1>6. /\ DOMAIN offset' = ToPlace(tensors) \cup Persistent
      /\ \A n \in ToPlace(tensors) : offset'[n] = offset[n]
      /\ \A n \in Persistent : offset'[n] = PersistentOffset(n)
  BY <1>1, <1>3, <1>4
<1>7. \A n \in Persistent : PersistentOffset(n)' = PersistentOffset(n)
  BY <1>1, OffsetsStay
<1>8. \A m, n \in ToPlace(tensors) :
        m # n /\ LifetimesMeet(tensors[m], tensors[n]) =>
          ~RangesMeet(offset'[m], Align(tensors'[m].size), offset'[n], Align(tensors'[n].size))
  BY <1>1, <1>2, <1>3, <1>6 DEF LiveDisjoint
<1> QED
  BY <1>1, <1>3, <1>5, <1>6, <1>7, <1>8 DEF AllPlaced

(* Tensors that are apart when rounded up are apart. *)
LEMMA NothingOverlaps ==
  ASSUME AllPlaced, WellFormed(tensors)
  PROVE  ~Overlap
<1> SUFFICES ASSUME NEW m \in DOMAIN offset, NEW n \in DOMAIN offset, m # n,
                    tensors[m].region = "ACTIVATION", tensors[m].producer # NONE,
                    tensors[n].region = "ACTIVATION", tensors[n].producer # NONE,
                    LifetimesMeet(tensors[m], tensors[n]),
                    RangesMeet(offset[m], tensors[m].size, offset[n], tensors[n].size)
             PROVE  FALSE
  BY DEF Overlap
<1>1. DOMAIN offset \subseteq DOMAIN tensors
  BY DEF AllPlaced, ToPlace, Persistent
<1>2. m \in ToPlace(tensors) /\ n \in ToPlace(tensors)
  BY <1>1 DEF ToPlace
<1>3. tensors[m].size \in Nat /\ tensors[n].size \in Nat
  BY <1>1 DEF WellFormed, Tensor
<1>4. /\ tensors[m].size <= Align(tensors[m].size) /\ Align(tensors[m].size) \in Nat
      /\ tensors[n].size <= Align(tensors[n].size) /\ Align(tensors[n].size) \in Nat
  BY <1>3, AlignRounds
<1>5. /\ offset[m] \in Nat /\ offset[n] \in Nat
      /\ ~RangesMeet(offset[m], Align(tensors[m].size), offset[n], Align(tensors[n].size))
  BY <1>2 DEF AllPlaced
<1> QED
  BY <1>3, <1>4, <1>5 DEF RangesMeet

(* The planner gets a table in order. *)
LEMMA TableIsWellFormed ==
  ASSUME ExtractionInv, TableInv, stage \in FromSchedule
  PROVE  WellFormed(tensors)
<1>1. /\ OnnxModel(graph) /\ StoredOrderValid(graph) /\ tensors = FinalTable(graph)
  BY DEF ExtractionInv, TableInv, FromIds, FromFold, FromTable
<1> QED
  BY <1>1, FinalTableIsWellFormed

(* The tensors of a region, and where the ids list them. *)
InRegionSet(r) == {n \in DOMAIN tensors : tensors[n].region = r}
RegionPlaces(r) == {i \in DOMAIN ids : ids[i] \in DOMAIN tensors /\ tensors[ids[i]].region = r}

(* The list of a region: its tensors, in the order of the ids, each once. *)
LEMMA RegionListed ==
  ASSUME ExtractionInv, TableInv, stage \in FromSchedule, NEW r
  PROVE  /\ InRegion(r) \in Seq(Name) /\ NoRepeat(InRegion(r))
         /\ ToSet(InRegion(r)) = InRegionSet(r)
         /\ ids \in Seq(Name) /\ RegionPlaces(r) \in SUBSET DOMAIN ids
         /\ InRegion(r) = Sublist(ids, RegionPlaces(r))
<1>1. /\ OnnxModel(graph) /\ ids = TensorIds(graph) /\ tensors = FinalTable(graph)
  BY DEF ExtractionInv, TableInv, FromIds, FromFold, FromTable
<1>2. ids \in Seq(Name) /\ NoRepeat(ids) /\ ToSet(ids) = AllNames(graph)
  BY <1>1, IdsAreNames
<1>3. DOMAIN tensors \subseteq AllNames(graph)
  BY <1>1, ReferencedIsTabled DEF FinalTable
<1> DEFINE K == RegionPlaces(r)
           a == Ascending(K)
           s == InRegion(r)
           c == Cardinality(K)
<1>4. K \in SUBSET DOMAIN ids /\ s = Sublist(ids, K)
  BY DEF RegionPlaces, InRegion
<1>5. \A n : n \in InRegionSet(r) <=> \E i \in K : n = ids[i]
  <2>1. \A n \in InRegionSet(r) : \E i \in DOMAIN ids : n = ids[i]
    BY <1>2, <1>3 DEF InRegionSet, ToSet
  <2> QED
    BY <2>1 DEF InRegionSet, RegionPlaces
<1> HIDE DEF K, a, s, c
<1>6. /\ s \in Seq(Name) /\ DOMAIN s = 1..c /\ c \in Nat
      /\ Lists(Ascending(K), c, K)
      /\ \A k \in 1..c : s[k] = ids[Ascending(K)[k]]
      /\ ToSet(s) = {ids[i] : i \in K}
  BY <1>2, <1>4, SublistOf DEF c
<1>7. ToSet(s) = InRegionSet(r)
  BY <1>5, <1>6
<1>8. NoRepeat(s)
  <2> SUFFICES ASSUME NEW j \in 1..c, NEW k \in 1..c, j # k PROVE s[j] # s[k]
    BY <1>6 DEF NoRepeat
  <2>1. /\ Ascending(K)[j] \in DOMAIN ids /\ Ascending(K)[k] \in DOMAIN ids
        /\ Ascending(K)[j] # Ascending(K)[k]
    <3>1. Ascending(K)[j] \in K /\ Ascending(K)[k] \in K
      BY <1>6 DEF Lists
    <3>2. j < k \/ k < j
      OBVIOUS
    <3>3. Ascending(K)[j] \in Nat /\ Ascending(K)[k] \in Nat
      BY <1>2, <1>4, <3>1
    <3> QED
      BY <1>4, <1>6, <3>1, <3>2, <3>3 DEF Lists
  <2> QED
    BY <1>2, <1>6, <2>1 DEF NoRepeat
<1> QED
  BY <1>2, <1>4, <1>6, <1>7, <1>8 DEF s, K

(* The tensors of the list at which write_weights_bin stops, and those before
   the first of them. *)
Refused(g, list) ==
  {i \in DOMAIN list : list[i] \in g.unreadable \/ g.bytes[list[i]] # TableSize(g, list[i])}
Accepted(g, list) ==
  IF Refused(g, list) = {} THEN list ELSE SubSeq(list, 1, Min(Refused(g, list)) - 1)

(* A tensor of the weight region has its value in the model. *)
LEMMA WeightsAreGiven ==
  ASSUME NEW g, NEW n, RegionOf(KindOf(g, n)) = "WEIGHT"
  PROVE  n \in Initializers(g) \cup ConstantOutputs(g)
<1>1. KindOf(g, n) \in {"WEIGHT", "BIAS", "CONSTANT"}
  BY DEF RegionOf
<1> QED
  BY <1>1 DEF KindOf

(* Every weight that the model gives has the size that the file gives it, up to
   the first whose value cannot be read or whose size is not known. *)
LEMMA WeightsWritten ==
  ASSUME ExtractionInv, TableInv, WriteWeights
  PROVE  LET good == Accepted(graph, WeightOrder)
         IN  /\ build' = [build EXCEPT
                   !.weights = FlattenSeq([i \in DOMAIN good |-> Bytes(good[i])])]
             /\ \/ Refused(graph, WeightOrder) = {} /\ stage' = "done"
                \/ /\ Refused(graph, WeightOrder) # {}
                   /\ stage' = "failed" /\ Explained(error')
<1>1. stage = "weights" /\ tensors = FinalTable(graph) /\ OnnxModel(graph)
  BY DEF ExtractionInv, TableInv, WriteWeights, FromSchedule, FromPlan
<1> DEFINE bad == {i \in DOMAIN WeightOrder :
                     \/ WeightOrder[i] \in graph.unreadable
                     \/ graph.bytes[WeightOrder[i]] # tensors[WeightOrder[i]].size}
           good == IF bad = {} THEN WeightOrder ELSE SubSeq(WeightOrder, 1, Min(bad) - 1)
<1>2. /\ build' = [build EXCEPT !.weights = FlattenSeq([i \in DOMAIN good |-> Bytes(good[i])])]
      /\ \/ bad = {} /\ stage' = "done"
         \/ /\ bad # {} /\ stage' = "failed"
            /\ error' = IF WeightOrder[Min(bad)] \in graph.unreadable
                        THEN "unreadable constant" ELSE "weight size"
  BY DEF WriteWeights, Goto, Fail
<1>3. /\ WeightOrder \in Seq(Name)
      /\ \A i \in DOMAIN WeightOrder :
           /\ WeightOrder[i] \in DOMAIN tensors
           /\ tensors[WeightOrder[i]].region = "WEIGHT"
  <2>1. WeightOrder \in Seq(Name) /\ ToSet(WeightOrder) = InRegionSet("WEIGHT")
    BY <1>1, RegionListed DEF WeightOrder, FromSchedule, FromPlan
  <2> QED
    BY <2>1 DEF ToSet, InRegionSet
<1>4. \A n \in DOMAIN tensors : /\ tensors[n].size = TableSize(graph, n)
                                /\ tensors[n].region = RegionOf(KindOf(graph, n))
  BY <1>1, FinalRows DEF FinalTable
<1>5. bad = Refused(graph, WeightOrder)
  BY <1>3, <1>4 DEF Refused
<1>6. good = Accepted(graph, WeightOrder)
  BY <1>5 DEF Accepted
<1>7. ASSUME bad # {}
      PROVE  Explained(IF WeightOrder[Min(bad)] \in graph.unreadable
                       THEN "unreadable constant" ELSE "weight size")
  <2>1. bad \in SUBSET Nat
    BY <1>3
  <2>2. \E i \in bad : \A j \in bad : i <= j
    BY <1>7, <2>1, LeastOf
  <2> DEFINE n == WeightOrder[Min(bad)]
  <2>3. Min(bad) \in bad
    BY <2>2 DEF Min
  <2>4. CASE n \in graph.unreadable
    BY <2>4 DEF Explained
  <2>5. CASE n \notin graph.unreadable
    <3>1. n \in DOMAIN tensors /\ tensors[n].region = "WEIGHT"
          /\ graph.bytes[n] # tensors[n].size
      BY <1>3, <2>3, <2>5
    <3>2. n \in Name /\ n \in Initializers(graph) \cup ConstantOutputs(graph)
      BY <1>1, <1>4, <3>1, ReferencedIsTabled, WeightsAreGiven DEF FinalTable
    <3>3. ~Sized(graph, n)
      BY <1>1, <1>4, <3>1, <3>2, TableSizes
    <3> QED
      BY <2>5, <3>2, <3>3 DEF Explained
  <2> QED
    BY <2>4, <2>5
<1> HIDE DEF bad, good
<1> QED
  BY <1>2, <1>5, <1>6, <1>7

(* What the order check and the plan say depends on what the passes after them
   leave alone. *)
LEMMA PlanStays ==
  ASSUME UNCHANGED <<ids, instructions, tensors>>
  PROVE  /\ InOrder' <=> InOrder
         /\ UNCHANGED offset => (AllPlaced' <=> AllPlaced)
         /\ UNCHANGED plannerVars => (PInv' <=> PInv)
<1>1. InOrder' <=> InOrder
  BY DEF InOrder, AvailableAt
<1>2. ASSUME UNCHANGED offset PROVE AllPlaced' <=> AllPlaced
  <2>1. \A n : PersistentOffset(n)' = PersistentOffset(n)
    BY OffsetsStay
  <2>2. ToPlace(tensors)' = ToPlace(tensors) /\ Persistent' = Persistent
    BY DEF ToPlace, Persistent
  <2> QED
    BY <1>2, <2>1, <2>2 DEF AllPlaced
<1>3. ASSUME UNCHANGED plannerVars PROVE PInv' <=> PInv
  BY <1>3 DEF plannerVars, PInv, PlacementType, InProducerOrder, Owned, Accounted, Blocks,
              LiveDisjoint
<1> QED
  BY <1>1, <1>2, <1>3

(* Every pass keeps the plan. *)
LEMMA PlanStep ==
  ASSUME ExtractionInv, TableInv, PlanInv, [CompilerNext]_compilerVars
  PROVE  PlanInv'
<1> DEFINE Sets == /\ AfterSchedule = {"shapes"} \cup FromPlan
                   /\ FromPlan = {"plan", "place"} \cup AfterPlacement
                   /\ FromSchedule = {"schedule"} \cup AfterSchedule
                   /\ "schedule" \notin AfterSchedule /\ "shapes" \notin FromPlan
                   /\ {"plan", "place"} \cap AfterPlacement = {} /\ "failed" \notin FromSchedule
                   /\ {"inspect", "order", "ids", "fold", "build", "prune", "table", "resolve",
                       "liveness"} \cap FromSchedule = {}
<1>s. Sets
  BY DEF FromSchedule, FromPlan, AfterSchedule, AfterPlacement
<1> DEFINE Early == {"inspect", "order", "ids", "fold", "build", "prune", "table", "resolve",
                     "liveness", "schedule", "failed"}
<1>e. ASSUME stage' \in Early PROVE PlanInv'
  BY <1>s, <1>e DEF PlanInv
<1> HIDE DEF Sets
<1>1. CASE FirstPass \/ BuildTensorTable \/ ResolveDynamicShapes \/ ComputeLiveness \/ CompileAgain
  <2>1. stage' \in Early
    BY <1>1 DEF FirstPass, Inspect, ValidateTopologicalOrder, AssignTensorIds, FoldParameters,
         BuildInstructions, RemoveDeadInstructions, BuildTensorTable, ResolveDynamicShapes,
         ComputeLiveness, CompileAgain, Goto, Fail
  <2> QED
    BY <1>e, <2>1
<1>2. CASE ValidateInstructionOrder
  <2>1. UNCHANGED <<ids, instructions, tensors>> /\ stage = "schedule"
    BY <1>2 DEF ValidateInstructionOrder
  <2>2. stage' = "failed" \/ (InOrder /\ stage' = "shapes")
    BY <1>2 DEF ValidateInstructionOrder, InOrder, Goto, Fail
  <2>3. InOrder' <=> InOrder
    BY <2>1, PlanStays
  <2>4. CASE stage' = "failed"
    BY <1>e, <2>4
  <2>5. CASE InOrder /\ stage' = "shapes"
    BY <1>s, <2>3, <2>5 DEF PlanInv, Sets
  <2> QED
    BY <2>2, <2>4, <2>5
<1>3. CASE ValidateStaticShapes
  <2>1. UNCHANGED <<ids, instructions, tensors>> /\ stage = "shapes"
    BY <1>3 DEF ValidateStaticShapes
  <2>2. stage' \in {"plan", "failed"}
    BY <1>3 DEF ValidateStaticShapes, Goto, Fail
  <2>3. InOrder'
    BY <1>s, <2>1, PlanStays DEF PlanInv, Sets
  <2> QED
    BY <1>s, <2>2, <2>3 DEF PlanInv, Sets
<1>4. CASE PlanBegins
  <2>1. UNCHANGED <<ids, instructions, tensors>> /\ stage = "plan" /\ stage' = "place"
    BY <1>4 DEF PlanBegins, Goto
  <2>2. InOrder'
    BY <1>s, <2>1, PlanStays DEF PlanInv, Sets
  <2>3. PInv'
    BY <1>4, PlanBegun
  <2> QED
    BY <1>s, <2>1, <2>2, <2>3 DEF PlanInv, Sets
<1>5. CASE PlaceActivation
  <2>1. UNCHANGED <<ids, instructions, tensors>> /\ stage = "place" /\ stage' = "place"
    BY <1>5 DEF PlaceActivation, extractVars
  <2>2. InOrder'
    BY <1>s, <2>1, PlanStays DEF PlanInv, Sets
  <2>3. PInv'
    BY <1>5, <2>1, PlaceStep DEF PlaceActivation, PlanInv
  <2> QED
    BY <1>s, <2>1, <2>2, <2>3 DEF PlanInv, Sets
<1>6. CASE PlacePersistent
  <2>1. UNCHANGED <<ids, instructions, tensors>> /\ stage = "place" /\ stage' = "overlap"
    BY <1>6 DEF PlacePersistent, Goto
  <2>2. InOrder'
    BY <1>s, <2>1, PlanStays DEF PlanInv, Sets
  <2>3. AllPlaced'
    BY <1>6, <2>1, PlanCompleted DEF PlanInv
  <2> QED
    BY <1>s, <2>1, <2>2, <2>3 DEF PlanInv, Sets
<1>7. CASE ValidateNoMemoryOverlap \/ WriteJson \/ WriteWeights
  <2>1. /\ UNCHANGED <<ids, instructions, tensors, offset>> /\ stage \in AfterPlacement
        /\ stage' \in AfterPlacement \cup {"failed"}
    BY <1>7 DEF ValidateNoMemoryOverlap, WriteJson, WriteWeights, plannerVars, AfterPlacement,
         Goto, Fail
  <2>2. InOrder' /\ AllPlaced'
    BY <1>s, <2>1, PlanStays DEF PlanInv, Sets
  <2> QED
    BY <1>s, <2>1, <2>2 DEF PlanInv, Sets
<1>8. CASE UNCHANGED compilerVars
  <2>1. UNCHANGED <<ids, instructions, tensors, stage, plannerVars, offset>>
    BY <1>8 DEF compilerVars, extractVars, plannerVars
  <2> QED
    BY <2>1, PlanStays DEF PlanInv
<1> QED
  BY <1>1, <1>2, <1>3, <1>4, <1>5, <1>6, <1>7, <1>8, CompilerSteps DEF LaterPass

(* It holds always. *)
LEMMA PlanHolds ==
  OnnxModel(graph) /\ CompilerSpec => [](ExtractionInv /\ TableInv /\ PlanInv)
<1>1. CompilerStart => PlanInv
  BY DEF CompilerStart, PlanInv, AfterSchedule, AfterPlacement, FromPlan
<1>2. ExtractionInv /\ TableInv /\ PlanInv /\ [CompilerNext]_compilerVars => PlanInv'
  BY PlanStep
<1> QED
  BY <1>1, <1>2, TableHolds, PTL DEF CompilerSpec, CompilerBehavior

(* What can still go wrong, pass by pass. *)
LEMMA FailureStep ==
  ASSUME ExtractionInv, TableInv, PlanInv, FailuresExplained, [CompilerNext]_compilerVars
  PROVE  FailuresExplained'
<1> DEFINE Known == {"unsupported operator", "invalid order", "session",
                     "data-dependent parameter"}
<1>g. \A e : Explained(e)' <=> Explained(e)
  BY GraphStays DEF Explained, ReadOutput, Sized, InferredShape, TableType
<1>k. ASSUME stage' # "failed" \/ error' \in Known PROVE FailuresExplained'
  BY <1>k DEF FailuresExplained, Explained
<1>e. ASSUME Explained(error') PROVE FailuresExplained'
  BY <1>e, <1>g DEF FailuresExplained
<1>1. CASE Inspect \/ ValidateTopologicalOrder \/ AssignTensorIds \/ FoldParameters
           \/ RemoveDeadInstructions \/ BuildTensorTable
           \/ ComputeLiveness \/ PlanBegins \/ PlaceActivation \/ PlacePersistent
           \/ WriteJson \/ CompileAgain
  <2>1. stage' # "failed" \/ error' \in Known
    BY <1>1 DEF Inspect, ValidateTopologicalOrder, AssignTensorIds, FoldParameters,
         RemoveDeadInstructions, BuildTensorTable, ComputeLiveness,
         PlanBegins, PlaceActivation, PlacePersistent, WriteJson, CompileAgain, extractVars,
         Goto, Fail
  <2> QED
    BY <1>k, <2>1
<1>r. CASE ResolveDynamicShapes
  <2>1. stage' = "liveness" \/ Explained(error')
    BY <1>r, SizesResolved
  <2> QED
    BY <1>e, <1>k, <2>1
<1>2. CASE BuildInstructions
  BY <1>2, <1>k, NothingUnfolded
<1>3. CASE ValidateInstructionOrder
  <2>1. stage = "schedule"
    BY <1>3 DEF ValidateInstructionOrder
  <2>2. CASE InOrder
    <3>1. stage' = "shapes"
      BY <1>3, <2>2 DEF ValidateInstructionOrder, InOrder, Goto
    <3> QED
      BY <1>k, <3>1
  <2>3. CASE ~InOrder
    <3>1. error' = "schedule"
      BY <1>3, <2>3 DEF ValidateInstructionOrder, InOrder, Fail
    <3>2. ReadOutput
      BY <2>1, <2>3, ScheduleChecked
    <3> QED
      BY <1>e, <3>1, <3>2 DEF Explained
  <2> QED
    BY <2>2, <2>3
<1>4. CASE ValidateStaticShapes
  <2>1. \A n \in Used : tensors[n].static
    BY <1>4, ShapesChecked DEF ValidateStaticShapes
  <2>2. stage' = "plan"
    BY <1>4, <2>1 DEF ValidateStaticShapes, Goto
  <2> QED
    BY <1>k, <2>2
<1>5. CASE ValidateNoMemoryOverlap
  <2>1. stage = "overlap"
    BY <1>5 DEF ValidateNoMemoryOverlap
  <2>2. AllPlaced /\ WellFormed(tensors)
    BY <2>1, TableIsWellFormed DEF PlanInv, AfterPlacement, FromSchedule, FromPlan
  <2>3. stage' = "json"
    BY <1>5, <2>2, NothingOverlaps DEF ValidateNoMemoryOverlap, Goto
  <2> QED
    BY <1>k, <2>3
<1>6. CASE WriteWeights
  <2>1. stage' = "done" \/ Explained(error')
    BY <1>6, WeightsWritten
  <2> QED
    BY <1>e, <1>k, <2>1
<1>7. CASE UNCHANGED compilerVars
  <2>1. UNCHANGED <<stage, error>>
    BY <1>7 DEF compilerVars, extractVars
  <2> QED
    BY <1>g, <2>1 DEF FailuresExplained
<1> QED
  BY <1>1, <1>r, <1>2, <1>3, <1>4, <1>5, <1>6, <1>7, CompilerSteps DEF LaterPass, FirstPass

(* The validators find no error of the compiler's own on any model that the
   checker passes. *)
THEOREM FailuresAreExplained ==
  OnnxModel(graph) /\ CompilerSpec => []FailuresExplained
<1>1. CompilerStart => FailuresExplained
  BY DEF CompilerStart, FailuresExplained
<1>2. ExtractionInv /\ TableInv /\ PlanInv /\ FailuresExplained /\ [CompilerNext]_compilerVars
        => FailuresExplained'
  BY FailureStep
<1> QED
  BY <1>1, <1>2, PlanHolds, PTL DEF CompilerSpec, CompilerBehavior

-----------------------------------------------------------------------------
(* The output directory. *)

(* The files, functions of the model. *)
WeightList(g) ==
  LET s == TensorIds(g)
  IN  Sublist(s, {i \in DOMAIN s : /\ s[i] \in Tabled(g)
                                   /\ RegionOf(KindOf(g, s[i])) = "WEIGHT"})
Contents(g, n) == [k \in 1..g.bytes[n] |-> <<n, k>>]
WeightFile(g) ==
  LET list == Accepted(g, WeightList(g))
  IN  FlattenSeq([i \in DOMAIN list |-> Contents(g, list[i])])
OrderFile == Sublist(ids, {i \in DOMAIN ids : ids[i] \in DOMAIN tensors})
TableFile ==
  [n \in DOMAIN tensors |->
     [region |-> tensors[n].region, size |-> tensors[n].size,
      offset |-> IF n \in DOMAIN offset THEN offset[n] ELSE NONE,
      producer |-> tensors[n].producer]]

FileNames == {"instructions", "order", "tensors", "weights"}
FilesInv ==
  /\ DOMAIN build = FileNames
  /\ build.instructions \in {NoFile, Program(graph)}
  /\ build.weights \in {NoFile, WeightFile(graph)}
  /\ stage \in {"weights", "done"} =>
       /\ build.instructions = Program(graph)
       /\ build.order = OrderFile
       /\ build.tensors = TableFile
  /\ stage = "done" => /\ build.weights = WeightFile(graph)
                       /\ Refused(graph, WeightList(graph)) = {}

(* The weights in the order of the ids are those of the table. *)
LEMMA WeightsAre ==
  ASSUME ExtractionInv, TableInv, stage \in FromSchedule
  PROVE  /\ WeightOrder = WeightList(graph)
         /\ LET good == Accepted(graph, WeightOrder)
            IN  FlattenSeq([i \in DOMAIN good |-> Bytes(good[i])]) = WeightFile(graph)
<1>1. /\ OnnxModel(graph) /\ ids = TensorIds(graph) /\ tensors = FinalTable(graph)
  BY DEF ExtractionInv, TableInv, FromIds, FromFold, FromTable
<1>2. DOMAIN tensors = Tabled(graph)
      /\ \A n \in Tabled(graph) : tensors[n].region = RegionOf(KindOf(graph, n))
  BY <1>1, FinalRows DEF FinalTable
<1> DEFINE K == {i \in DOMAIN ids : ids[i] \in DOMAIN tensors /\ tensors[ids[i]].region = "WEIGHT"}
           L == {i \in DOMAIN ids : /\ ids[i] \in Tabled(graph)
                                    /\ RegionOf(KindOf(graph, ids[i])) = "WEIGHT"}
<1>3. K = L
  BY <1>2
<1>4. WeightOrder = Sublist(ids, K)
  BY DEF WeightOrder, InRegion
<1>5. WeightList(graph) = Sublist(ids, L)
  BY <1>1 DEF WeightList
<1>6. WeightOrder = WeightList(graph)
  BY <1>3, <1>4, <1>5
<1>7. \A n : Bytes(n) = Contents(graph, n)
  BY DEF Bytes, Contents
<1> DEFINE good == Accepted(graph, WeightOrder)
           list == Accepted(graph, WeightList(graph))
<1>8. [i \in DOMAIN good |-> Bytes(good[i])] = [i \in DOMAIN list |-> Contents(graph, list[i])]
  BY <1>6, <1>7
<1> QED
  BY <1>6, <1>8 DEF WeightFile

(* The two passes that write, and the rest. *)
LEMMA JsonWritten ==
  ASSUME ExtractionInv, TableInv, FilesInv, WriteJson
  PROVE  /\ DOMAIN build' = FileNames /\ stage' = "weights"
         /\ build'.instructions = Program(graph) /\ build'.weights = build.weights
         /\ build'.order = OrderFile /\ build'.tensors = TableFile
<1>1. instructions = Program(graph) /\ stage' = "weights"
  BY DEF ExtractionInv, WriteJson, FromTable, FromSchedule, FromPlan, Goto
<1> DEFINE p == instructions
           s == OrderFile
           t == TableFile
<1>2. build' = [build EXCEPT !.instructions = p, !.order = s, !.tensors = t]
  BY DEF WriteJson, OrderFile, TableFile
<1>3. DOMAIN build = {"instructions", "order", "tensors", "weights"}
  BY DEF FilesInv, FileNames
<1> HIDE DEF p, s, t
<1> QED
  BY <1>1, <1>2, <1>3 DEF FileNames, p, s, t

(* write_weights_bin writes every weight up to one it refuses. *)
LEMMA WeightFileWritten ==
  ASSUME ExtractionInv, TableInv, FilesInv, WriteWeights
  PROVE  /\ DOMAIN build' = FileNames
         /\ \/ stage' = "done" /\ Refused(graph, WeightList(graph)) = {}
            \/ stage' = "failed"
         /\ build'.instructions = build.instructions /\ build'.order = build.order
         /\ build'.tensors = build.tensors /\ build'.weights = WeightFile(graph)
<1>1. stage = "weights"
  BY DEF WriteWeights
<1>2. stage \in FromSchedule
  BY <1>1 DEF FromSchedule, FromPlan
<1> DEFINE w == WeightFile(graph)
<1>3. /\ build' = [build EXCEPT !.weights = w]
      /\ \/ stage' = "done" /\ Refused(graph, WeightList(graph)) = {}
         \/ stage' = "failed"
  BY <1>2, WeightsWritten, WeightsAre
<1>4. DOMAIN build = {"instructions", "order", "tensors", "weights"}
  BY DEF FilesInv, FileNames
<1> HIDE DEF w
<1> QED
  BY <1>3, <1>4 DEF FileNames, w

(* No other pass touches the directory. *)
LEMMA DirectoryStays ==
  ASSUME [CompilerNext]_compilerVars
  PROVE  \/ WriteJson \/ WriteWeights
         \/ /\ build' = build
            /\ stage' \in {"weights", "done"} =>
                 stage' = stage /\ UNCHANGED <<ids, tensors, offset>>
<1> USE DEF Goto, Fail
<1>1. CASE Extract /\ UNCHANGED <<plannerVars, build, compiles>>
  <2>1. stage' \notin {"weights", "done"}
    BY <1>1 DEF Extract, Inspect, ValidateTopologicalOrder, AssignTensorIds, FoldParameters,
         BuildInstructions, RemoveDeadInstructions, BuildTensorTable, ResolveDynamicShapes
  <2> QED
    BY <1>1, <2>1
<1>2. CASE \/ ComputeLiveness \/ ValidateInstructionOrder \/ ValidateStaticShapes
           \/ PlanBegins \/ PlacePersistent \/ ValidateNoMemoryOverlap \/ CompileAgain
  <2>1. build' = build
    BY <1>2 DEF ComputeLiveness, ValidateInstructionOrder, ValidateStaticShapes, PlanBegins,
         PlacePersistent, ValidateNoMemoryOverlap, CompileAgain
  <2>2. stage' \notin {"weights", "done"}
    BY <1>2 DEF ComputeLiveness, ValidateInstructionOrder, ValidateStaticShapes, PlanBegins,
         PlacePersistent, ValidateNoMemoryOverlap, CompileAgain
  <2> QED
    BY <2>1, <2>2
<1>3. CASE PlaceActivation
  <2>1. build' = build /\ stage' = "place"
    BY <1>3 DEF PlaceActivation, extractVars
  <2> QED
    BY <2>1
<1>4. CASE UNCHANGED compilerVars
  BY <1>4 DEF compilerVars, extractVars, plannerVars
<1> QED
  BY <1>1, <1>2, <1>3, <1>4 DEF CompilerNext, CompilerStep

(* The directory is empty at first. *)
LEMMA FilesStart ==
  ASSUME CompilerStart
  PROVE  FilesInv
<1> DEFINE empty == NoFile
<1>1. build = [instructions |-> empty, order |-> empty, tensors |-> empty, weights |-> empty]
      /\ stage = "inspect"
  BY DEF CompilerStart
<1> HIDE DEF empty
<1>2. /\ DOMAIN build = FileNames /\ build.instructions = empty /\ build.weights = empty
  BY <1>1 DEF FileNames
<1> QED
  BY <1>1, <1>2 DEF FilesInv, empty

(* Every pass leaves in the directory what is there or what the model determines. *)
LEMMA FilesStep ==
  ASSUME ExtractionInv, TableInv, FilesInv, [CompilerNext]_compilerVars
  PROVE  /\ FilesInv'
         /\ build'.instructions \in {build.instructions, Program(graph)}
         /\ build'.weights \in {build.weights, WeightFile(graph)}
<1>0. graph' = graph
  BY GraphStays
<1>1. CASE WriteJson
  <2>1. /\ DOMAIN build' = FileNames /\ stage' = "weights"
        /\ build'.instructions = Program(graph) /\ build'.weights = build.weights
        /\ build'.order = OrderFile /\ build'.tensors = TableFile
    BY <1>1, JsonWritten
  <2>2. UNCHANGED <<ids, tensors, offset>>
    BY <1>1 DEF WriteJson, plannerVars
  <2>3. OrderFile' = OrderFile /\ TableFile' = TableFile
    BY <2>2 DEF OrderFile, TableFile
  <2> QED
    BY <1>0, <2>1, <2>3 DEF FilesInv
<1>2. CASE WriteWeights
  <2>1. /\ DOMAIN build' = FileNames /\ stage = "weights"
        /\ \/ stage' = "done" /\ Refused(graph, WeightList(graph)) = {}
           \/ stage' = "failed"
        /\ build'.instructions = build.instructions /\ build'.order = build.order
        /\ build'.tensors = build.tensors /\ build'.weights = WeightFile(graph)
    BY <1>2, WeightFileWritten DEF WriteWeights
  <2>2. UNCHANGED <<ids, tensors, offset>>
    BY <1>2 DEF WriteWeights, plannerVars
  <2>3. OrderFile' = OrderFile /\ TableFile' = TableFile
    BY <2>2 DEF OrderFile, TableFile
  <2> QED
    BY <1>0, <2>1, <2>3 DEF FilesInv
<1>3. CASE /\ build' = build
           /\ stage' \in {"weights", "done"} =>
                stage' = stage /\ UNCHANGED <<ids, tensors, offset>>
  <2>1. CASE stage' \in {"weights", "done"}
    <3>1. stage' = stage /\ OrderFile' = OrderFile /\ TableFile' = TableFile
      BY <1>3, <2>1 DEF OrderFile, TableFile
    <3> QED
      BY <1>0, <1>3, <3>1 DEF FilesInv
  <2>2. CASE stage' \notin {"weights", "done"}
    BY <1>0, <1>3, <2>2 DEF FilesInv
  <2> QED
    BY <2>1, <2>2
<1> QED
  BY <1>1, <1>2, <1>3, DirectoryStays

(* All that is known of a compilation holds always. *)
LEMMA CompilationHolds ==
  OnnxModel(graph) /\ CompilerSpec
    => [](ExtractionInv /\ TableInv /\ PlanInv /\ FilesInv)
<1>1. CompilerStart => FilesInv
  BY FilesStart
<1>2. ExtractionInv /\ TableInv /\ FilesInv /\ [CompilerNext]_compilerVars => FilesInv'
  BY FilesStep
<1> QED
  BY <1>1, <1>2, PlanHolds, PTL DEF CompilerSpec, CompilerBehavior

(* A second compilation writes the instructions and the weights that the first
   one wrote. *)
THEOREM RecompilationRepeats ==
  OnnxModel(graph) /\ CompilerSpec => ProgramRepeats
<1> DEFINE A == /\ build.instructions # NoFile => build'.instructions = build.instructions
                /\ build.weights # NoFile => build'.weights = build.weights
<1>1. ExtractionInv /\ TableInv /\ FilesInv /\ [CompilerNext]_compilerVars => [A]_build
  <2> SUFFICES ASSUME ExtractionInv, TableInv, FilesInv, [CompilerNext]_compilerVars
               PROVE  A
    OBVIOUS
  <2>1. /\ build.instructions \in {NoFile, Program(graph)}
        /\ build.weights \in {NoFile, WeightFile(graph)}
        /\ build'.instructions \in {build.instructions, Program(graph)}
        /\ build'.weights \in {build.weights, WeightFile(graph)}
    BY FilesStep DEF FilesInv
  <2> QED
    BY <2>1
<1>2. [][A]_build => ProgramRepeats
  BY DEF ProgramRepeats
<1> HIDE DEF A
<1> QED
  BY <1>1, <1>2, CompilationHolds, PTL DEF CompilerSpec, CompilerBehavior
=============================================================================
