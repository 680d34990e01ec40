---------------------------- MODULE MemoryPlanner ---------------------------
(***************************************************************************)
(* plan_activation_region of analysis/memory_planner.py: a linear scan     *)
(* over the activation tensors in the order of their producers.  Before a  *)
(* tensor is placed, the blocks whose tensors died strictly before its     *)
(* producer join the free list; the first free block that is large enough  *)
(* is taken and its tail stays free; otherwise the region grows.  One step *)
(* places one tensor.                                                      *)
(***************************************************************************)
EXTENDS CompilerIr

CONSTANT ALIGNMENT            \* in bytes
ASSUME AlignmentAssumption == ALIGNMENT \in Nat \ {0}

VARIABLES
  pending,        \* activation tensors not yet placed
  active,         \* blocks that hold a tensor
  free,           \* the free list
  highWater,      \* end of the region
  offset          \* memory_offset of the tensors placed, a partial function

plannerVars == <<pending, active, free, highWater, offset>>

(* A block has an offset, a size and an owner, the tensor it was last allocated
   to; in the free list the owner only tells apart two empty blocks at the same
   offset. *)
Blocks == active \cup free

Align(x) == ((x + ALIGNMENT - 1) \div ALIGNMENT) * ALIGNMENT

(* Tensors that no instruction produces are skipped. *)
ToPlace(table) == {n \in DOMAIN table : /\ table[n].region = "ACTIVATION"
                                        /\ table[n].producer # NONE}

(* events.sort is stable: the outputs of one instruction stay in the order
   of the tensor table, which build_tensor_table takes from a Python set. *)
NextToPlace == {n \in pending :
                  \A m \in pending : tensors[n].producer <= tensors[m].producer}

(* Mutant: a block is released to the instruction that reads it last. *)
ExpiredInclusive(i) ==
  {b \in active : LET t == tensors[b.owner] IN t.consumers # {} /\ \A c \in t.consumers : c <= i}
Expired(i) == {b \in active : DeadBefore(tensors[b.owner], i)}

(* The block of least offset that is large enough. *)
FirstFit(blocks, size) ==
  LET fits == {b \in blocks : b.size >= size}
  IN  {b \in fits : \A c \in fits : b.offset <= c.offset}

(* Mutant: the tail of a split block is lost. *)
RestDropped(b, size) == {}
Rest(b, size) ==
  IF b.size > size
  THEN {[owner |-> b.owner, offset |-> b.offset + size, size |-> b.size - size]}
  ELSE {}

PlaceAt(n, x, size, stillActive) ==
  /\ offset' = [m \in DOMAIN offset \cup {n} |-> IF m = n THEN x ELSE offset[m]]
  /\ active' = stillActive \cup {[owner |-> n, offset |-> x, size |-> size]}
  /\ pending' = pending \ {n}

Place(n) ==
  LET expired == Expired(tensors[n].producer)
      size == Align(tensors[n].size)
      released == free \cup expired
  IN  /\ n \in NextToPlace
      /\ \/ /\ FirstFit(released, size) = {}
            /\ PlaceAt(n, highWater, size, active \ expired)
            /\ free' = released
            /\ highWater' = highWater + size
         \/ \E b \in FirstFit(released, size) :
              /\ PlaceAt(n, b.offset, size, active \ expired)
              /\ free' = (released \ {b}) \cup Rest(b, size)
              /\ UNCHANGED highWater
-----------------------------------------------------------------------------
(* The pass on any table whose instructions are in a valid order. *)
WellFormed(table) ==
  /\ DOMAIN table \subseteq Name
  /\ IsFiniteSet(DOMAIN table)
  /\ \A n \in DOMAIN table :
       /\ table[n] \in Tensor
       /\ \A c \in table[n].consumers : table[n].producer < c

EmptyRegion == active = {} /\ free = {} /\ highWater = 0 /\ offset = <<>>

PlanInit ==
  /\ WellFormed(tensors)
  /\ pending = ToPlace(tensors)
  /\ EmptyRegion

PlanNext == (\E n \in pending : Place(n)) /\ UNCHANGED tensors

planVars == <<tensors, plannerVars>>
PlanSpec == PlanInit /\ [][PlanNext]_planVars
-----------------------------------------------------------------------------
(* Tensors that are live together never share a byte, an instruction's
   outputs and the inputs it is still reading included, whichever tensors
   died, were split or were reused in between. *)
LiveDisjoint ==
  \A m, n \in DOMAIN offset :
    m # n /\ LifetimesMeet(tensors[m], tensors[n]) =>
      ~RangesMeet(offset[m], Align(tensors[m].size), offset[n], Align(tensors[n].size))

(* Every byte of the region belongs to exactly one block, and every block,
   remainders of split blocks included, begins on a boundary: reuse and
   splitting neither leak memory nor hand it out twice. *)
RegionTiled ==
  /\ \A x \in 0..highWater - 1 :
       Cardinality({b \in Blocks : b.offset <= x /\ x < b.offset + b.size}) = 1
  /\ \A b \in Blocks : b.offset % ALIGNMENT = 0
=============================================================================
