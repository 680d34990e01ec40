----------------------------- MODULE CompilerIr -----------------------------
(***************************************************************************)
(* The intermediate representation that the passes of the YOLOE compiler   *)
(* share (extractor/ir.py).  Shapes, dtypes and attributes are abstracted  *)
(* to the bytes of a tensor and whether its shape is static.  A tensor is  *)
(* identified by its ONNX name; ids and names correspond one to one.  The  *)
(* id of an instruction is its position in the list, counted from 1.       *)
(***************************************************************************)
EXTENDS Integers, FiniteSets, Sequences

CONSTANT Name                 \* ONNX tensor names
VARIABLE tensors              \* the tensor table: name -> record

NONE == -1                    \* Python's None where an integer may stand

Kind == {"INPUT", "OUTPUT", "ACTIVATION", "WEIGHT", "BIAS", "CONSTANT"}
MemoryRegion == {"ACTIVATION", "WEIGHT", "CONSTANT", "INPUT", "OUTPUT"}

(* first_use, last_use and discard_after are functions of the consumers. *)
Tensor ==
  [kind : Kind, region : MemoryRegion, size : Nat, static : BOOLEAN,
   producer : Nat \cup {NONE}, consumers : SUBSET Nat]

Instruction == [op : STRING, in : Seq(Name), out : Seq(Name)]
-----------------------------------------------------------------------------
(* Mutant: a tensor is dead for its last consumer already. *)
DeadBeforeInclusive(t, i) == t.consumers # {} /\ \A c \in t.consumers : c <= i
(* discard_after < i.  A tensor with no consumer has no discard_after and
   lives for ever. *)
DeadBefore(t, i) == t.consumers # {} /\ \A c \in t.consumers : c < i

(* Inclusive: a tensor is still being read by its last consumer. *)
LifetimesMeet(a, b) == ~DeadBefore(a, b.producer) /\ ~DeadBefore(b, a.producer)

(* n bytes at x and m bytes at y *)
RangesMeet(x, n, y, m) == x < y + m /\ y < x + n
=============================================================================
