------------------------------ MODULE OnnxGraph -----------------------------
(***************************************************************************)
(* An ONNX graph as the extractor sees it (extractor/graph.py and the node *)
(* lists that instructions.py and tensors.py walk).                        *)
(*                                                                         *)
(* A graph is a record: the names of its inputs, initializers and outputs, *)
(* its nodes in stored order (nodes); what only running the model shows:   *)
(* the bytes of each tensor and the tensors that depend on the pixels and  *)
(* yet have one value in two particular runs (coincide); what shape        *)
(* inference finds out, a ShapeClass and a dtype: "float32", "int64" or    *)
(* "unknown", a type whose size the extractor does not know; and the       *)
(* Constant outputs whose value get_constant_array cannot read             *)
(* (unreadable).  An operator is one of the classes the passes tell apart: *)
(*   "Conv"      reads all its inputs at run time, the third being a bias  *)
(*   "Slice"     all inputs but the first are parameters to fold           *)
(*   "Shape"     its value depends on the shape of its input only          *)
(*   "Constant"  no inputs, one output with a literal value                *)
(*   "Clip"      like Slice, for float32 only in the runtime               *)
(*   "NMS"       like Conv, and has no kernel in the runtime               *)
(*   "Ellipsis"  like Conv; the runtime has a kernel, for other attributes *)
(*   "Unknown"   has no entry in HANDLERS                                  *)
(***************************************************************************)
EXTENDS Integers, Sequences, SequencesExt, FiniteSetsExt

Handlers == {"Conv", "Slice", "Shape", "Clip", "Constant", "NMS", "Ellipsis"}

(* All dimensions are known; some are not; not even their number is; inference
   knows nothing of the tensor. *)
ShapeClass == {"static", "dynamic", "unranked", "missing"}

ABSENT == ""                  \* an optional input or output that is left out

Present(s) == ToSet(s) \ {ABSENT}

(* The numbers of K in increasing order; what a comprehension that goes through
   s leaves of it, K being the positions that meet its condition. *)
Ascending(K) ==
  LET ordered[S \in SUBSET Int] ==
        [k \in 1..Cardinality(S) |-> CHOOSE i \in S : Cardinality({j \in S : j <= i}) = k]
  IN  ordered[K]
Sublist(s, K) ==
  LET picked[place \in Seq(Int)] == [k \in DOMAIN place |-> s[place[k]]]
  IN  picked[Ascending(K)]

Initializers(g) == ToSet(g.inits)
GraphInputs(g) == ToSet(g.inputs) \ Initializers(g)
GraphOutputs(g) == ToSet(g.outputs)
Given(g) == GraphInputs(g) \cup Initializers(g)

(* The nodes that produce a name, and those that consume it. *)
ProducersOf(g, n) == {i \in DOMAIN g.nodes : n \in Present(g.nodes[i].out)}
ConsumersOf(g, n) == {i \in DOMAIN g.nodes : n \in Present(g.nodes[i].in)}

(* validate_topological_order: whatever a node reads is an input, an
   initializer or the output of a node stored before it. *)
StoredOrderValid(g) ==
  \A i \in DOMAIN g.nodes :
    \A n \in Present(g.nodes[i].in) \ Given(g) :
      \E j \in ProducersOf(g, n) : j < i

(* The nodes that must run before node i (topological_sort).  A name that
   nothing produces is no dependency there. *)
Dependencies(g, i) ==
  UNION {IF ProducersOf(g, n) = {} THEN {} ELSE {Max(ProducersOf(g, n))} :
           n \in Present(g.nodes[i].in) \ Given(g)}

(* HANDLERS and PARAM_INPUT_POSITIONS *)
Supported(op) == op \in Handlers
ParamPositions(node) == IF node.op \in {"Slice", "Clip"} THEN 2..Len(node.in) ELSE {}
Params(node) == {node.in[k] : k \in ParamPositions(node)} \ {ABSENT}
RuntimeInputs(node) ==
  Sublist(node.in, {k \in DOMAIN node.in : node.in[k] # ABSENT} \ ParamPositions(node))

CandidateNames(g) == UNION {Params(g.nodes[i]) : i \in DOMAIN g.nodes}

ConstantOutputs(g) ==
  {g.nodes[i].out[1] : i \in {j \in DOMAIN g.nodes : g.nodes[j].op = "Constant"}}
BiasNames(g) ==
  {g.nodes[i].in[3] : i \in {j \in DOMAIN g.nodes : /\ g.nodes[j].op = "Conv"
                                                     /\ Len(g.nodes[j].in) >= 3}}
-----------------------------------------------------------------------------
(* _assign_tensor_ids.  The ids are strings; all that matters of them is their
   order, in which every writer and loader goes through the tensors: inputs,
   outputs that no node mentions, other tensors in first-seen order,
   initializers (up to ten of each, so that strings sort like numbers). *)
FirstSeen(s, without) ==
  Sublist(s, {i \in DOMAIN s : s[i] \notin without /\ \A j \in 1..i - 1 : s[j] # s[i]})
NodeNames(g) == FlattenSeq([i \in DOMAIN g.nodes |-> g.nodes[i].in \o g.nodes[i].out])
TensorIds(g) ==
  FirstSeen(g.inputs, Initializers(g))
    \o FirstSeen(g.outputs, Given(g) \cup ToSet(NodeNames(g)))
    \o FirstSeen(NodeNames(g), Given(g) \cup {ABSENT})
    \o FirstSeen(g.inits, {})

AllNames(g) == Given(g) \cup GraphOutputs(g) \cup Present(NodeNames(g))
-----------------------------------------------------------------------------
(* What the passes are measured against. *)

(* What a rule derives from a seed: it adds at least one of the names in each
   round, or nothing any more. *)
Closure(names, seed, Derived(_)) ==
  LET grow[k \in 0..Cardinality(names)] ==
        IF k = 0 THEN seed ELSE UNION {S \cup Derived(S) : S \in {grow[k - 1]}}
  IN  grow[Cardinality(names)]

(* Tensors whose values depend on the pixels of the model's input. *)
DataDependent(g) ==
  Closure(AllNames(g), GraphInputs(g),
          LAMBDA S : UNION {Present(g.nodes[i].out) :
                              i \in {j \in DOMAIN g.nodes :
                                       /\ g.nodes[j].op # "Shape"
                                       /\ Present(g.nodes[j].in) \cap S # {}}})

(* Nodes some graph output needs at run time, parameters being folded: the
   least set with the nodes that compute an output and, for every node in it,
   those that compute what it reads. *)
Computing(g, names) ==
  {i \in DOMAIN g.nodes : g.nodes[i].op # "Constant" /\ Present(g.nodes[i].out) \cap names # {}}
SuppliesItself(g, S) ==
  /\ Computing(g, GraphOutputs(g)) \subseteq S
  /\ \A i \in S : Computing(g, ToSet(RuntimeInputs(g.nodes[i]))) \subseteq S
Needed(g) ==
  {i \in DOMAIN g.nodes : \A S \in SUBSET DOMAIN g.nodes : SuppliesItself(g, S) => i \in S}
=============================================================================
