------------------------------ MODULE Extractor -----------------------------
(***************************************************************************)
(* extract() of extractor/extractor.py: from an ONNX graph to instructions *)
(* and a tensor table.  One step per pass and one per round of the loop    *)
(* that removes dead code.  A pass that raises ends the compilation.       *)
(***************************************************************************)
EXTENDS CompilerIr, OnnxGraph

ASSUME NameAssumption == ABSENT \notin Name

(* What onnx.checker.check_model, which the loader calls, guarantees: names are
   assigned once, and a Constant has one output and no input. *)
Node == [op : STRING, in : Seq(Name \cup {ABSENT}), out : Seq(Name \cup {ABSENT})]
SingleAssignment(g) ==
  \A i \in DOMAIN g.nodes :
    \A k \in {l \in DOMAIN g.nodes[i].out : g.nodes[i].out[l] # ABSENT} :
      /\ g.nodes[i].out[k] \notin ToSet(g.inputs) \cup ToSet(g.inits)
      /\ \A j \in DOMAIN g.nodes : \A l \in DOMAIN g.nodes[j].out :
           g.nodes[j].out[l] = g.nodes[i].out[k] => j = i /\ l = k
OnnxModel(g) ==
  /\ g.inputs \in Seq(Name) /\ g.inits \in Seq(Name) /\ g.outputs \in Seq(Name)
  /\ g.nodes \in Seq(Node)
  /\ g.bytes \in [Name -> Nat] /\ g.shape \in [Name -> ShapeClass]
  /\ g.dtype \in [Name -> {"float32", "int64", "unknown"}]
  /\ g.unreadable \subseteq ConstantOutputs(g)
  /\ SingleAssignment(g)
  /\ \A i \in DOMAIN g.nodes :
       g.nodes[i].op = "Constant" =>
         g.nodes[i].in = <<>> /\ Len(g.nodes[i].out) = 1 /\ g.nodes[i].out[1] # ABSENT

VARIABLES
  graph,          \* the model being compiled
  stage,          \* the pass that runs next, or "failed"
  error,          \* why the compilation failed
  ids,            \* the tensors in the order of their ids
  folded,         \* parameters replaced by their value
  instructions

extractVars == <<graph, stage, error, ids, folded, instructions, tensors>>

Goto(s) == stage' = s /\ UNCHANGED error
Fail(e) == stage' = "failed" /\ error' = e

(* inspect_model: main() refuses a graph with an operator HANDLERS lacks. *)
Inspect ==
  /\ stage = "inspect"
  /\ IF \A i \in DOMAIN graph.nodes : Supported(graph.nodes[i].op)
     THEN Goto("order") ELSE Fail("unsupported operator")
  /\ UNCHANGED <<graph, ids, folded, instructions, tensors>>

ValidateTopologicalOrder ==
  /\ stage = "order"
  /\ IF StoredOrderValid(graph) THEN Goto("ids") ELSE Fail("invalid order")
  /\ UNCHANGED <<graph, ids, folded, instructions, tensors>>

AssignTensorIds ==
  /\ stage = "ids"
  /\ ids' = TensorIds(graph)
  /\ Goto("fold")
  /\ UNCHANGED <<graph, folded, instructions, tensors>>

(* What is known of a tensor: its shape, and its type, which is taken for
   float32 where inference tells neither. *)
InferredShape(g, n) == IF n \in Initializers(g) THEN "static" ELSE g.shape[n]
TableType(g, n) == IF InferredShape(g, n) = "missing" THEN "float32" ELSE g.dtype[n]

(* The bytes of a tensor whose shape is known: none of a type without a size. *)
KnownBytes(g, n) == IF TableType(g, n) = "unknown" THEN 0 ELSE g.bytes[n]
(* Without a shape, a tensor is taken for a scalar. *)
ScalarBytes(g, n) ==
  CASE TableType(g, n) = "float32" -> 4
    [] TableType(g, n) = "int64"   -> 8
    [] TableType(g, n) = "unknown" -> 0

(* The extractor can tell the size of the tensor. *)
Sized(g, n) == InferredShape(g, n) \in {"static", "dynamic"} /\ TableType(g, n) # "unknown"

(* onnxruntime is given one array of float32: it refuses a model with another
   number of inputs or an input of another type. *)
Runs(g) == /\ Cardinality(GraphInputs(g)) = 1
           /\ \A n \in GraphInputs(g) : TableType(g, n) = "float32"
SessionRuns == Runs(graph)

(* The model runs on the random inputs of seeds 1 and 2.  A tensor has the
   same value in both runs if it does not depend on the pixels, or if it does
   and its values happen to coincide. *)
SameInBothRuns(n) == n \notin DataDependent(graph) \/ n \in graph.coincide

(* fold_candidate_tensors *)
FoldParameters ==
  /\ stage = "fold"
  /\ LET names == CandidateNames(graph)
     IN  \/ /\ names # {} /\ ~SessionRuns
            /\ Fail("session") /\ UNCHANGED folded
         \/ /\ names # {} => SessionRuns
            /\ IF \A n \in names : SameInBothRuns(n)
               THEN Goto("build") /\ folded' = names
               ELSE Fail("data-dependent parameter") /\ UNCHANGED folded
  /\ UNCHANGED <<graph, ids, instructions, tensors>>

Translate(node) ==
  [op |-> node.op, in |-> RuntimeInputs(node),
   out |-> Sublist(node.out, {k \in DOMAIN node.out : node.out[k] # ABSENT})]

(* build_instructions *)
BuildInstructions ==
  /\ stage = "build"
  /\ UNCHANGED <<graph, ids, folded, tensors>>
  /\ LET real == Sublist(graph.nodes, {i \in DOMAIN graph.nodes : graph.nodes[i].op # "Constant"})
     IN  IF \E i \in DOMAIN real : Params(real[i]) \ folded # {}
         THEN Fail("parameter not folded") /\ UNCHANGED instructions
         ELSE /\ Goto("prune")
              /\ instructions' = [i \in DOMAIN real |-> Translate(real[i])]

Consumed(prog) == UNION {ToSet(prog[i].in) : i \in DOMAIN prog}

(* The instructions with an output that something uses. *)
Live ==
  LET used == Consumed(instructions) \cup GraphOutputs(graph)
  IN  {i \in DOMAIN instructions : ToSet(instructions[i].out) \cap used # {}}

(* Mutant: one round, whatever it exposes. *)
RemoveDeadOnce ==
  /\ stage = "prune"
  /\ instructions' = Sublist(instructions, Live)
  /\ Goto("table")
  /\ UNCHANGED <<graph, ids, folded, tensors>>
(* Mutant: a round that removes nothing is repeated. *)
RemoveDeadForEver ==
  /\ stage = "prune"
  /\ instructions' = Sublist(instructions, Live)
  /\ UNCHANGED <<graph, stage, error, ids, folded, tensors>>
(* One round of remove_dead_instructions; instruction ids are positions, so renumbering
   is implicit. *)
RemoveDeadInstructions ==
  /\ stage = "prune"
  /\ instructions' = Sublist(instructions, Live)
  /\ IF Cardinality(Live) = Len(instructions) THEN Goto("table") ELSE Goto("prune")
  /\ UNCHANGED <<graph, ids, folded, tensors>>

KindOf(g, n) ==
  CASE n \in ConstantOutputs(g) -> "CONSTANT"
    [] n \in GraphOutputs(g) \ ConstantOutputs(g) -> "OUTPUT"
    [] n \in GraphInputs(g) \ GraphOutputs(g) -> "INPUT"
    [] n \in Initializers(g) \ GraphOutputs(g) ->
         IF n \in BiasNames(g) THEN "BIAS" ELSE "WEIGHT"
    [] OTHER -> "ACTIVATION"

(* Mutant: an output that is consumed is planned with the activations. *)
RegionOfOutputReused(kind) ==
  CASE kind \in {"WEIGHT", "BIAS", "CONSTANT"} -> "WEIGHT"
    [] kind \in {"OUTPUT", "ACTIVATION"} -> "ACTIVATION"
    [] OTHER -> kind
RegionOf(kind) == IF kind \in {"WEIGHT", "BIAS", "CONSTANT"} THEN "WEIGHT" ELSE kind

TableEntry(g, n) ==
  LET shape == InferredShape(g, n)
  IN  [kind |-> KindOf(g, n), region |-> RegionOf(KindOf(g, n)),
       size |-> CASE shape = "static"  -> KnownBytes(g, n)
                  [] shape = "dynamic" -> 0
                  [] shape \in {"unranked", "missing"} -> ScalarBytes(g, n),
       static |-> shape # "dynamic", producer |-> NONE, consumers |-> {}]

(* build_tensor_table and the clean-up after it: activations that only dead
   instructions mentioned are dropped. *)
BuildTensorTable ==
  /\ stage = "table"
  /\ LET referenced == Consumed(instructions)
                         \cup UNION {ToSet(instructions[i].out) : i \in DOMAIN instructions}
     IN  tensors' = [n \in {m \in ToSet(ids) :
                              KindOf(graph, m) = "ACTIVATION" => m \in referenced} |->
                       TableEntry(graph, n)]
  /\ Goto("resolve")
  /\ UNCHANGED <<graph, ids, folded, instructions>>

(* Mutant: the size is not computed anew. *)
ResolveShapesOnly ==
  /\ stage = "resolve"
  /\ Goto("liveness")
  /\ tensors' = [n \in DOMAIN tensors |-> [tensors[n] EXCEPT !.static = TRUE]]
  /\ UNCHANGED <<graph, ids, folded, instructions>>
(* _resolve_dynamic_shapes: one run of the model tells the shapes that
   inference left open.  A resolved tensor of a type without a size raises. *)
ResolveDynamicShapes ==
  /\ stage = "resolve"
  /\ LET dynamic == {n \in DOMAIN tensors : ~tensors[n].static}
         raising == {n \in dynamic : TableType(graph, n) = "unknown"}
     IN  \/ dynamic # {} /\ ~SessionRuns /\ Fail("session") /\ UNCHANGED tensors
         \/ SessionRuns /\ raising # {} /\ Fail("unknown type") /\ UNCHANGED tensors
         \/ /\ dynamic # {} => SessionRuns
            /\ raising = {}
            /\ Goto("liveness")
            /\ tensors' = [n \in DOMAIN tensors |->
                 IF n \in dynamic
                 THEN [tensors[n] EXCEPT !.size = graph.bytes[n], !.static = TRUE]
                 ELSE tensors[n]]
  /\ UNCHANGED <<graph, ids, folded, instructions>>

Extract ==
  \/ Inspect \/ ValidateTopologicalOrder \/ AssignTensorIds \/ FoldParameters 
  \/ BuildInstructions \/ RemoveDeadInstructions \/ BuildTensorTable
  \/ ResolveDynamicShapes
=============================================================================
