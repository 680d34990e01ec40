---------------------------- MODULE OnnxSemantics ---------------------------
(***************************************************************************)
(* What an ONNX graph means, as verification/dump_reference.py obtains it  *)
(* from onnxruntime: nodes are evaluated in any order in which each finds  *)
(* the values it reads, and a tensor has one value for ever.  Parameters   *)
(* are compile-time constants.                                             *)
(***************************************************************************)
EXTENDS OnnxGraph

VARIABLES
  graph,
  values          \* the tensors computed so far: name -> bytes

Reference(n) == [k \in 1..graph.bytes[n] |-> <<n, k>>]

Known == GraphInputs(graph) \cup Initializers(graph) \cup ConstantOutputs(graph)
           \cup DOMAIN values

Evaluate(i) ==
  LET outs == Present(graph.nodes[i].out)
  IN  /\ ToSet(RuntimeInputs(graph.nodes[i])) \subseteq Known
      /\ outs \cap DOMAIN values = {}
      /\ values' = [n \in DOMAIN values \cup outs |->
                      IF n \in outs THEN Reference(n) ELSE values[n]]

Init == values = <<>>
Next == (\E i \in DOMAIN graph.nodes : Evaluate(i)) /\ UNCHANGED graph
Spec == Init /\ [][Next]_<<graph, values>>
=============================================================================
