------------------------------ MODULE Compiler ------------------------------
(***************************************************************************)
(* compile_model of compile_yoloe.py: extraction, liveness, the validation *)
(* passes, memory planning and the files in the output directory.  The     *)
(* planner places one tensor per step; every other pass is one step.  The  *)
(* same model may be compiled again into the same directory.               *)
(***************************************************************************)
EXTENDS Extractor, MemoryPlanner

CONSTANT MAX_COMPILES         \* bound on compilations in a behaviour

VARIABLES
  build,          \* the output directory: tensors.json, instructions.json
                  \* and weights.bin, as last written
  compiles        \* compilations begun

compilerVars == <<extractVars, plannerVars, build, compiles>>

NoFile == <<>>

(* compute_liveness starts from scratch whatever the table says. *)
ComputeLiveness ==
  /\ stage = "liveness"
  /\ tensors' = [n \in DOMAIN tensors |->
       LET makers == {i \in DOMAIN instructions : n \in ToSet(instructions[i].out)}
       IN  [tensors[n] EXCEPT
              !.producer = IF makers = {} THEN NONE ELSE Max(makers),
              !.consumers = {i \in DOMAIN instructions :
                               n \in ToSet(instructions[i].in)}]]
  /\ Goto("schedule")
  /\ UNCHANGED <<graph, ids, folded, instructions, plannerVars, build, compiles>>

(* Mutant: constants are forgotten. *)
AvailableNoConstants(i) ==
  {n \in DOMAIN tensors : tensors[n].kind \in {"INPUT", "WEIGHT", "BIAS"}}
    \cup UNION {ToSet(instructions[j].out) : j \in 1..i - 1}
(* What validate_instruction_order takes as available before instruction i. *)
AvailableAt(i) ==
  {n \in DOMAIN tensors : tensors[n].kind \in {"INPUT", "WEIGHT", "BIAS", "CONSTANT"}}
    \cup UNION {ToSet(instructions[j].out) : j \in 1..i - 1}

ValidateInstructionOrder ==
  /\ stage = "schedule"
  /\ IF \A i \in DOMAIN instructions : ToSet(instructions[i].in) \subseteq AvailableAt(i)
     THEN Goto("shapes") ELSE Fail("schedule")
  /\ UNCHANGED <<graph, ids, folded, instructions, tensors, plannerVars, build, compiles>>

Used == Consumed(instructions)
          \cup UNION {ToSet(instructions[i].out) : i \in DOMAIN instructions}

ValidateStaticShapes ==
  /\ stage = "shapes"
  /\ IF \A n \in Used : tensors[n].static THEN Goto("plan") ELSE Fail("unresolved shape")
  /\ UNCHANGED <<graph, ids, folded, instructions, tensors, plannerVars, build, compiles>>

(* sorted(tensors), restricted to a region *)
InRegion(r) ==
  Sublist(ids, {i \in DOMAIN ids : ids[i] \in DOMAIN tensors /\ tensors[ids[i]].region = r})

(* plan_persistent_region: every tensor has its own slot, in the order of the
   ids. *)
PersistentOffset(n) ==
  LET s == InRegion(tensors[n].region)
      end[i \in 0..Len(s)] == IF i = 0 THEN 0 ELSE end[i - 1] + Align(tensors[s[i]].size)
  IN  end[(CHOOSE i \in DOMAIN s : s[i] = n) - 1]

(* plan_memory: activations first, then the persistent regions. *)
PlanBegins ==
  /\ stage = "plan"
  /\ pending' = ToPlace(tensors)
  /\ active' = {} /\ free' = {} /\ highWater' = 0 /\ offset' = <<>>
  /\ Goto("place")
  /\ UNCHANGED <<graph, ids, folded, instructions, tensors, build, compiles>>

PlaceActivation ==
  /\ stage = "place"
  /\ \E n \in pending : Place(n)
  /\ UNCHANGED <<extractVars, build, compiles>>

PlacePersistent ==
  /\ stage = "place" /\ pending = {}
  /\ offset' = [n \in DOMAIN offset
                        \cup {m \in DOMAIN tensors : tensors[m].region # "ACTIVATION"} |->
                  IF n \in DOMAIN offset THEN offset[n] ELSE PersistentOffset(n)]
  /\ Goto("overlap")
  /\ UNCHANGED <<graph, ids, folded, instructions, tensors, pending, active, free, highWater,
                 build, compiles>>

(* validate_no_memory_overlap compares exact byte ranges, in the activation
   region only. *)
Overlap ==
  \E m, n \in {k \in DOMAIN offset : /\ tensors[k].region = "ACTIVATION"
                                     /\ tensors[k].producer # NONE} :
    /\ m # n
    /\ LifetimesMeet(tensors[m], tensors[n])
    /\ RangesMeet(offset[m], tensors[m].size, offset[n], tensors[n].size)

ValidateNoMemoryOverlap ==
  /\ stage = "overlap"
  /\ IF Overlap THEN Fail("memory overlap") ELSE Goto("json")
  /\ UNCHANGED <<graph, ids, folded, instructions, tensors, plannerVars, build, compiles>>

(* write_instructions_json and write_tensors_json, a list in the order of the
   ids (order); memory_offset is null for a tensor that was not placed. *)
WriteJson ==
  /\ stage = "json"
  /\ build' = [build EXCEPT
       !.instructions = instructions,
       !.order = Sublist(ids, {i \in DOMAIN ids : ids[i] \in DOMAIN tensors}),
       !.tensors = [n \in DOMAIN tensors |->
                      [region |-> tensors[n].region, size |-> tensors[n].size,
                       offset |-> IF n \in DOMAIN offset THEN offset[n] ELSE NONE,
                       producer |-> tensors[n].producer]]]
  /\ Goto("weights")
  /\ UNCHANGED <<graph, ids, folded, instructions, tensors, plannerVars, compiles>>

(* Mutant: the order in which the weights are written is not that of the loader. *)
WeightOrderReversed == Reverse(InRegion("WEIGHT"))
(* Mutant: only initializers are written. *)
WeightOrderInitializers ==
  LET all == InRegion("WEIGHT")
  IN  Sublist(all, {i \in DOMAIN all : tensors[all[i]].kind # "CONSTANT"})
(* write_weights_bin: the bytes of every tensor of the WEIGHT region in the
   order of the ids.  Byte k of tensor n is <<n, k>>.  The file is opened for
   writing first, so the bytes written before a constant that get_constant_array
   cannot read, or a failed assertion, stay. *)
WeightOrder == InRegion("WEIGHT")
Bytes(n) == [k \in 1..graph.bytes[n] |-> <<n, k>>]

(* Mutant: the file of an earlier compilation is extended. *)
WriteWeightsAppending ==
  /\ stage = "weights"
  /\ build' = [build EXCEPT
       !.weights = @ \o FlattenSeq([i \in DOMAIN WeightOrder |-> Bytes(WeightOrder[i])])]
  /\ Goto("done")
  /\ UNCHANGED <<graph, ids, folded, instructions, tensors, plannerVars, compiles>>
WriteWeights ==
  /\ stage = "weights"
  /\ LET bad == {i \in DOMAIN WeightOrder :
                   \/ WeightOrder[i] \in graph.unreadable
                   \/ graph.bytes[WeightOrder[i]] # tensors[WeightOrder[i]].size}
         good == IF bad = {} THEN WeightOrder ELSE SubSeq(WeightOrder, 1, Min(bad) - 1)
     IN  /\ build' = [build EXCEPT
                        !.weights = FlattenSeq([i \in DOMAIN good |-> Bytes(good[i])])]
         /\ \/ bad = {} /\ Goto("done")
            \/ /\ bad # {}
               /\ Fail(IF WeightOrder[Min(bad)] \in graph.unreadable
                       THEN "unreadable constant" ELSE "weight size")
  /\ UNCHANGED <<graph, ids, folded, instructions, tensors, plannerVars, compiles>>

(* Running the compiler once more: a new process, the same directory. *)
CompileAgain ==
  /\ stage \in {"done", "failed"} /\ compiles < MAX_COMPILES
  /\ stage' = "inspect" /\ error' = "" /\ compiles' = compiles + 1
  /\ ids' = <<>> /\ folded' = {} /\ instructions' = <<>> /\ tensors' = <<>>
  /\ pending' = {} /\ active' = {} /\ free' = {} /\ highWater' = 0 /\ offset' = <<>>
  /\ UNCHANGED <<graph, build>>

CompilerStart ==
  /\ stage = "inspect" /\ error = "" /\ compiles = 1
  /\ ids = <<>> /\ folded = {} /\ instructions = <<>> /\ tensors = <<>>
  /\ pending = {} /\ EmptyRegion
  /\ build = [instructions |-> NoFile, order |-> NoFile, tensors |-> NoFile, weights |-> NoFile]

CompilerStep ==
  \/ Extract /\ UNCHANGED <<plannerVars, build, compiles>>
  \/ ComputeLiveness \/ ValidateInstructionOrder \/ ValidateStaticShapes
  \/ PlanBegins \/ PlaceActivation \/ PlacePersistent \/ ValidateNoMemoryOverlap
  \/ WriteJson \/ WriteWeights
-----------------------------------------------------------------------------
(* remove_dead_instructions stops at the instructions some graph output needs
   at run time and no others, in their order: a chain that only computed a
   folded parameter is gone to its first node. *)
DeadCodeExact ==
  stage = "table" =>
    LET needed == Sublist(graph.nodes, Needed(graph))
    IN  instructions = [k \in DOMAIN needed |-> Translate(needed[k])]

(* The validators are a second opinion: on what the extractor and the planner
   produce, none of them finds an error of theirs.  The rejections left are a
   graph output that is not computed but is itself an input or an initializer,
   when some node reads it, and constants the extractor cannot read or size. *)
ReadOutput == \E n \in GraphOutputs(graph) \cap (GraphInputs(graph) \cup Initializers(graph)) :
                ConsumersOf(graph, n) # {}
Explained(e) ==
  \/ e \in {"unsupported operator", "invalid order", "session", "data-dependent parameter"}
  \/ e = "schedule" /\ ReadOutput
  \/ e = "unknown type" /\ \E n \in Name : /\ graph.shape[n] = "dynamic"
                                            /\ graph.dtype[n] = "unknown"
  \/ e = "weight size" /\ \E n \in Initializers(graph) \cup ConstantOutputs(graph) :
                             ~Sized(graph, n)
  \/ e = "unreadable constant" /\ graph.unreadable # {}
FailuresExplained == stage = "failed" => Explained(error)

(* A compilation that reaches the planner knows the true size of every tensor
   the program touches, whatever shape inference left open, if inference knows
   its rank and the extractor the size of its type. *)
Planned == stage \in {"plan", "place", "overlap", "json", "weights", "done"}
SizesTrue ==
  Planned => \A n \in Used : Sized(graph, n) => tensors[n].size = graph.bytes[n]

(* A tensor whose size the extractor cannot tell ends the compilation: with
   the others, the planner knows the true size of every tensor in use. *)
UnresolvedFails == Planned => \A n \in Used : tensors[n].size = graph.bytes[n]

(* Compiling a model again writes the same instructions and the same weights,
   in the same order, whatever the first compilation left in the directory, and
   stops at the same weight if it stops at one. *)
ProgramRepeats ==
  [][/\ build.instructions # NoFile => build'.instructions = build.instructions
     /\ build.weights # NoFile => build'.weights = build.weights]_build

CompilerNext == CompilerStep \/ CompileAgain
CompilerBehavior == [][CompilerNext]_compilerVars /\ WF_compilerVars(CompilerStep)
CompilerSpec == CompilerStart /\ CompilerBehavior

(* Every compilation returns: the dead-code loop and the scan come to an end. *)
CompilerReturns == []<>(stage \in {"done", "failed"})
=============================================================================
