------------------------------- MODULE Runtime ------------------------------
(***************************************************************************)
(* runtime.c and main.c: the interpreter loads what the compiler wrote,    *)
(* binds the tensors to one arena per region, reads the weights and the    *)
(* input and runs the instructions.  A kernel writes its outputs byte by   *)
(* byte while its inputs stay where they are; the callback then dumps the  *)
(* outputs of the instruction.                                             *)
(*                                                                         *)
(* Values are symbolic: <<n, k>> is byte k of what ONNX computes for n.  A *)
(* kernel produces the right byte if its inputs are intact at that moment  *)
(* and garbage if they are not.                                            *)
(***************************************************************************)
EXTENDS Compiler

VARIABLES
  step,           \* what the runtime does next
  arena,          \* region -> bytes
  pc,             \* instruction under way
  written,        \* bytes of its outputs already written
  dumps           \* <tensor>.bin files: name -> bytes

runtimeVars == <<step, arena, pc, written, dumps>>
allVars == <<compilerVars, runtimeVars>>

ZERO == <<ABSENT, 0>>         \* calloc
GARBAGE == <<ABSENT, -1>>     \* computed from something else than the inputs

Loaded == build.tensors
At(n) == IF Loaded[n].offset = NONE THEN 0 ELSE Loaded[n].offset
Stored(n) == SubSeq(arena[Loaded[n].region], At(n) + 1, At(n) + Loaded[n].size)
Ordered(region) ==
  Sublist(build.order, {i \in DOMAIN build.order : Loaded[build.order[i]].region = region})

(* runtime_load and runtime_bind_memory *)
Bind ==
  /\ step = "idle" /\ stage = "done"
  /\ arena' = [r \in MemoryRegion |->
       LET ends == {At(n) + Loaded[n].size : n \in {m \in DOMAIN Loaded : Loaded[m].region = r}}
       IN  [k \in 1..Max(ends \cup {0}) |-> ZERO]]
  /\ step' = "weights" /\ pc' = 1 /\ written' = 0
  /\ UNCHANGED <<compilerVars, dumps>>

(* fread of size_bytes for each tensor of a region in the order of the file:
   the arena after it, when the file is long enough. *)
SizesBefore(s, i) ==
  LET sum[j \in 0..Len(s)] == IF j = 0 THEN 0 ELSE sum[j - 1] + Loaded[s[j]].size
  IN  sum[i - 1]
ReadInto(region, file) ==
  LET s == Ordered(region)
  IN  [k \in DOMAIN arena[region] |->
         LET hit == {i \in DOMAIN s : At(s[i]) < k /\ k <= At(s[i]) + Loaded[s[i]].size}
         IN  IF hit = {} THEN arena[region][k]
             ELSE LET i == Max(hit) IN file[SizesBefore(s, i) + k - At(s[i])]]
LongEnough(region, file) ==
  SizesBefore(Ordered(region), Len(Ordered(region)) + 1) <= Len(file)

Load(region, file, next) ==
  /\ IF LongEnough(region, file)
     THEN arena' = [arena EXCEPT ![region] = ReadInto(region, file)] /\ step' = next
     ELSE step' = "failed" /\ UNCHANGED arena
  /\ UNCHANGED <<compilerVars, pc, written, dumps>>

LoadWeights == step = "weights" /\ Load("WEIGHT", build.weights, "input")

(* input.bin holds the first input of the model that is not an initializer,
   converted to float32.  dump_reference writes it after it ran the model: the
   input that the session accepted is float32 already, and a model that the
   session refuses leaves no file. *)
InputFile == Bytes(Head(FirstSeen(graph.inputs, Initializers(graph))))
LoadInput == step = "input" /\ SessionRuns /\ Load("INPUT", InputFile, "run")
InputMissing ==
  /\ step = "input" /\ ~SessionRuns
  /\ step' = "failed"
  /\ UNCHANGED <<compilerVars, arena, pc, written, dumps>>

Intact(n) == Stored(n) = Bytes(n)
OutputBytes(i) ==
  FlattenSeq([j \in DOMAIN i.out |-> [k \in 1..Loaded[i.out[j]].size |-> <<i.out[j], k>>]])

(* execute_instruction.  A kernel that returns an error has written nothing:
   there is none for the operator, it does not implement the attributes or it
   does not implement the type. *)
KernelRefuses(i) ==
  \/ i.op = "NMS"
  \/ i.op = "Ellipsis"
  \/ i.op = "Clip" /\ TableType(graph, i.in[1]) # "float32"

AtInstruction == step = "run" /\ pc <= Len(build.instructions)
AtKernel == AtInstruction /\ ~KernelRefuses(build.instructions[pc])

(* One byte of the outputs. *)
KernelWrites ==
  /\ AtKernel
  /\ LET i == build.instructions[pc]
         todo == OutputBytes(i)
     IN  /\ written < Len(todo)
         /\ LET b == todo[written + 1]
                good == \A n \in ToSet(i.in) : Intact(n)
            IN  arena' = [arena EXCEPT ![Loaded[b[1]].region][At(b[1]) + b[2]] =
                                         IF good THEN b ELSE GARBAGE]
         /\ written' = written + 1
  /\ UNCHANGED <<compilerVars, step, pc, dumps>>

(* runtime_execute_cb calls dump_instr_outputs_cb right after the kernel. *)
InstructionDone ==
  /\ AtKernel
  /\ LET outs == ToSet(build.instructions[pc].out)
     IN  /\ written = Len(OutputBytes(build.instructions[pc]))
         /\ dumps' = [n \in DOMAIN dumps \cup outs |->
                        IF n \in outs THEN Stored(n) ELSE dumps[n]]
  /\ pc' = pc + 1 /\ written' = 0
  /\ UNCHANGED <<compilerVars, step, arena>>

(* The program stops at an instruction whose kernel returns an error. *)
KernelFails ==
  /\ AtInstruction /\ KernelRefuses(build.instructions[pc])
  /\ step' = "refused"
  /\ UNCHANGED <<compilerVars, arena, pc, written, dumps>>

Finish ==
  /\ step = "run" /\ pc = Len(build.instructions) + 1
  /\ step' = "finished"
  /\ UNCHANGED <<compilerVars, arena, pc, written, dumps>>

RuntimeStart ==
  /\ step = "idle" /\ pc = 0 /\ written = 0 /\ dumps = <<>>
  /\ arena = [r \in MemoryRegion |-> <<>>]

RuntimeStep ==
  \/ Bind \/ LoadWeights \/ LoadInput \/ InputMissing
  \/ KernelWrites \/ InstructionDone \/ KernelFails \/ Finish
-----------------------------------------------------------------------------
Init == CompilerStart /\ RuntimeStart
Compile == CompilerStep /\ UNCHANGED runtimeVars
Next == Compile \/ RuntimeStep
Fairness == WF_allVars(Compile) /\ WF_allVars(RuntimeStep)
Spec == Init /\ [][Next]_allVars /\ Fairness
-----------------------------------------------------------------------------
(* The weights loader, the input loader and the kernels leave every byte where
   it belongs: whatever an instruction still has to read is intact, although
   the arena is reused all the time. *)
Computed(n) == \E i \in 1..pc - 1 : n \in ToSet(instructions[i].out)
InputsIntact ==
  step = "run" /\ pc <= Len(instructions) =>
    \A i \in pc..Len(instructions) : \A n \in ToSet(instructions[i].in) :
      tensors[n].producer = NONE \/ Computed(n) => Intact(n)

(* The interpreter implements the semantics of ONNX on what it dumps: each
   instruction adds the reference values of its outputs, from inputs that are
   known, and no dump ever changes. *)
Onnx == INSTANCE OnnxSemantics WITH values <- dumps
ImplementsOnnx == Onnx!Spec

(* When the run is over, every graph output that a node computes is dumped and
   still in its place. *)
OutputsComplete ==
  step = "finished" =>
    \A n \in GraphOutputs(graph) :
      ProducersOf(graph, n) # {} /\ n \notin ConstantOutputs(graph) =>
        n \in DOMAIN dumps /\ Intact(n)

(* A model that compiles runs to its end unless it reaches an instruction that
   its kernel refuses; the loaders find the files they expect if onnxruntime
   can run the model. *)
RunEnds ==
  <>(\/ stage = "failed"
     \/ step = "finished"
     \/ step = "refused" /\ \E i \in DOMAIN instructions : i = pc /\ KernelRefuses(instructions[i])
     \/ step = "failed" /\ ~SessionRuns)
=============================================================================
