---------------------------- MODULE Verification ----------------------------
(***************************************************************************)
(* The verification loop: dump_reference.py writes one file per tensor,    *)
(* the runtime dumps the outputs of each instruction, compare.py goes      *)
(* through the tensors in execution order and gives a verdict; a kernel is *)
(* repaired and the program runs again into the same directory.            *)
(*                                                                         *)
(* Numbers are abstracted to what the comparison tells apart: a dump is    *)
(* "right" (within tolerance of what onnxruntime computes for the tensor)  *)
(* or "wrong".  A faulty kernel gets one of its outputs wrong at least; a  *)
(* sound one may turn wrong inputs into right outputs.                     *)
(***************************************************************************)
EXTENDS Integers, FiniteSets, Sequences, SequencesExt

CONSTANT MAX_RUNS             \* bound on runs of the program

VARIABLES
  program,        \* instructions: [in, out], sequences of tensor ids
  table,          \* tensors.json: [id, name, producer, dtype, shapeKnown]
  faulty,         \* instructions whose kernel has a bug
  phase,          \* "reference", "run", "compare", "pass", "fail", "raised"
  reference,      \* <safe name>.npy -> name of the tensor it holds
  memory,         \* what the running program computed: id -> "right", "wrong"
  dumpDir,        \* <id>.bin -> "right", "wrong"
  pc,
  next,           \* position of the tensor compared next
  checked, passed, firstFailure,
  runs,
  fresh           \* ids dumped by the last run (history)

vars == <<program, table, faulty, phase, reference, memory, dumpDir, pc, next,
          checked, passed, firstFailure, runs, fresh>>
model == <<program, table>>
verdict == <<next, checked, passed, firstFailure>>

NONE == ""                    \* no failure seen

Right(id) == id \notin DOMAIN memory \/ memory[id] = "right"

(* name.replace("/", "_"), a name being a sequence of characters *)
Safe(name) == [k \in DOMAIN name |-> IF name[k] = "/" THEN "_" ELSE name[k]]

(* The tensors that an instruction produces (producer is not None, here 0),
   by their place in the table. *)
Produced == {i \in DOMAIN table : table[i].producer # 0}
Exposed == {table[i] : i \in Produced}

Instruction == [in : Seq(STRING), out : Seq(STRING)]
Entry ==
  [id : STRING \ {NONE}, name : Seq(STRING), producer : Nat, dtype : STRING,
   shapeKnown : BOOLEAN]

(* The files that the compiler wrote: an entry per id, and each tensor
   produced by the one instruction that names it as an output. *)
WellFormed ==
  /\ program \in Seq(Instruction) /\ table \in Seq(Entry)
  /\ \A i \in DOMAIN table : table[i].producer \in 0..Len(program)
  /\ \A i, j \in DOMAIN table : table[i].id = table[j].id => i = j
  /\ \A k \in DOMAIN program :
       ToSet(program[k].out) = {t.id : t \in {u \in Exposed : u.producer = k}}
  /\ Produced # {}
  /\ faulty \subseteq DOMAIN program

Start ==
  /\ WellFormed
  /\ phase = "reference" /\ reference = <<>> /\ memory = <<>> /\ dumpDir = <<>>
  /\ pc = 1 /\ next = 1 /\ checked = 0 /\ passed = 0 /\ firstFailure = NONE
  /\ runs = 1 /\ fresh = {}

(* dump_reference exposes the outputs of all nodes, and writes them one after
   the other; a later file replaces an earlier one of the same name.  (It lists
   graph outputs first, and tensors that the compiler dropped as well: whose
   file survives a clash may differ, not that one is lost.) *)
DumpReference ==
  /\ phase = "reference"
  /\ LET Writers(f) == {i \in Produced : Safe(table[i].name) = f}
         Newest(f) == CHOOSE i \in Writers(f) : \A j \in Writers(f) : j <= i
     IN  reference' = [f \in {Safe(t.name) : t \in Exposed} |-> table[Newest(f)].name]
  /\ phase' = "run"
  /\ UNCHANGED <<model, faulty, memory, dumpDir, pc, verdict, runs, fresh>>

(* One instruction and its dump callback.  A file that cannot be opened is
   skipped silently (those outside written). *)
ExecuteInstruction ==
  /\ phase = "run" /\ pc <= Len(program)
  /\ LET outs == ToSet(program[pc].out)
         sound == \A id \in ToSet(program[pc].in) : Right(id)
     IN  \E wrong, written \in SUBSET outs :
           LET Value(id) == IF id \in wrong THEN "wrong" ELSE "right"
           IN  /\ pc \in faulty => wrong # {}
               /\ pc \notin faulty /\ sound => wrong = {}
               /\ memory' = [id \in DOMAIN memory \cup outs |->
                               IF id \in outs THEN Value(id) ELSE memory[id]]
               /\ dumpDir' = [id \in DOMAIN dumpDir \cup written |->
                                IF id \in written THEN Value(id) ELSE dumpDir[id]]
               /\ fresh' = fresh \cup written
  /\ pc' = pc + 1
  /\ UNCHANGED <<model, faulty, phase, reference, verdict, runs>>

(* The run is over: at the end of the program, or earlier because a kernel
   failed.  compare.py does not ask which. *)
RunEnds ==
  /\ phase = "run"
  /\ phase' = "compare"
  /\ UNCHANGED <<model, faulty, reference, memory, dumpDir, pc, verdict, runs, fresh>>

(* activations.sort(key = producer), stable: at position k is the tensor that
   has k - 1 others before it. *)
Before(i, j) ==
  \/ table[i].producer < table[j].producer
  \/ table[i].producer = table[j].producer /\ i < j
Rank(j) == Cardinality({i \in Produced : Before(i, j)})
Activations ==
  [k \in 1..Cardinality(Produced) |-> table[CHOOSE j \in Produced : Rank(j) = k - 1]]

(* load_c_tensor knows three dtypes besides float32, the default, and reshape
   raises if the file does not have the elements of the shape. *)
Readable(t) == t.dtype \in {"float32", "int64", "int32", "bool"}

OnBothSides(t) == t.id \in DOMAIN dumpDir /\ Safe(t.name) \in DOMAIN reference

(* Mutant: integers never agree. *)
AgreeFloatOnly(t) ==
  t.shapeKnown /\ dumpDir[t.id] = "right" /\ reference[Safe(t.name)] = t.name /\ t.dtype = "float32"
(* compare_tensor and the tolerance *)
Agree(t) == /\ t.shapeKnown
            /\ dumpDir[t.id] = "right"
            /\ reference[Safe(t.name)] = t.name

CheckedAfter(t) == checked + 1
PassedAfter(t) == IF Agree(t) THEN passed + 1 ELSE passed
(* Mutant: the last failure is kept. *)
FailureLast(t) == IF ~Agree(t) THEN t.id ELSE firstFailure
FailureAfter(t) == IF ~Agree(t) /\ firstFailure = NONE THEN t.id ELSE firstFailure
(* Mutant: a tensor with a missing file is tried again. *)
NextIfCompared(t) == IF OnBothSides(t) THEN next + 1 ELSE next
NextAfter(t) == next + 1

CompareTensor ==
  /\ phase = "compare" /\ next <= Len(Activations)
  /\ LET t == Activations[next]
     IN  \/ /\ t.id \in DOMAIN dumpDir /\ ~Readable(t)
            /\ phase' = "raised"
            /\ UNCHANGED verdict
         \/ /\ t.id \in DOMAIN dumpDir => Readable(t)
            /\ next' = NextAfter(t)
            /\ IF OnBothSides(t)
               THEN /\ checked' = CheckedAfter(t)
                    /\ passed' = PassedAfter(t)
                    /\ firstFailure' = FailureAfter(t)
               ELSE UNCHANGED <<checked, passed, firstFailure>>
            /\ UNCHANGED phase
  /\ UNCHANGED <<model, faulty, reference, memory, dumpDir, pc, runs, fresh>>

(* Mutant: one good tensor is enough. *)
VerdictIfAny == IF passed > 0 THEN "pass" ELSE "fail"
(* sys.exit(0 if n_pass == n_checked and n_checked > 0 else 1) *)
Verdict == IF passed = checked /\ checked > 0 THEN "pass" ELSE "fail"
Exit ==
  /\ phase = "compare" /\ next = Len(Activations) + 1
  /\ phase' = Verdict
  /\ UNCHANGED <<model, faulty, reference, memory, dumpDir, pc, verdict, runs, fresh>>

(* Some kernels are repaired and everything runs again. *)
RepairAndRun ==
  /\ phase \in {"fail", "pass", "raised"} /\ runs < MAX_RUNS
  /\ \E f \in SUBSET faulty : faulty' = f
  /\ phase' = "run" /\ memory' = <<>> /\ pc' = 1 /\ runs' = runs + 1 /\ fresh' = {}
  /\ next' = 1 /\ checked' = 0 /\ passed' = 0 /\ firstFailure' = NONE
  /\ UNCHANGED <<model, reference, dumpDir>>

Compare == CompareTensor \/ Exit
Next == DumpReference \/ ExecuteInstruction \/ RunEnds \/ Compare \/ RepairAndRun
Fairness == WF_vars(RunEnds) /\ WF_vars(Compare) /\ WF_vars(DumpReference)
Spec == Start /\ [][Next]_vars /\ Fairness
-----------------------------------------------------------------------------
(* The precondition of a meaningful verdict: this run went to the end and all
   its dumps were written, the shapes of tensors.json are right and no two
   names fall together. *)
Distinct == \A t, u \in Exposed : Safe(t.name) = Safe(u.name) => t = u
Complete == pc = Len(program) + 1 /\ fresh = {t.id : t \in Exposed}
Conclusive == Complete /\ Distinct /\ \A t \in Exposed : t.shapeKnown

(* compare.py: the first diverging tensor is where debugging can start.  It
   was produced by the first instruction whose kernel is faulty, although its
   wrong outputs have spread over the rest of the program. *)
FaultLocalised ==
  phase = "fail" /\ Conclusive =>
    /\ faulty # {}
    /\ firstFailure \in ToSet(program[CHOOSE i \in faulty : \A j \in faulty : i <= j].out)

(* A conclusive pass means that no kernel is faulty. *)
PassMeansSound == phase = "pass" /\ Conclusive => faulty = {}

(* Even when a run stops early or dumps get lost, the tools accuse no sound
   kernel: a tensor reported on fresh dumps is wrong because of a faulty one
   at or before its producer. *)
NoFalseAlarm ==
  phase = "fail" /\ firstFailure \in fresh /\ Distinct =>
    LET t == CHOOSE u \in ToSet(table) : u.id = firstFailure
    IN  t.shapeKnown => \E i \in faulty : i <= t.producer

(* Every round of verification ends with a verdict. *)
VerdictReached == []<>(phase \in {"pass", "fail", "raised"})
=============================================================================
