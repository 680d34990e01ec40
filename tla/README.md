# A verification development for the DVcon accelerator

The repository holds two programs that meet at a planned interface:

* an INT8 matrix accelerator in SystemVerilog (`rtl/`) with the Python tools that
  generate and simulate its microcode (`scripts/opcode_generator/`);
* an offline compiler, a C reference interpreter and verification tools for a YOLOE
  network (`yoloe_compiler/`), which the accelerator is meant to replace kernel by
  kernel.

In the first, four engines run concurrently under a scheduler that issues microcode
out of order, and everything they share (two activation banks, a weight staging
buffer, one accumulator, a bias buffer, two output banks) is protected by a
scoreboard alone. In the second, a chain of passes hands a memory plan and three
files to an interpreter that reuses every byte as early as the plan allows. This
development models both and checks them with TLC. With TLAPS it proves the issue logic,
the scoreboard, the engines' hand-overs, the host interface and the generated GEMM programs of
the one; of the other the whole path from an ONNX graph through the compiler's passes, its memory
plan and its files to what the interpreter dumps, and the verdict of the verification tools.

## 1. Inventory

| Part | State | Operations | Talks to | What is hard | What makes it correct |
|---|---|---|---|---|---|
| Control unit `rtl/control_unit.sv` | scoreboard (buffer and engine states, rows left per bank), beat counters, base offsets | scan the window and issue one instruction per cycle; completions; start; soft_reset; `busy`, `done` | every block below | out-of-order issue; completions in the same cycle as an issue; a completion that is a level, not a pulse | reordered execution equals program order; a buffer is locked exactly while somebody works on it; no deadlock |
| Instruction window `rtl/instructions_fifo.sv` | instruction memory, window of four, fetch pointer | write, restart, pop from the middle | control unit, host | end of memory, restart between runs | program order kept, nothing lost or fetched twice |
| DMA master `rtl/axi4_master.sv` | read and write FSM, beat counters | one read and one write burst at a time | control unit, DRAM | handshakes at arbitrary times; a start while not idle is ignored | a burst delivers all its beats, done once |
| Systolic array `rtl/systolic_array.sv`, `rtl/pe.sv` | weights, skew registers, perf FSM | weight_load, en, perf_valid | control unit, buffers | weights replaced under a running row; perf_valid stays high | one row times the parked tile, signalled once |
| Vector unit `rtl/vector_unit.sv`, `rtl/silu_lut.sv` | pipeline | bias add, requantise, activation | accum, bias, output buffers | rounding and clamping | the quantised row, a fixed number of cycles later |
| Buffers `rtl/bram_*.sv` | memories, registered read ports | beat writes, row/tile/beat reads | DMA, array, vector unit | a read is one cycle late | a reader sees what was last written |
| Top level `rtl/accelerator.sv` | none | wiring; gate on instruction writes | all | which block soft_reset reaches; when the gate is open | the program cannot change under a run |
| Register slave `rtl/axi4_lite_slave.sv` | registers, bus FSMs | write and read registers, start, program words | host, control unit | address and data in either order; self-clearing START; polling | a write takes effect once; a START is one run; the host learns of the end |
| Simulator `sim.py` | buffer states and contents | `step`, `run` | generators, tests | | the reference meaning of a microprogram |
| ISA `isa.py` | none | builders, encode, decode | generators | field widths; SET_BASE's spread immediate | decode inverts encode on what is generated |
| Generators `gemm_compiler.py`, `tiling.py` | tiling cursor, output directory | tiled GEMM to microcode, addresses, files; execution of a tiled program | isa, sim | one accumulator, one bias per run; ragged tiles; leftovers in the directory | programs legal for the scoreboard; every element of the product exact, once |
| Extractor `yoloe_compiler/extractor/` | tensor table, instruction list | order check, ids, constant folding, instruction building, dead code, tensor table, dynamic shapes | analysis | passes that undo each other's assumptions | what is needed is kept, what is not is gone; sizes true |
| Liveness and planner `yoloe_compiler/analysis/` | lifetimes; free list, active set, high-water mark | linear scan, persistent regions | extractor, runtime | reuse at exactly the last use; splitting | live tensors never overlap; no byte lost |
| Validation `analysis/graph_validation.py` | none | four checks between the passes | all passes | repeats their bookkeeping | rejects no correct output of theirs |
| Interpreter `yoloe_compiler/runtime/` | arenas, tensors | bind, load weights and input, dispatch, dump | the planner's output files | reads of memory already reused; order of a file without directory | each kernel sees its operands; dumps are ONNX values |
| Output and verification `output/`, `verification/` | files | write, dump references, compare | interpreter | stale and missing files; first failure | the verdict points at the faulty kernel |
| Detection front end | images | load, draw | interpreter | floating point, I/O | |

The vendored libraries (`runtime/thirdparty/`) are not part of this program.
`PROJECT.json` lists the components with their status, and under `hazards` every
place where this code can go wrong in a way a test hardly reaches, with the
properties that would catch it.

## 2. Modules

```
The accelerator
  AcceleratorIsa            instructions, resources they read and write, geometry
    |-- InstructionFifo     memory, window, fetch pointer
    |     `-- HostInterface       register slave, and the host on its bus
    |-- Scoreboard          registers of control_unit.sv, can_issue_*, one clock edge
    |-- InOrderMachine      sim.py on terms: one instruction after the other
    |     `-- AtomicAccelerator   abstract specification: a run is one step
    `-- Accelerator         core and engines, cycle by cycle
          |-- AcceleratorReset    the same under soft_reset
          |-- HostedAccelerator   the core behind HostInterface
          |-- MCAccelerator, MCReset, MCHosted
          `-- AcceleratorProofs (also of AcceleratorReset), HostedProofs
Its microcode
  IsaWords                  encode and decode
  VectorUnit                arithmetic of one lane
  FunctionalSim             sim.py on numbers (InOrderMachine, VectorUnit)
  GemmProgram               the generators
    `-- TiledGemm           generate, write files, execute, collect C
          `-- MCGemmCompiler, GemmProofs
The compiler and what runs its output
  CompilerIr, OnnxGraph     tensor table; ONNX graphs as the passes see them
    |-- Extractor           extract, one step per pass
    |     `-- KahnSort            topological_sort
    |           `-- ExtractionProofs    the graph algorithms
    |-- MemoryPlanner       one step per tensor placed
    |     `-- MCPlanner
    |-- Compiler            compile_model: Extractor, liveness, checks, MemoryPlanner, files
    |     |-- MCCompiler
    |     `-- CompilerProofs        planner, passes, files (uses ExtractionProofs)
    |-- OnnxSemantics       abstract specification: evaluation of an ONNX graph
    `-- Runtime             the interpreter on the files of Compiler, byte by byte
          |-- MCRuntime
          `-- RuntimeProofs         loaders, kernels, refinement (uses CompilerProofs)
  Verification              dump_reference, run, compare, repair
    |-- MCVerification
    `-- VerificationProofs
Inductions                  lemmas that several of the proof modules need
```

### The accelerator

**AcceleratorIsa.** An instruction is a record. `ResReads` and `ResWrites` are
`res_reads`/`res_writes` of the control unit as sets instead of bit masks, and
`Conflict` is `window_hazard`. Data are terms: a memory cell holds the expression
that computed it (`Dot(row, tile)`, `Plus(x, y)`, `Quantize(x, bias)`), so two
results are equal only when the same operands went through the same operators.
This lets a run compare results without any arithmetic, and it is stricter than
comparing numbers.

**InstructionFifo.** A window slot holds the *address* its word was fetched from
instead of the word. The memory is written only between runs, so the word is
recovered by `Fetch`; addresses make program order visible to the properties.
`INSTR_DEPTH` stands for a slot past the end of memory.

**Scoreboard.** One record `s` holds the registers. `IssueEffect` is the issue
case of the scoreboard's `always_ff`, the five completion operators are the
completion events, and `NextScoreboard` applies them in source order: in
SystemVerilog the last nonblocking assignment to a register wins, and this order
decides what happens when a completion and an issue meet in one cycle. The
right-hand sides read the old registers (`old`). `NextBookkeeping` is the other
`always_ff`: beat counters, latched row addresses and the edge detector of
`array_done`.

**InOrderMachine.** `CanStep` is sim.py's preconditions, `Step` its `step`,
`Execute` its `run`. SET_BASE, which sim.py rejects, and burst addressing are
taken from the RTL. `AtomicAccelerator` turns this into a specification of what
the host may rely on: `Submit` a program that is legal in the present state,
`Begin`, and `Finish` in the state the in-order machine computes.

**Accelerator.** One step is one clock cycle. `Issue(op, g)` is a cycle that
issues an instruction with opcode `op`, `NoIssue(g)` one that issues nothing,
`Start(g)` the cycle of `start_pulse`; `LoadProgram(p)` is the host writing a
program between runs. Every cycle moves every engine (`Datapath`) and the
bookkeeping (`Book`). The parameter `g` says which handshakes happen in the
cycle: `g.rd` on AR or R, `g.wr` on AW, W or B, `g.ar` the array's last column.
The variables are the registers of the blocks: `rdm` and `wrm` the two FSMs of
the DMA master, `arr` the array (weights, `act_rd_valid`, the perf FSM, the
row being computed), `vec` the vector pipeline, `bram` the memories and their
registered read ports. `Arch` is the architectural state they amount to and
`snap` remembers it at the moment a program is loaded (used only by the
refinement mapping).

**AcceleratorReset** adds a cycle with `soft_reset` high: the control unit's
registers are cleared and the window rewinds, but the start pulses of the
instruction selected in that cycle still reach the engines, and the DMA master,
the array and the vector unit are not reset at all (accelerator.sv connects them
to `s_axi_aresetn` only).

**HostInterface** is `axi4_lite_slave.sv`: `NextWr` its write FSM with the two
independent latches, `NextRd` its read FSM, `NextReg` the registers and the START
bit that clears itself, `NextMem` the instruction memory port with the `!busy` gate of
accelerator.sv. `NextHost` is the host: it writes a program word by word
(INSTR_ADDR, INSTR_DATA), then PROG_LEN, the bases and START, raises its channels in
any order and takes responses whenever it likes. With `POLLS` it then reads STATUS
and takes the first answer without BUSY for the end (the documented sequence); without, it
watches the `done` wire (the testbenches).

**HostedAccelerator** puts the two in one clock: `Clock(g, h)` is a cycle of the core,
the slave and the host together. It does *not* assume what `Accelerator` assumes of
its environment: a start pulse in the middle of a run, or a write that the gate drops,
is a step of this model. `DrivesAccelerator` states that none of it happens, by
checking that `Accelerator`'s `Spec` is implemented.

### Its microcode

**IsaWords** has `Encode` and `Decode` on 32-bit words, as pairs of 16-bit halves
(TLC's integers are signed). **VectorUnit** is the arithmetic of one lane; the sixteen-bit
multiplier and the five-bit shift are numbers, `\div` rounds down like the
arithmetic shift. **FunctionalSim** is the second model of sim.py: the preconditions are
`InOrderMachine`'s, the data are matrices, and every assertion or subscript of `step()` that
would raise is part of `Accepts`.

**GemmProgram** is the generators: `BuildTiledGemmRuns` (one run per column tile,
INIT/ADD/LAST over K), `SingleTile`, `ComputeAddresses` and `CsrWrites`. A job gives a
`bias_base_address` or not (`biased`); without one, the default, the plan has no address for the bias
and the manifest lists each LOAD_BIAS as `UNSET`.
**TiledGemm** is the pipeline around them: `Generate`, `WriteManifest`, `WriteFiles`,
then one step per instruction (`ExecuteInstruction`: bind the padded tile, step the
simulator, collect a STORE), `NextRun` with a fresh accelerator, `Return`. Another size may
then be generated into the same directory.

### The compiler and what runs its output

**OnnxGraph** keeps the classes of operators that the passes tell apart: those that
read all inputs at run time, those whose later inputs are parameters to fold, Shape,
Constant, three that tell the kernels of the runtime apart (none, one that refuses some attributes,
one that takes float32 only), one the compiler does not know. What only
running the model or inference can show is part of the graph: what inference finds out of a
tensor's shape (`ShapeClass`: all of it, its rank, that it has one, nothing) and type (two of different
size, and one that `dtype_size_bytes` does not know), whether a tensor that depends on the pixels has the same value in
the two sample runs of the folding pass (`coincide`), and the Constants whose attribute
`get_constant_array` does not read (`unreadable`). Tensor ids are modelled by their
order, which is what the writers and loaders depend on.

**Extractor** and **Compiler** are `compile_model`: each pass one step, each round of
the dead-code loop one step, each tensor placed one step, each file one step; a pass
that raises ends in `Fail`. The table's sizes follow `build_tensor_table`: the real one, none for an
unknown type, that of one element where there is no shape. `WriteWeights` stops at a constant it cannot
read or whose size is not that of the table, and leaves what it wrote before. `CompileAgain` compiles the same model into the same directory, at most
`MAX_COMPILES` times in all. **MemoryPlanner** is the linear scan; tensors with the same producer are
placed in any order, since the table is built from a Python set of strings.

**Runtime** executes the files that `Compiler` wrote. Memory is bytes, a byte is the
tensor and index it belongs to, and a kernel writes its outputs one byte after the other:
it writes correct bytes exactly while its operands are intact, so an output that shares
memory with an operand is seen to destroy it. `KernelFails` ends the run at an instruction whose kernel returns an error
(`KernelRefuses`). The input file is that of `dump_reference.py`, which runs the model in onnxruntime on one array
of float32 first: what the session accepts is float32 already, so the cast that follows (line 114) changes nothing,
and where the session refuses (`~SessionRuns`) there is no file and the interpreter stops at once (`InputMissing`).
Compiling such a model needs no session if it has no parameters and no open shapes. **OnnxSemantics** evaluates the graph
node by node; it is what the dumps have to implement.

**Verification** abstracts numbers to right and wrong. A faulty kernel gets at least
one output wrong, a sound one may hide a wrong input; a run may stop anywhere and any
dump may be lost; then the faulty kernels, or some of them, are repaired and the
program runs again over the files it left.

Operators whose comment begins with "Mutant" are not used by any specification.
Each is a plausible bug in the definition that follows it, kept so that every
property can be seen to fail when the code is wrong in that way; `PROJECT.json`
pairs them with the properties.

### Discipline of the host

`LoadProgram` is the place where `Accelerator` restricts its environment, and
`NextProgram` in `HostedAccelerator`:

* a program is loaded and started only while no run is under way. For the bus this is
  checked of the host that waits for `done` (`DrivesAccelerator`), not assumed;
* it is legal in program order in the present state, that is, sim.py would not
  raise `SchedulingError`. This excludes a second LOAD_BIAS, which blocks for ever by a
  documented limitation (`tiling.py`, constraint 3). `NeverRejected` shows it of the generators;
* the programs of the instances never load DRAM beats the same program stores.
  DRAM is not a resource of the hazard check, so a load may overtake such a store.

## 3. Properties

| Property | Says |
|---|---|
| `TypeOK` | every register has a value of its width |
| `WindowOrdered` | the window holds fetched instructions in program order, none twice |
| `NoOvertake` | what was issued conflicts with no older instruction still in the window |
| `EnginesTracked` | an engine is BUSY on the scoreboard exactly while its hardware has work |
| `BuffersOwned` | a buffer is FILLING or IN_USE exactly while the engine it belongs to is busy with it |
| `RowsCounted` | the row counter of an activation bank agrees with its state and never wraps |
| `BurstsComplete` | the BRAM-side and bus-side beat counters stay in step; done means all beats |
| `OperandsStable` | an engine's operands and a store's source do not change under it |
| `RunsAreAtomic` | the machine implements `AtomicAccelerator` |
| `RunCompletes` | a run that has started ends |
| `BeatsWithinBurst` | beat counters stay within the burst, whatever soft_reset interrupts |
| `FreshUnlessArrayDone` | soft_reset at rest restores the power-up scoreboard if no completion level is high |
| `RegistersAsWritten` | between writes a register holds the last value written to it, in whatever order the channels moved |
| `ProgramInPlace` | from start to end the window reads the program that was written, at the bases that were set |
| `DrivesAccelerator` | the core behind the bus implements `Accelerator` |
| `DoneMeansQuiet` | after `done` nothing moves until the next start |
| `ProgramsEnd` | a program that a host begins to write is run to its end |
| `CellsExact` | every value stored to C is the reference value, in its place, stored once |
| `NeverRejected` | the simulator accepts every instruction the generators emit |
| `ProductDelivered` | every job ends with all of C |
| `FilesRun` | the files the manifest names decode to the program that runs; every transfer is listed, with its base unless it loads a bias without one |
| `AddressesCover` | the address plan meets every element of each matrix, and of a bias with a base, once |
| `LiveDisjoint` | tensors alive together share no byte |
| `RegionTiled` | the blocks cover the region, each byte once, on the alignment |
| `SortAgrees` | topological_sort fails on cyclic graphs only and agrees with the order check |
| `DeadCodeExact` | exactly the instructions some output needs are left |
| `FailuresExplained` | a compilation fails only for a reason that lies in the model (untranslatable, without a size, unreadable) |
| `SizesTrue` | the planned size of a tensor is its size when the model runs, if inference finds its rank and the extractor knows its type |
| `CompilerReturns`, `ProgramRepeats` | every compilation ends; two of them write the same program and weights |
| `InputsIntact` | whatever an instruction still has to read is intact |
| `ImplementsOnnx` | the dumps are a step-by-step evaluation of the graph |
| `OutputsComplete` | at the end every output is dumped and still in place |
| `RunEnds` | a compiled model runs to its end unless it reaches an instruction that its kernel refuses, or onnxruntime does not run it and there is no input file |
| `FaultLocalised`, `PassMeansSound` | a conclusive failure names the first faulty kernel; a conclusive pass means there is none |
| `NoFalseAlarm` | no sound kernel is accused, even when runs stop early and dumps get lost |
| `VerdictReached` | every round of verification ends |
| `FreshScoreboard`, `IdleWhenNotBusy`, `UnresolvedFails` (a tensor without a size never reaches the planner) | what documents say; **violated**, see section 6 |

`NoOvertake` speaks of pairs of instructions; `RunsAreAtomic` of the outcome. The
second does not follow from the first: it also needs every buffer to be locked for
as long as an engine uses it, the registered reads and the store prefetch to be
aligned, and the resource table to name everything an instruction touches.
`LiveDisjoint` and `ImplementsOnnx` are related in the same way: the first is about
the plan, the second also needs the lifetimes to be those of the program that runs,
and loaders that put every byte where the plan says.

## 4. Runs

| Run | Instance | States | Question |
|---|---|---|---|
| `words` | all legal continuations by 4 instructions of a preamble | 168,172 | all invariants and refinement, when every resource collides |
| `live` | all legal continuations by 3 | 27,191 | does reordering deadlock? |
| `host` | two of four tile programs in a row, over the bus | 3,069 | do two runs driven by the register slave produce the in-order results? |
| `reset` | two short programs, two soft_reset cycles anywhere | 13,830 | what survives a reset in the middle of everything? |
| `tiled_gemm` | 24 sizes, three data sets, bias base or none, two generations | 35,832 | is the product exact, from the size to the simulated result? |
| `planner` | 16,384 tables of five tensors | 170,432 | does reuse ever hand out a live byte? |
| `compile` | all three-node graphs over the operator classes, odd graphs, graphs with tensors that have no size, loose graphs | 157,349 | do the passes and the validators agree? |
| `run` | graphs of six nodes whose lifetimes nest and chain; graphs that stop at a kernel or lack an input | 82,399 | does the interpreter compute the graph in the memory the planner gave it, and where does it stop? |
| `verification` | three instructions, every set of faulty kernels, two runs | 581,524 | can the verdict be trusted? |
| `reset_fresh` | one run, one reset | | is the scoreboard fresh after soft_reset? (violation) |
| `polling` | one run, a host that polls STATUS | | is the run over when BUSY has fallen? (violation) |
| `unresolved` | a chain with a tensor without shape information and one of a type without a size | | does the static-shape check, or anything else, stop them? (violation) |

**Accelerator instances.** `ROWS = 2` and `WINDOW_SIZE = 4`. Two rows are the least at
which an activation bank stays READY after a MATMUL, a bank holds a finished row
while another is being written, and a row index can be wrong. The window has its
real size. The preamble of `words` installs weights, loads bias and rows, computes an
output row and stages the next weights, so that each of the eleven instructions of the
alphabet is legal somewhere among the next four; its instruction memory has just 11
entries, so the fetch pointer saturates. Four free instructions behind a preamble that is
itself partly in flight already put every pair of opcodes into the window together in
both orders. `host` uses two beats per row, so that bursts, prefetch and row boundaries
differ; its programs are the testbench's GEMM, a second tile on the state it leaves with
moved bases, tiling.py's reduction over three K tiles, and a row whose weights are loaded
last. `MAX_RUNS` (1 or 2) counts programs; two suffice to see what a run inherits.
`MAX_RESETS` (2) lets a reset hit the consequences of a reset. `DRAM_BEATS` is the
memory; no program reaches its wrap.

**GEMM instance.** A 2 x 2 array; M in {1, 3}, K in {1, 2, 3, 6}, N in {1, 2, 3}: one and
two row tiles, one to three tiles of K (INIT, ADD and LAST all occur), one and two runs, and full and
ragged edges of each. One data set stays within eight bits, one saturates in
both directions, one goes through an activation table that is injective and not monotonic. The second generation meets the files of every first one.

**Planner and compiler instances.** `ALIGNMENT = 2`, sizes of 0 to 3 bytes: blocks of 0, 2
and 4 bytes, so a block is taken whole, split, or too small. Five tensors suffice for a block to
be split, its parts to be reused and released again, and the region to grow meanwhile; the
theorems cover the rest. `compile` enumerates every three-node graph over the classes (a chain of
two removals needs three) plus graphs for what is special: optional inputs, names that
are both input and initializer or output, cycles, unsupported operators, two model inputs; and a chain
in which the weight, the constant, an activation or the output takes each class of shape with a type without a size, the
constant and an activation are taken for scalars, or the constant cannot be read.
In `run`, an instruction in the middle has no kernel, or one that does not implement its attributes or its type (and
the same with a type that it does implement nearer the end), and three models have two inputs, one of int64, or none.
`MAX_COMPILES = 2` for the second compilation into the same directory.

**Verification instance.** Ids whose order is not the order of execution, an instruction
with two outputs, two names that fall together as file names, a dtype `compare.py` cannot
read, an unknown shape. Two runs: one to leave files behind, one to meet them.

Deadlock is checked wherever the system has no end (`words`, `live`, `host`, `reset`); the compiler,
the interpreter, the planner, the generators and the verification tools do
terminate, and their runs say `CHECK_DEADLOCK FALSE`.

### Fairness

*Accelerator.* `FairSpec` assumes weak fairness of the clock (`Cycle`) and, separately, of a cycle
with a handshake on the read channel, on the write channel, and of a cycle in which
the array finishes. The first is the clock. The next two say the AXI slave answers a
request that stands until answered; `axi4_master.sv` holds its valid and ready
signals until then, so weak fairness is the right form. The last abstracts the
array's fixed depth of `ROWS + COLS` cycles. Nothing is assumed of the host in
`RunCompletes`: it need not load or start anything. For `ProgramsEnd` the host is also
assumed to complete the bus transfers it has begun (`h.aw /\ h.w /\ h.b` infinitely
often), since AXI valid signals stand until accepted. No fairness of issue is needed: an
instruction that may issue is issued by the next cycle.

*Sequential programs.* The generators, the compiler, the interpreter and compare.py are
single processes without waits: weak fairness of their next step (`Work`, `CompilerStep`,
`RuntimeStep`, `Compare`, `DumpReference`) says that they keep running, and in `Verification` that
a run of the program ends in some way (`RunEnds`). Starting another generation or another
round is never assumed.

## 5. Proofs

`tlapm` checks eight modules: `AcceleratorProofs`, `HostedProofs`, `GemmProofs`,
`ExtractionProofs`, `CompilerProofs`, `RuntimeProofs`, `VerificationProofs`, and `Inductions` with
the lemmas that several of them use. Every safety property and every refinement that a run checks
is stated by a theorem, `RunsAreAtomic` excepted.

### The core

For every geometry, window size, instruction memory and set of programs that meet the
named assumptions (`IsaAssumption`, `FifoAssumption`, `HostAssumption`):

* `ScoreboardTyped`: whatever is issued and whatever completes in a cycle,
  `NextScoreboard` returns a record of type `ScoreboardType`. One lemma per issue
  effect and per completion.
* `IssueInvariant`: `Spec => []FifoInv`, with
  `FifoInv == FifoTypeOK /\ WindowOrdered /\ NoOvertake`.
* `WindowStaysOrdered`, `NeverOvertakes`: its two conjuncts of interest.
* `TypeCorrect`: `Spec => []TypeOK`.

`NoOvertake` is not inductive alone. When slot k is popped, every entry in front of
it must be older in program order (else the hazard check would have been made
against the wrong instructions), and the word fetched into the last slot must be
younger than everything issued; both are `WindowOrdered`. That the popped entry is a
fetched instruction and not a slot past the end needs the type of the window and of
the memory. Against that background a pop preserves `NoOvertake` because the scan
checked the popped entry against all entries in front of it (`SelectedIsIndependent`)
and all other pairs were already there (`PopIssues`). A restart empties the set of
issued instructions.

The second part of `AcceleratorProofs` proves, under the same assumptions, that the scoreboard
mirrors the machine:

* `EnginesStayTracked`, `BuffersStayOwned` from `EngineInv == TypeOK /\ EnginesTracked /\
  BuffersOwned`. Neither is inductive without the other: that an engine is not started
  twice needs the buffers it checks to be locked while it works, and that a completion releases the
  right buffer needs the engine to be the one that owns it. Both are strengthened to
  what the registers between scoreboard and engine hold in each phase (the write master's
  registered `done`, the array's level against its delayed copy, the depth of the vector
  pipeline, the weight tile on its way). The proof computes one clock edge register by register:
  `Completions` and `Issues` say what a completion and an issue do to each register,
  `Edges` composes them in source order, `CoreSteps` reduces `Next` to the edges, and then
  each engine has one step.
* `RunsEndAtRest`: between runs no engine works, no completion is in flight. END issues only
  with every engine idle, and nothing but a start follows it.
* `BurstsAreComplete`: bus-side and BRAM-side counters agree with the phase of each burst.
* `RowsStayCounted`: a bank is never READY with no row left, nor EMPTY with one; the
  counter never wraps. It assumes `WholeRows` (a LOAD_ACT brings whole rows and at most a
  bank of them), which the hardware does not check and the generators guarantee (`LoadActRow`
  emits single rows of one tile); `MCAccelerator` has TLC evaluate it for its programs.
* `OperandsStayStable`: the action property. What an engine reads is locked by `BuffersOwned`,
  and nobody writes a locked buffer but its owner.

Its last part redoes `NoOvertake` and `TypeOK` for `SpecR`, with soft_reset in any
cycle and any number of times (`ResetNeverOvertakes`, `ResetTypeCorrect`), with one more
case in each inductive step. `ResetKeepsBurstBounds` needs `TypeOK`: a beat is counted only while
the counter is below its total. `FreshAfterReset` proves the part of tiling.py's claim
that holds: from such a reset to the next start (`FreshInv`) the engines stand still and
only the array's completion level can touch the scoreboard.

### The core behind its registers

`HostedProofs` proves, for every set of programs and configurations, a host of either kind and
any timing of the five channels:

* `RegistersStayAsWritten`, from `PathInv`: what the host still has to write, what the channels
  and the slave's two latches hold, and what the registers hold together make up the
  script of the program, in order.
* `RegistersDriveAccelerator`: `HostedSpec => DrivesAccelerator`, a refinement. Each clock cycle
  of core, slave and host together is a step of `Accelerator` or leaves the core alone. This
  needs `HostInv`: while a program is being written the core is at rest (so the
  `!busy` gate is open and no word is dropped), the words that have arrived are a
  prefix of the program, and the start pulse comes after the last of them. It holds for a polling host
  too, up to the point where it takes a run for finished too early: the steps of a host that then
  writes into the run are not part of `HostedNext` (section 6).
* `ProgramStaysInPlace`, `DoneStaysQuiet`: from `HostInv`.
* `WatchingDoneIsSafe`: for a host that watches `done`, the statement that `polling` refutes for
  one that polls.
* `HostedCoreKeepsItsPromises`: every invariant proved of `Accelerator` holds of the core behind
  its registers; the refinement carries them over.

### The generated GEMM programs

For every size in positive numbers (`SizeAssumption`, which is `GemmParams`' own assertion), all integer
matrices and settings of the vector unit (`DataAssumption`), every array size, a bias base address or none, and both the tiled and
the single-tile program:

* `TiledNeverRejected`: `Spec => []NeverRejected`. No assertion of sim.py's `step()` fails.
* `TiledCellsExact`: `Spec => []CellsExact`. Every cell of C that has been collected is the element of
  the product, collected once.
* `TiledProductWhole`: a finished run has collected all of C.
* `TiledFilesRun`: `RowsFit => (Spec => []FilesRun)`. The files hold the program that runs, and the manifest leaves a base
  unset exactly for a LOAD_BIAS without a bias base. `RowsFit` says
  that an array has at most 256 rows (the code's has 16): a row number has eight bits in a word, and
  isa.py (lines 118-124) asserts that every field holds its value.
* `TiledAddressesCover`: `Spec => []AddressesCover`. The address plan meets every element of each matrix
  once, at its row-major address; without a bias base it has no address of the bias, and every transfer but
  LOAD_BIAS has one.

A size enters `MCGemmCompiler` as one of a few; the theorems say that nothing special happens at
another one. The invariant `GemmInv` locates the run: `Here` (and `SingleHere`) lists the places of a
program (head, tile n of row r of row tile i, VECTOR, STORE, END) with the instruction that comes
next and what each memory of the simulator holds there. `Proceeds` says that this instruction is accepted
and leads to the next place. Six things carry it, the last two for the files and the addresses:

* *Positions.* A program is a concatenation of concatenations of unequal parts. `FlattenAt` gives
  the position of every element when all parts but the last have equal length, and
  `ReductionAt`, `RowAtPosition` and `RunAtPosition` apply it inside out; the result is the
  instruction at every position in closed form.
* *The machine.* One lemma per opcode states what `Perform` changes and keeps, with the condition
  under which `Accepts` holds (`LoadsWeights` ... `Ends`).
* *Sums.* After n tiles of K an accumulator row is the sum of the first n * P padded products
  (`Partial`); `SumSplit` adds a tile and `SumPadded` drops the padding.
* *Cells.* The tiles stored so far are a region of C (`Region`), to which a STORE adds a tile's cells
  that were not there (`Collects`).
* *Words.* `EncodingInverse` inverts `Encode` for every instruction other than SET_BASE whose fields fit,
  and `RunOf` says that a run is made of the steps that the generator appends and no others, so a
  property of each of them (it survives its encoding; it has a tile exactly if it is a transfer; its
  tile is in the plan) is one of the run.
* *Counting.* `RowMajor` makes elements at the rows and columns of a matrix a bijection onto its
  addresses, and `SpotsCover` applies it to rows and columns that are a tile and a place in it.

`SumTo` and FlattenSeq are recursive functions. What they compute is derived in `Inductions` from
the well-foundedness of the natural numbers: the induction is over a *set* of numbers (`Induct`), and
the recursion is the existence of a chain of values (`Recursion`), so no theorem with an operator
parameter is needed.

### The memory planner

The first part of `CompilerProofs` is about the planner alone, for every finite table of tensors with any sizes and lifetimes
in which a consumer comes after its producer (`WellFormed`), every alignment
(`AlignmentAssumption`), and every order of tensors with equal producers:

* `LiveTensorsDisjoint`: `PlanSpec => []LiveDisjoint`.
* `RegionIsTiled`: `PlanSpec => []RegionTiled`.

`LiveDisjoint` speaks of the offsets handed out, and nothing in it says where the free
memory is; it is far from inductive. The invariant `PInv` adds the link: an
active block is that of its owner (`Owned`); a placed tensor either has an active block or
is dead for every tensor still to come (`Accounted`, which needs `InProducerOrder`: what
has died stays dead because producers only grow); and all blocks together tile the region
(`Tiles`). A new tensor then gets a part of a free block or new memory at the end; every
tensor it is alive together with still has its active block, which is a different
block and hence disjoint. That growing and splitting keep the tiling is stated on sets of
blocks (`GrowTiles`, `SplitTiles`) and used for both ways of placing (`PlaceTiles`). That
every block begins on the alignment rests on `AlignRounds` and `MultiplesAdd`.

### The compiler's passes

The theorems have one hypothesis about the model being compiled, which the code establishes;
`MCCompiler` and `MCRuntime` have TLC evaluate it for the graphs of the runs:

* `OnnxModel(graph)`: names are assigned once and a Constant has one output and no input. The
  loader calls `onnx.checker.check_model` (`onnx_loader.py:36`), which raises otherwise.

With it, for graphs of every length, shapes and types of every class, any alignment and any number of compilations:

* `SortAgreesAlways`: `[]SortAgrees`. `LoopInv` says of Kahn's loop what each in-degree still counts, that
  the queue holds exactly what is ready, and that nothing is emitted twice or too early; each
  round emits one node (`RoundPops`). When the queue is empty each node left waits for another one left (`RejectedIsCyclic`);
  of the nodes of a cycle none can be emitted first (`CyclicIsRejected`). An order that the validator
  accepts has no cycle, since the least position in one would depend on a smaller one.
* `DeadCodeIsExact`: `[]DeadCodeExact`. `Needed` is the least set of nodes that supplies the outputs and
  itself. What the loop has kept after any number of rounds (`Pruning`) contains it, and a round that
  removes nothing has reached such a set: among the nodes kept but not needed the last in the
  stored order would have no reader left, hence there is none. The stored order enters here:
  with a cycle of dead nodes the loop would keep them.

* `SizesAreTrue`: `[]SizesTrue`. The size in the table is a function of the model (`TableSize`), which is the true size
  where inference finds the rank and the type has a size (`TableSizes`). `FailuresAreExplained`: `[]FailuresExplained`.
* `RecompilationRepeats`: `ProgramRepeats`, an action property.

None of the last three is inductive, because each speaks of what one pass finds and several passes
made it. The invariant is a chain, one member per stretch of passes: `ExtractionInv` (order, ids,
folded names and instructions are functions of the model: `TensorIds`, `Program`), `TableInv` (so is the
tensor table, after every pass that changes it: `FirstTable`, `Resolved`, `FinalTable`), `PlanInv` (the
planner's `PInv` while it places, and a complete plan afterwards, `AllPlaced`) and `FilesInv` (each file is
absent or what this model compiles to). Offsets are not a function of the model (the order of
equal lifetimes is open); that the program and the weights are is what makes recompilation
repeat. Each validator accepts because its condition is a fact about these functions: what
an instruction reads is produced before it (`ReadsAreAvailable`), is in the
table (`ReferencedIsTabled`) and has a shape; and the activations of the plan are disjoint by
`PInv`, the persistent regions because their offsets are running sums.

Sequences filtered by a comprehension are `Sublist(s, K)`, with K the set of positions kept.
`AscendingLists` shows that `Ascending(K)` enumerates K in order, by the rank of each element, and
`SublistOf` that a sublist has exactly the elements at K in their order. These two replace any
induction over a filter.

### The run

Two more hypotheses, which MCRuntime evaluates too. `SessionRuns`: exactly one input that is not an initializer, of type
float32. The input file the interpreter loads comes from `dump_reference.py`, which gives onnxruntime one such array
(lines 61-79); a model with none, several or another type raises there (`inputs[0]`, a missing feed, a type that does not
match), and no input file is written. `AllSized`: inference finds the rank of every tensor of the table and the
extractor knows the size of its type, since otherwise the plan is wrong to begin with (`unresolved`).
For every such model, every length of its program and every kernel that refuses:

* `InputsStayIntact`: `[]InputsIntact`, `OutputsAreComplete`: `[]OutputsComplete`.
* `RunImplementsOnnx`: `Spec => ImplementsOnnx`, the refinement of `OnnxSemantics`. Compilation, loading
  and every byte written by a kernel are stutters; the completion of instruction k is the evaluation
  of the node it came from.

The memory map of a compiled model is summed up in `Layout`: regions, sizes and offsets
as the runtime loads them, any two tensors of a region without a common byte, activations
only if their lifetimes meet. It follows from `PlanInv` and `FilesInv`. `RuntimeInv` then has three parts
that carry the run. `Room`: no tensor ends beyond its arena. `RegionHolds`: each
loader leaves its region complete, because the file was written in the order and with the sizes in which
it is read (`WeightOrder`, running sums again). `Progress`: the instructions before `pc` have dumped
the bytes of their outputs; those outputs that are still needed (read at or after `pc`, or kept
to the end) stand in memory; and so do the bytes that the kernel in progress has written. A byte
written by a kernel can only destroy what shares its address, and by `Layout` such a tensor is one
whose life is over. That a kernel's outputs do not overwrite its operands is the case
of lifetimes that meet in this very instruction (planner: `DeadBefore` is strict).

### The verdict

For every program, tensor table and assignment of file names that is `WellFormed`, every set
of faulty kernels, and every way in which runs stop and dumps get lost:

* `PassIsSound`, `FaultIsLocalised`, `NoKernelIsAccused`.

The invariant `VerdictInv` has one part per stage: a wrong value in memory or in a
fresh dump has a faulty kernel at or before its producer (`MemoryInv`, `FreshInv`), the
references are those of the model (`ReferenceInv`), and the tallies of compare.py are those of
the files compared so far, the first failure being the first in the order of
`Activations` (`TallyInv`). That order is a sort by producer and id. A sort is a recursive
computation, so `Activations` is stated by ranks: position k holds the tensor with k - 1 others
before it. `RanksNumber` shows that ranks leave no gap (an injection from a finite set into an equally
large one is onto), and `ActivationsSorted` that the sequence is strictly increasing and complete. First
means least, by well-foundedness of the naturals (`LeastOf`, `GreatestOf`).

### Only model-checked

* Liveness (`RunCompletes`, `ProgramsEnd`, `CompilerReturns`, `RunEnds`, `VerdictReached`, and that a job of
  `ProductDelivered` ends at all), since the prover handles neither fairness nor ENABLED.
* The refinement `RunsAreAtomic`, whose abstract side executes a whole program in one
  recursive computation, against a machine in which instructions overlap and finish out of order:
  the proof would have to say for every reachable window what the in-order machine has computed after every
  prefix. Its premises are proved: hazard freedom, ownership of buffers, complete bursts and
  stable operands.

## 6. What the checks found

`reset_fresh`: tiling.py (lines 109-112) relies on soft_reset giving "a fresh
accelerator scoreboard state". It does not after a MATMUL has completed. The array
holds `perf_valid` high from the end of a row to the start of the next, soft_reset
does not reach the array, but it does clear `array_done_d`, the register that turns
this level into an edge. In the first cycle after the reset the control unit sees a
completion that never happened: the accumulator becomes READY, the row counter of
bank 0 wraps below zero and accumulator row 0 is written again. From there a MATMUL
that starts a tile waits for an EMPTY accumulator. The simulator cannot show this: it
gets its fresh state by constructing a new object. `FreshUnlessArrayDone` is the part
of the statement that holds.

`polling`: the register documentation tells the host to poll STATUS until BUSY deasserts,
and accelerator.sv (line 218) describes `busy` as the state of the run. `busy` is
computed from the engines and the issue of the cycle (control_unit.sv:1016-1021), so it
falls in the middle of a run whenever no engine works and nothing can issue, for instance
in the cycle between the end of a weight load and the tile's arrival on the weight bus. A
polling host then takes the run for finished, and the `!busy` gate lets it write into the
program under execution. A host that waits for `done` is safe (`ProgramInPlace`,
`DoneMeansQuiet`).

`unresolved`: the compiler's README (lines 291-293) says that a tensor whose shape stays unresolved
fails compilation, and a comment in tensors.py (lines 66-67) that a tensor without a shape or with an
unknown dtype makes extraction raise later if it is needed. A tensor about which shape
inference says nothing at all gets the shape `[]`, which counts as static: it is planned as a scalar of four bytes. A
tensor of a type that `dtype_size_bytes` does not know gets a size of zero (lines 76-79), and if
its shape is static no later pass looks at it again: it shares its place in the arena. Only one whose shape
a sample run has to resolve raises (`extractor.py:78`), and a weight of this
kind fails the assertion of the weights writer. `SizesTrue` states what holds of the tensors that can be sized.

Seen while modelling, without a run of their own:

* `done` is high only in the cycle in which END issues, and `busy` is high in that cycle
  too; the sequence "BUSY = 0, then DONE = 1" of `axi4_lite_slave.md` can never be read.
* A burst abandoned by soft_reset delivers its remaining beats to the next load, whose own
  start pulse the master ignores (`AcceleratorReset`).
* Constant folding takes a value for constant when two random inputs agree on it
  (`constant_folding.py:105`). A value that depends on the pixels and is equal for both is
  folded; the model allows it (`coincide`) and no check can exclude it.
* The tensor table is built from a Python set of strings (`tensors.py:57`). Offsets of
  tensors with equal lifetimes depend on the hash seed; the instructions and sizes do
  not (`ProgramRepeats`).
* Reference files are named after tensors with `/` replaced by `_`
  (`dump_reference.py:82`); two names may fall together. `Distinct` in `Verification` is
  the condition under which a verdict means something.
* A dump file that cannot be opened is skipped (`main.c:78`), and `compare.py` compares
  what it finds, files of earlier runs included. `Conclusive` names what a reader of the
  verdict has to know.

## 7. Not modelled

* IMG_DIM and VEC_CTRL as registers of the slave (they behave like the others), byte
  strobes, reads of registers other than STATUS, `fsm_state`, soft_reset together with a
  start pulse.
* DMA error responses and an early `rlast`: the control unit ignores the first, the
  second is a fault of the AXI slave outside.
* Opcodes outside the enumeration, and bits `src[1]`, `dst[1]` of the bank fields, in the
  hardware models; `FilesRun` shows that the generators emit neither.
* The skew pipeline of the systolic array (one uninterpreted dot product per row there;
  its numbers are checked in `FunctionalSim`) and the order of lanes inside a beat.
* 64-bit intermediates of the vector unit: the values of the instances stay far below them, so
  their wrap-around is not exercised.
* Which attributes and types each kernel of the runtime refuses: an operator of the class "Ellipsis" stands for a kernel given
  attributes it does not implement (Einsum with an ellipsis, Resize with cubic interpolation), "Clip" for
  one given a type it does not implement, and nothing else refuses in the model.
* Attributes of operators, values of folded parameters and floating-point kernels; the DOT
  and trace writers, `.asm` listings and the wording of the manifest.
* The detection front end: image files and floating-point post-processing.
* A manifest executed by real software: the repository has no driver for it.

## 8. Plan

1. *(done)* The accelerator's core and its refinement to in-order execution; soft_reset.
2. *(done)* Host interface: register slave and host, composed with the core.
3. *(done)* Microcode: encoding, generators, simulated execution, files.
4. *(done)* Compiler, planner, interpreter and verification tools; the planner proved.
5. *(done)* One inductive invariant for the scoreboard and the engines, and from it the
   stability of operands; the register slave and the refinement behind it; the verdict; the
   generated programs, their files and their addresses.
6. *(done)* The compiler's passes, sort, dead code, table and files for every model; the loaders and
   kernels on the plan; the refinement of the ONNX semantics.
7. To prove, if needed: `RunsAreAtomic`, by an invariant that relates each issued instruction to
   the in-order machine's state at its place.
8. To model, if needed: the DMA master with errors as a component of its own, and the skew
   pipeline of the array against the matrix product.
