------------------------------ MODULE TiledGemm -----------------------------
(***************************************************************************)
(* From a size to a product: generate_gemm and write_program produce the   *)
(* files, execute_tiled_program (or execute_microcode, for the single-tile *)
(* program) steps the simulator through the runs with each transfer bound  *)
(* to its zero-padded tile, and collects C.  Then another size may be      *)
(* generated into the same directory.                                      *)
(***************************************************************************)
EXTENDS GemmProgram, FunctionalSim

CONSTANTS
  Sizes,          \* the sizes [M, K, N] asked for
  DataSets,       \* the matrices and vector unit settings, [A, B, bias, vec]
  MAX_GENERATIONS \* bound on sizes generated in a behaviour

ASSUME SizeAssumption == Sizes \subseteq [M : Nat \ {0}, K : Nat \ {0}, N : Nat \ {0}]

ASSUME DataAssumption ==
  \A d \in DataSets :
    /\ d.vec.mult \in Nat /\ d.vec.mult < 2^16 /\ d.vec.shift \in 0..31 /\ d.vec.act \in ActType
    /\ \A p \in Sizes : \A k \in 0..p.K - 1 :
         /\ \A r \in 0..p.M - 1 : d.A[r][k] \in Int
         /\ \A c \in 0..p.N - 1 : d.B[k][c] \in Int

VARIABLES
  phase,          \* "generate", "write", "files", "run", "done", "rejected"
  size,
  single,         \* the single-tile program is run instead of the tiled one
  biased,         \* a bias_base_address is given
  data,           \* contents of A, B and bias and the vector unit's settings
  runs,           \* programs, one per start
  dir,            \* files written: the manifest (base writes per run), words per run
  at,             \* run and instruction executed next
  machine,        \* the simulated accelerator
  C,              \* the result: <<row, column>> -> values stored there
  generations

vars == <<phase, size, single, biased, data, runs, dir, at, machine, C, generations>>
job == <<size, single, biased, data, generations>>

Init ==
  /\ phase = "generate" /\ size \in Sizes /\ data \in DataSets /\ generations = 1
  /\ biased \in BOOLEAN
  /\ single \in {b \in BOOLEAN : b => size.M <= P /\ size.K <= P /\ size.N <= P}
  /\ runs = <<>> /\ dir = [manifest |-> <<>>, hex |-> <<>>]
  /\ at = [run |-> 1, pc |-> 1] /\ machine = Fresh /\ C = <<>>

-----------------------------------------------------------------------------
(* A matrix of the data has more rows and columns than any size uses. *)
Element(m, r, c, rows, cols) == IF r < rows /\ c < cols THEN m[r][c] ELSE 0

PaddedWeightTile(kt, j) ==
  [r \in Row |-> [c \in Row |-> Element(data.B, kt * P + r, j * P + c, size.K, size.N)]]
(* Mutant: the row is counted within the tile. *)
PaddedActRowLocal(i, r, kt) ==
  [a \in Row |-> [c \in Row |->
     IF a = r THEN Element(data.A, r, kt * P + c, size.M, size.K) ELSE 0]]
PaddedActRow(i, r, kt) ==
  [a \in Row |-> [c \in Row |->
     IF a = r THEN Element(data.A, i * P + r, kt * P + c, size.M, size.K) ELSE 0]]
PaddedBiasTile(j) == [c \in Row |-> IF j * P + c < size.N THEN data.bias[j * P + c] ELSE 0]

(* execute_microcode pads both matrices once. *)
Padded(m, rows, cols) == [r \in Row |-> [c \in Row |-> Element(m, r, c, rows, cols)]]
LoadSources ==
  [Fresh EXCEPT !.dramWeight = Padded(data.B, size.K, size.N),
                !.dramAct = Padded(data.A, size.M, size.K), !.dramBias = PaddedBiasTile(0)]

Bind(s, tile) ==
  CASE tile = NoTile -> s
    [] tile # NoTile /\ tile[1] = "weight" ->
         [s EXCEPT !.dramWeight = PaddedWeightTile(tile[2], tile[3])]
    [] tile # NoTile /\ tile[1] = "act" ->
         [s EXCEPT !.dramAct = PaddedActRow(tile[2], tile[3], tile[4])]
    [] tile # NoTile /\ tile[1] = "bias" -> [s EXCEPT !.dramBias = PaddedBiasTile(tile[2])]
    [] tile # NoTile /\ tile[1] = "store" -> s

(* The slice of C that a stored row tile goes to; a cell keeps every value
   ever stored to it, the last one first. *)
Cells(i, j, rows, cols) == {<<i * P + r, j * P + c>> : r \in 0..rows - 1, c \in 0..cols - 1}
Collected(out, i, j) ==
  LET cells == Cells(i, j, InTile(size.M, i), InTile(size.N, j))
      Stored1(cell) == out[cell[1] - i * P][cell[2] - j * P]
      Before(cell) == IF cell \in DOMAIN C THEN C[cell] ELSE <<>>
  IN  [cell \in DOMAIN C \cup cells |->
         IF cell \in cells THEN <<Stored1(cell)>> \o Before(cell) ELSE C[cell]]
-----------------------------------------------------------------------------
Programs == IF single THEN <<SingleTile(size)>> ELSE BuildTiledGemmRuns(size)

(* The single-tile program goes to the simulator without any file. *)
Generate ==
  /\ phase = "generate"
  /\ runs' = Programs
  /\ phase' = IF single THEN "run" ELSE "write"
  /\ machine' = IF single THEN LoadSources ELSE Fresh
  /\ UNCHANGED <<job, dir, at, C>>

(* write_program: the manifest with the base address the host sets before
   each transfer, then one file per run; files of an earlier program with more
   runs stay. *)
WriteManifest ==
  /\ phase = "write"
  /\ dir' = [dir EXCEPT !.manifest =
                 [j \in DOMAIN runs |-> CsrWrites(runs[j], ComputeAddresses(size, biased))]]
  /\ phase' = "files"
  /\ UNCHANGED <<job, runs, at, machine, C>>

(* Mutant: files that exist are kept. *)
WriteFilesOnce ==
  /\ phase = "files"
  /\ dir' = [dir EXCEPT !.hex = [j \in DOMAIN @ \cup DOMAIN runs |->
                 IF j \in DOMAIN @ THEN @[j] ELSE EncodeProgram(runs[j])]]
  /\ phase' = "run"
  /\ UNCHANGED <<job, runs, at, machine, C>>
WriteFiles ==
  /\ phase = "files"
  /\ dir' = [dir EXCEPT !.hex = [j \in DOMAIN @ \cup DOMAIN runs |->
                 IF j \in DOMAIN runs THEN EncodeProgram(runs[j]) ELSE @[j]]]
  /\ phase' = "run"
  /\ UNCHANGED <<job, runs, at, machine, C>>

Current == runs[at.run][at.pc]

(* One instruction: its source is bound, the simulator steps, and a STORE's
   rows are copied out and dropped. *)
ExecuteInstruction ==
  /\ phase = "run" /\ at.run <= Len(runs) /\ at.pc <= Len(runs[at.run])
  /\ LET bound == Bind(machine, Current.tile)
         ran == Perform(bound, Current.ins, data.vec)
     IN  IF Accepts(bound, Current.ins)
         THEN /\ at' = [at EXCEPT !.pc = @ + 1]
              /\ IF Current.ins.op = "STORE"
                 THEN /\ machine' = [ran EXCEPT !.dramOut = IF single THEN @ ELSE NoData]
                      /\ C' = IF single THEN C
                              ELSE Collected(ran.dramOut, Current.tile[2], Current.tile[3])
                 ELSE machine' = ran /\ UNCHANGED C
              /\ UNCHANGED phase
         ELSE phase' = "rejected" /\ UNCHANGED <<at, machine, C>>
  /\ UNCHANGED <<job, runs, dir>>

(* Mutant: the accelerator of the last run is kept. *)
NextRunKeepsMachine ==
  /\ phase = "run" /\ at.run <= Len(runs) /\ at.pc > Len(runs[at.run])
  /\ at' = [run |-> at.run + 1, pc |-> 1]
  /\ machine' = [machine EXCEPT !.ended = FALSE]
  /\ C' = IF single THEN Collected(machine.dramOut, 0, 0) ELSE C
  /\ UNCHANGED <<job, phase, runs, dir>>
(* Every run starts on a fresh accelerator. *)
NextRun ==
  /\ phase = "run" /\ at.run <= Len(runs) /\ at.pc > Len(runs[at.run])
  /\ at' = [run |-> at.run + 1, pc |-> 1]
  /\ machine' = Fresh
  /\ C' = IF single THEN Collected(machine.dramOut, 0, 0) ELSE C
  /\ UNCHANGED <<job, phase, runs, dir>>

Return ==
  /\ phase = "run" /\ at.run > Len(runs)
  /\ phase' = "done"
  /\ UNCHANGED <<job, runs, dir, at, machine, C>>

GenerateAnother ==
  /\ phase = "done" /\ generations < MAX_GENERATIONS
  /\ size' \in Sizes /\ single' = FALSE /\ biased' \in BOOLEAN /\ generations' = generations + 1
  /\ phase' = "generate"
  /\ runs' = <<>> /\ at' = [run |-> 1, pc |-> 1] /\ machine' = Fresh /\ C' = <<>>
  /\ UNCHANGED <<data, dir>>

Work == Generate \/ WriteManifest \/ WriteFiles \/ ExecuteInstruction \/ NextRun \/ Return
Next == Work \/ GenerateAnother
Spec == Init /\ [][Next]_vars /\ WF_vars(Work)
-----------------------------------------------------------------------------
(* reference_gemm, with bias and the vector unit. *)
Expected(r, c) ==
  Lane(SumTo([k \in 0..size.K - 1 |-> data.A[r][k] * data.B[k][c]], size.K),
       data.bias[c], data.vec)

(* Every value ever stored to C is the right one, at its right place, and no
   cell is stored twice: whatever the sizes, tiles at the edges included, no
   row tile leaks the padding or the data of another tile. *)
CellsExact ==
  \A cell \in DOMAIN C :
    /\ cell[1] < size.M /\ cell[2] < size.N
    /\ C[cell] = <<Expected(cell[1], cell[2])>>

(* The generated programs respect the accelerator's preconditions throughout:
   the simulator never raises. *)
NeverRejected == phase # "rejected"

(* Each job ends, with every cell of C stored. *)
ProductDelivered ==
  []<>(phase = "done" /\ DOMAIN C = (0..size.M - 1) \X (0..size.N - 1))

(* The files that the manifest announces decode to the programs that the
   simulator runs, whatever an earlier generation left in the directory.  The
   manifest has an entry for every transfer of theirs and for no other
   instruction; it names a base in each, except that the base of the bias is
   unset when none was given. *)
FilesRun ==
  phase \in {"run", "done"} /\ ~single =>
    /\ DOMAIN dir.manifest = DOMAIN runs
    /\ \A j \in DOMAIN runs :
         LET decoded == [k \in DOMAIN dir.hex[j] |-> Decode(dir.hex[j][k])]
             writes == dir.manifest[j]
         IN  /\ decoded = [k \in DOMAIN runs[j] |-> runs[j][k].ins]
             /\ DOMAIN writes = {k \in DOMAIN decoded : decoded[k].op \in LoadOp \cup {"STORE"}}
             /\ \A k \in DOMAIN writes :
                  writes[k].value = UNSET <=> decoded[k].op = "LOAD_BIAS" /\ ~biased

(* The address plan covers every matrix exactly: walking each tile by its
   stride meets every element of B, A, C and a bias that has a base once, at
   its row-major address, and every transfer of the programs has its address in
   the plan, unless it loads a bias without a base. *)
WalkedRows(p, t) ==
  CASE t[1] = "weight" -> InTile(p.K, t[2]) [] t[1] = "store" -> InTile(p.M, t[2])
    [] t[1] = "act" -> IF t[2] * P + t[3] < p.M THEN 1 ELSE 0 [] OTHER -> 1
WalkedColumns(p, t) ==
  CASE t[1] = "weight" -> InTile(p.N, t[3]) [] t[1] = "store" -> InTile(p.N, t[3])
    [] t[1] = "act" -> InTile(p.K, t[4]) [] OTHER -> InTile(p.N, t[2])
Walked(p, t, plan) ==
  {<<t, r, c, plan[t].addr + r * plan[t].stride + c>> :
     r \in 0..WalkedRows(p, t) - 1, c \in 0..WalkedColumns(p, t) - 1}
Elements(p, kind, plan) == UNION {Walked(p, t, plan) : t \in {u \in DOMAIN plan : u[1] = kind}}
Covers(p, kind, n, plan) ==
  /\ {e[4] : e \in Elements(p, kind, plan)} = 0..n - 1
  /\ Cardinality(Elements(p, kind, plan)) = n

AddressesCover ==
  phase = "files" =>
    LET plan == ComputeAddresses(size, biased)
    IN  /\ Covers(size, "weight", size.K * size.N, plan)
        /\ Covers(size, "act", size.M * size.K, plan)
        /\ Covers(size, "bias", IF biased THEN size.N ELSE 0, plan)
        /\ Covers(size, "store", size.M * size.N, plan)
        /\ \A j \in DOMAIN runs : \A k \in DOMAIN runs[j] :
             LET tile == runs[j][k].tile
             IN  tile # NoTile /\ (tile[1] = "bias" => biased) => tile \in DOMAIN plan
=============================================================================
