---------------------------- MODULE MCAccelerator ---------------------------
(***************************************************************************)
(* A small accelerator for TLC and programs for it.  DRAM is laid out as   *)
(* two weight tiles, two activation tiles, two bias vectors and the output *)
(* region; a third weight tile overlaps the activations, read only.        *)
(***************************************************************************)
EXTENDS Accelerator

SmallCSR ==
  [k \in Base |-> CASE k = BASE_WGT  -> 0
                   [] k = BASE_ACT  -> 2 * WGT_BEATS
                   [] k = BASE_BIAS -> 2 * WGT_BEATS + 2 * ACT_BEATS
                   [] k = BASE_OUT  -> 2 * WGT_BEATS + 2 * ACT_BEATS + 2 * BIAS_BEATS]

(* The single-tile GEMM of tb_gemm_program_load.sv and, on the state it
   leaves (bias and weights still valid), a second tile that moves the
   activation and output bases, loads the weights of another layer into the
   buffer and works in the other banks. *)
Gemm ==
  <<NOP, LOAD_WGT(0, WGT_BEATS - 1), LOAD_ACT(0, 0, ACT_BEATS - 1),
    LOAD_BIAS(0, BIAS_BEATS - 1), SWAP_WGT,
    MATMUL(0, 0, "NONE"), VECTOR(0, 0), MATMUL(0, 1, "NONE"), VECTOR(0, 1),
    STORE(0, 0, OUT_BEATS - 1)>>
NextTile ==
  <<SET_BASE(BASE_ACT, ACT_BEATS), LOAD_ACT(1, 0, ACT_BEATS - 1),
    SET_BASE(BASE_OUT, OUT_BEATS), LOAD_WGT(WGT_BEATS, WGT_BEATS - 1),
    MATMUL(1, 0, "NONE"), SWAP_WGT, VECTOR(1, 0), MATMUL(1, 1, "NONE"),
    VECTOR(1, 1), STORE(1, 0, OUT_BEATS - 1)>>

(* tiling.py's reduction of one output row over three tiles of K, each with
   its own weights and its own activation row.  SET_BASE moves the bases where
   the generator counts on fresh data at the same address; consecutive tiles
   alternate between the activation banks. *)
KTile(kt, ctrl) ==
  <<SET_BASE(BASE_WGT, kt * WGT_BEATS), SET_BASE(BASE_ACT, kt * BEATS_PER_ROW),
    LOAD_WGT(0, WGT_BEATS - 1), LOAD_ACT(kt % 2, 0, BEATS_PER_ROW - 1),
    SWAP_WGT, MATMUL(kt % 2, 0, ctrl)>>
Tiled ==
  <<LOAD_BIAS(0, BIAS_BEATS - 1)>>
    \o KTile(0, "INIT") \o KTile(1, "ADD") \o KTile(2, "LAST")
    \o <<VECTOR(0, 0), STORE(0, 0, BEATS_PER_ROW - 1)>>

(* A row whose weights are loaded last: nothing else is left to do in the
   cycle between the end of the load and the first cycle SWAP_WGT can issue. *)
WeightsLast ==
  <<LOAD_BIAS(0, BIAS_BEATS - 1), LOAD_ACT(0, 0, BEATS_PER_ROW - 1),
    LOAD_WGT(0, WGT_BEATS - 1), SWAP_WGT, MATMUL(0, 0, "NONE"), VECTOR(0, 0),
    STORE(0, 0, BEATS_PER_ROW - 1)>>

TilePrograms == {Gemm, NextTile, Tiled, WeightsLast}

(* Every legal program that continues the preamble by three or four
   instructions of an alphabet that makes all the resources collide.  The
   preamble installs weights, loads a bias and two activation rows, computes
   the first output row and stages the next weights. *)
Preamble ==
  <<LOAD_WGT(0, 1), LOAD_ACT(0, 0, 1), LOAD_BIAS(0, 0), SWAP_WGT,
    MATMUL(0, 0, "NONE"), VECTOR(0, 0), LOAD_WGT(2, 1)>>
Alphabet ==
  {LOAD_ACT(1, 2, 0), LOAD_ACT(0, 3, 0), LOAD_WGT(0, 1), SWAP_WGT,
   MATMUL(0, 0, "NONE"), MATMUL(0, 1, "INIT"), MATMUL(1, 0, "LAST"),
   VECTOR(0, 0), VECTOR(0, 1), STORE(0, 0, 1), SET_BASE(BASE_ACT, 1)}
Longer(progs) ==
  {p \in {Append(q, i) : q \in progs, i \in Alphabet} : CanRun(PowerUp, p)}
ShortWords == Longer(Longer(Longer({Preamble})))
LongWords == Longer(ShortWords)

(* What the proof of RowsCounted asks of the programs holds of these. *)
ASSUME ProgramsAreWhole == WholeRows
=============================================================================
