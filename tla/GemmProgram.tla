---------------------------- MODULE GemmProgram -----------------------------
(***************************************************************************)
(* The microprogram generators: tiling.py, gemm_compiler.py and the        *)
(* single-tile program of sim.py.  A size p is a record of M, K and N; the *)
(* array has P rows and columns and one DMA beat holds one row.            *)
(*                                                                         *)
(* A program is a sequence of steps: an instruction with the tile that its *)
(* DMA transfer concerns (LoadMeta and StoreMeta, NoTile for the others).  *)
(***************************************************************************)
EXTENDS IsaWords, SequencesExt

P == ROWS

CeilDiv(a, b) == (a + b - 1) \div b
Tiles(x) == 0..CeilDiv(x, P) - 1
InTile(x, t) == IF x - t * P < P THEN x - t * P ELSE P

NoTile == <<>>
Do(i) == [ins |-> i, tile |-> NoTile]
With(i, tile) == [ins |-> i, tile |-> tile]

Concat(n, Item(_)) == FlattenSeq([t \in 1..n |-> Item(t - 1)])
-----------------------------------------------------------------------------
(* build_tiled_gemm_runs *)
LoadWeights(kt, j) == With(LOAD_WGT(0, P - 1), <<"weight", kt, j>>)
LoadRow(i, r, kt) == With(LOAD_ACT(0, r, 0), <<"act", i, r, kt>>)

(* Mutant: the last tile of a long reduction leaves the row open. *)
CtrlNeverLast(p, kt) == IF kt = 0 THEN "INIT" ELSE "ADD"
CtrlOf(p, kt) ==
  IF kt = 0 THEN "INIT" ELSE IF kt = CeilDiv(p.K, P) - 1 THEN "LAST" ELSE "ADD"

OneWeightTile(p) == CeilDiv(p.K, P) = 1

Reduction(p, j, i, r) ==
  IF OneWeightTile(p)
  THEN <<LoadRow(i, r, 0), Do(MATMUL(0, r, "NONE"))>>
  ELSE Concat(CeilDiv(p.K, P), LAMBDA kt :
         <<LoadWeights(kt, j), LoadRow(i, r, kt), Do(SWAP_WGT), Do(MATMUL(0, r, CtrlOf(p, kt)))>>)

RowTile(p, j, i) ==
  Concat(InTile(p.M, i), LAMBDA r : Append(Reduction(p, j, i, r), Do(VECTOR(0, r))))
    \o <<With(STORE(0, 0, InTile(p.M, i) - 1), <<"store", i, j>>)>>

(* One run per column tile, since a run can load only one bias vector. *)
ColumnRun(p, j) ==
  <<Do(NOP), With(LOAD_BIAS(0, BIAS_BEATS - 1), <<"bias", j>>)>>
    \o (IF OneWeightTile(p) THEN <<LoadWeights(0, j), Do(SWAP_WGT)>> ELSE <<>>)
    \o Concat(CeilDiv(p.M, P), LAMBDA i : RowTile(p, j, i))
    \o <<Do(END)>>

BuildTiledGemmRuns(p) == [j \in 1..CeilDiv(p.N, P) |-> ColumnRun(p, j - 1)]

(* build_single_tile_gemm_program *)
SingleTile(p) ==
  <<Do(NOP), Do(LOAD_WGT(0, P - 1)), Do(LOAD_ACT(0, 0, p.M - 1)), Do(LOAD_BIAS(0, BIAS_BEATS - 1)),
    Do(SWAP_WGT)>>
    \o Concat(p.M, LAMBDA r : <<Do(MATMUL(0, r, "NONE")), Do(VECTOR(0, r))>>)
    \o <<Do(STORE(0, 0, p.M - 1)), Do(END)>>
-----------------------------------------------------------------------------
(* compute_addresses, in elements from the base of each matrix: where a tile
   starts and the distance between its rows.  The plan has addresses for all P
   rows of the last row tile, the missing ones included, and for the bias only
   if the caller gives a bias_base_address (biased), which is None by default. *)
WeightAddress(p, kt, j) == (kt * P) * p.N + j * P
ActAddress(p, i, r, kt) == (i * P + r) * p.K + kt * P
BiasAddress(j) == j * P
(* Mutant: the row stride of A for that of C. *)
StoreAddressK(p, i, j) == (i * P) * p.K + j * P
StoreAddress(p, i, j) == (i * P) * p.N + j * P

ComputeAddresses(p, biased) ==
  LET tiles == {<<"weight", kt, j>> : kt \in Tiles(p.K), j \in Tiles(p.N)}
                 \cup {<<"act", i, r, kt>> : i \in Tiles(p.M), r \in 0..P - 1, kt \in Tiles(p.K)}
                 \cup {<<"bias", j>> : j \in IF biased THEN Tiles(p.N) ELSE {}}
                 \cup {<<"store", i, j>> : i \in Tiles(p.M), j \in Tiles(p.N)}
  IN  [t \in tiles |->
         CASE t[1] = "weight" -> [addr |-> WeightAddress(p, t[2], t[3]), stride |-> p.N]
           [] t[1] = "act"    -> [addr |-> ActAddress(p, t[2], t[3], t[4]), stride |-> p.K]
           [] t[1] = "bias"   -> [addr |-> BiasAddress(t[2]), stride |-> 1]
           [] t[1] = "store"  -> [addr |-> StoreAddress(p, t[2], t[3]), stride |-> p.N]]

(* encode_instructions *)
EncodeProgram(steps) == [k \in DOMAIN steps |-> Encode(steps[k].ins)]

(* _csr_writes_for_run: the base register the host sets before an
   instruction, and to what; a tile without an address is listed as unset. *)
UNSET == -1
BaseOf(i) == CASE i.op = "LOAD_WGT" -> BASE_WGT [] i.op = "LOAD_ACT" -> BASE_ACT
               [] i.op = "LOAD_BIAS" -> BASE_BIAS [] i.op = "STORE" -> BASE_OUT
CsrWrites(steps, plan) ==
  [k \in {n \in DOMAIN steps : steps[n].tile # NoTile} |->
     [base |-> BaseOf(steps[k].ins),
      value |-> IF steps[k].tile \in DOMAIN plan THEN plan[steps[k].tile].addr ELSE UNSET]]
=============================================================================
