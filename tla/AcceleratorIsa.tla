--------------------------- MODULE AcceleratorIsa ---------------------------
(***************************************************************************)
(* The accelerator's instruction set, the resources each instruction reads *)
(* and writes (the scheduler's hazard table in control_unit.sv) and the    *)
(* geometry of the on-chip memories.                                       *)
(*                                                                         *)
(* An instruction is a record instead of a 32-bit word; `base' is the dst  *)
(* field as OP_SET_BASE reads it and `imm' the 24-bit immediate that       *)
(* SET_BASE spreads over addr|length|accum_ctrl|reserved.                  *)
(***************************************************************************)
EXTENDS Integers, Sequences

CONSTANTS
  ROWS,           \* ARRAY_SIZE: rows of the array, of an act bank, of accum and out
  BEATS_PER_ROW,  \* ARRAY_SIZE / ELEMENTS_PER_BEAT: DMA beats in one row
  BIAS_BEATS,     \* ARRAY_SIZE * 32 / DMA_WIDTH: DMA beats in the bias vector
  DRAM_BEATS,     \* beats of DRAM modelled; DMA addresses wrap at this bound
  CSR             \* the host's CSR base address (in beats) of each DMA base

Op == {"NOP", "LOAD_WGT", "LOAD_ACT", "LOAD_BIAS", "MATMUL", "VECTOR",
       "STORE", "SWAP_WGT", "END", "SET_BASE"}
LoadOp == {"LOAD_WGT", "LOAD_ACT", "LOAD_BIAS"}
Ctrl == {"NONE", "INIT", "ADD", "LAST"}
Bank == 0..1
Base == 0..3
BASE_WGT  == 0
BASE_ACT  == 1
BASE_BIAS == 2
BASE_OUT  == 3

ASSUME IsaAssumption ==
  /\ ROWS \in Nat \ {0}
  /\ BEATS_PER_ROW \in Nat \ {0}
  /\ BIAS_BEATS \in Nat \ {0}
  /\ DRAM_BEATS \in Nat \ {0}
  /\ CSR \in [Base -> Nat]

Instruction ==
  [op: Op, src: Bank, dst: Bank, base: Base, addr: 0..255, len: 0..255,
   ctrl: Ctrl, imm: Nat]

(* The builders of isa.py: every field a builder does not set is zero. *)
Blank == [op |-> "NOP", src |-> 0, dst |-> 0, base |-> 0, addr |-> 0,
          len |-> 0, ctrl |-> "NONE", imm |-> 0]
NOP             == Blank
LOAD_WGT(a, l)  == [Blank EXCEPT !.op = "LOAD_WGT", !.addr = a, !.len = l]
LOAD_ACT(d, a, l) ==
  [Blank EXCEPT !.op = "LOAD_ACT", !.dst = d, !.addr = a, !.len = l]
LOAD_BIAS(a, l) == [Blank EXCEPT !.op = "LOAD_BIAS", !.addr = a, !.len = l]
MATMUL(s, a, c) ==
  [Blank EXCEPT !.op = "MATMUL", !.src = s, !.addr = a, !.ctrl = c]
VECTOR(d, a)    == [Blank EXCEPT !.op = "VECTOR", !.dst = d, !.addr = a]
STORE(s, a, l)  ==
  [Blank EXCEPT !.op = "STORE", !.src = s, !.addr = a, !.len = l]
SWAP_WGT        == [Blank EXCEPT !.op = "SWAP_WGT"]
END             == [Blank EXCEPT !.op = "END"]
SET_BASE(b, o)  == [Blank EXCEPT !.op = "SET_BASE", !.base = b, !.imm = o]

-----------------------------------------------------------------------------
(* The resources of the dependency checker: RES_* of control_unit.sv. *)
RES_WGT_STAGE == 0
RES_ARRAY_WGT == 1
RES_ACT(b)    == 2 + b
RES_ACCUM     == 4
RES_BIAS      == 5
RES_OUT(b)    == 6 + b
RES_BASE(k)   == 8 + k
Resource      == 0..11

ResReads(i) ==
  CASE i.op = "SWAP_WGT"  -> {RES_WGT_STAGE}
    [] i.op = "MATMUL"    -> {RES_ACT(i.src), RES_ARRAY_WGT}
    [] i.op = "VECTOR"    -> {RES_ACCUM, RES_BIAS}
    [] i.op = "STORE"     -> {RES_OUT(i.src), RES_BASE(BASE_OUT)}
    [] i.op = "LOAD_WGT"  -> {RES_BASE(BASE_WGT)}
    [] i.op = "LOAD_ACT"  -> {RES_BASE(BASE_ACT)}
    [] i.op = "LOAD_BIAS" -> {RES_BASE(BASE_BIAS)}
    [] i.op = "END"       -> Resource
    [] OTHER              -> {}

ResWrites(i) ==
  CASE i.op = "LOAD_WGT"  -> {RES_WGT_STAGE}
    [] i.op = "LOAD_ACT"  -> {RES_ACT(i.dst)}
    [] i.op = "LOAD_BIAS" -> {RES_BIAS}
    [] i.op = "SWAP_WGT"  -> {RES_ARRAY_WGT, RES_WGT_STAGE}
    [] i.op = "MATMUL"    -> {RES_ACCUM}
    [] i.op = "VECTOR"    -> {RES_OUT(i.dst), RES_ACCUM}
    [] i.op = "SET_BASE"  -> {RES_BASE(i.base)}
    [] i.op = "END"       -> Resource
    [] OTHER              -> {}

(* Mutant: without the WAR term. *)
ConflictNoWar(older, younger) ==
  (ResReads(younger) \union ResWrites(younger)) \cap ResWrites(older) # {}

(* The RAW / WAR / WAW test (window_hazard) of a younger instruction against
   one older instruction that has not been issued. *)
Conflict(older, younger) ==
  \/ (ResReads(younger) \union ResWrites(younger)) \cap ResWrites(older) # {}
  \/ ResWrites(younger) \cap ResReads(older) # {}

-----------------------------------------------------------------------------
(* Geometry.  Every on-chip address is truncated to its memory's width. *)
WGT_BEATS == ROWS * BEATS_PER_ROW
ACT_BEATS == ROWS * BEATS_PER_ROW
OUT_BEATS == ROWS * BEATS_PER_ROW
Row       == 0..ROWS - 1

(* Rows a LOAD_ACT of len + 1 beats delivers into its bank. *)
RowsLoaded(i) == (i.len + 1) \div BEATS_PER_ROW

(* CSR base plus the SET_BASE offset plus the instruction's beat index. *)
DmaAddr(k, off, a) == (CSR[k] + off + a) % DRAM_BEATS

(* Data are terms: a value is the expression that computed it, so two
   results are equal only when the same operands met the same operators. *)
Term(f, args, n) == <<f, args, n>>
Cell(a)          == Term("cell", <<>>, a)              \* initial DRAM beat
Garbage          == Term("garbage", <<>>, 0)           \* unspecified contents
Dot(row, tile)   == Term("dot", row \o tile, 0)        \* one array result row
Plus(x, y)       == Term("plus", <<x, y>>, 0)          \* accumulate into a row
Quantize(x, b)   == Term("quant", <<x>> \o b, 0)       \* vector unit output row
Beat(x, k)       == Term("beat", <<x>>, k)             \* k-th DMA beat of a row

(* The beats of a memory as a sequence, from the first-th on. *)
Beats(f, first, n) == [k \in 1..n |-> f[first + k - 1]]
=============================================================================
