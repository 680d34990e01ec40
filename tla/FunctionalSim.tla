---------------------------- MODULE FunctionalSim ---------------------------
(***************************************************************************)
(* sim.py's Accelerator on numbers: the state of the in-order machine with *)
(* matrices instead of terms and the arrays that the driver binds instead  *)
(* of a DRAM.  Rows are functions on 0..P-1; act, accumulator and output   *)
(* banks hold the rows written so far, by their address.                   *)
(***************************************************************************)
EXTENDS InOrderMachine, VectorUnit

CONSTANT BIAS_EPB             \* bias elements in one beat: DMA_WIDTH / ACC_WIDTH

ASSUME SimAssumption == BIAS_EPB \in Nat \ {0} /\ ROWS = BIAS_BEATS * BIAS_EPB /\ BEATS_PER_ROW = 1

NoData == <<>>

Fresh == [wgt |-> "EMPTY", act |-> [b \in Bank |-> "EMPTY"], out |-> [b \in Bank |-> "EMPTY"],
          accum |-> "EMPTY", bias |-> "EMPTY", rows |-> [b \in Bank |-> 0],
          wgtValid |-> FALSE, ended |-> FALSE,
          staging |-> NoData, array |-> NoData, actData |-> [b \in Bank |-> NoData],
          biasData |-> NoData, accumData |-> NoData, outData |-> [b \in Bank |-> NoData],
          dramWeight |-> NoData, dramAct |-> NoData, dramBias |-> NoData, dramOut |-> NoData]

With1(f, a, x) == [b \in DOMAIN f \cup {a} |-> IF b = a THEN x ELSE f[b]]

SumTo(f, n) == LET s[k \in 0..n] == IF k = 0 THEN 0 ELSE s[k - 1] + f[k - 1] IN s[n]

(* One row through the array: result_out[c] = sum_r act_in[r] * W[r][c]. *)
RowTimes(row, w) == [c \in Row |-> SumTo([r \in Row |-> row[r] * w[r][c]], ROWS)]
RowPlus(x, y) == [c \in Row |-> x[c] + y[c]]
Zeros == [c \in Row |-> 0]

(* The assertions of step() and the subscripts that would raise. *)
Served(s, i) ==
  CASE i.op = "LOAD_WGT"  -> i.addr + i.len + 1 <= ROWS /\ i.len + 1 = ROWS
    [] i.op = "LOAD_BIAS" -> (i.len + 1) * BIAS_EPB = ROWS
    [] i.op = "LOAD_ACT"  -> \A k \in 0..i.len : i.addr + k \in DOMAIN s.dramAct
    [] i.op = "MATMUL"    -> i.addr \in DOMAIN s.actData[i.src]
    [] i.op = "VECTOR"    -> i.addr \in DOMAIN s.accumData
    [] i.op = "STORE"     -> \A k \in 0..i.len : i.addr + k \in DOMAIN s.outData[i.src]
    [] OTHER              -> i.op # "SET_BASE"

Accepts(s, i) == CanStep(s, i) /\ Served(s, i)

Compute(s, i) ==
  LET result == RowTimes(s.actData[i.src][i.addr], s.array)
      before == IF i.addr \in DOMAIN s.accumData THEN s.accumData[i.addr] ELSE Zeros
      left == s.rows[i.src] - 1
  IN  [s EXCEPT
         !.accumData = With1(@, i.addr,
            IF i.ctrl \in {"NONE", "INIT"} THEN result ELSE RowPlus(before, result)),
         !.rows[i.src] = left,
         !.act[i.src] = IF left <= 0 THEN "EMPTY" ELSE "READY",
         !.accum = IF i.ctrl \in {"NONE", "LAST"} THEN "READY" ELSE "FILLING"]

Perform(s, i, vec) ==
  CASE i.op = "LOAD_WGT" ->
         [s EXCEPT !.wgt = "READY", !.staging = [r \in Row |-> s.dramWeight[i.addr + r]]]
    [] i.op = "LOAD_ACT" ->
         [s EXCEPT !.act[i.dst] = "READY", !.rows[i.dst] = RowsLoaded(i),
                   !.actData[i.dst] = [a \in DOMAIN @ \cup i.addr..i.addr + i.len |->
                      IF a \in i.addr..i.addr + i.len THEN s.dramAct[a] ELSE @[a]]]
    [] i.op = "LOAD_BIAS" -> [s EXCEPT !.bias = "READY", !.biasData = s.dramBias]
    [] i.op = "MATMUL" -> Compute(s, i)
    [] i.op = "VECTOR" ->
         [s EXCEPT !.accum = "EMPTY", !.out[i.dst] = "READY",
                   !.outData[i.dst] = With1(@, i.addr,
                      [c \in Row |-> Lane(s.accumData[i.addr][c], s.biasData[c], vec)])]
    [] i.op = "STORE" ->
         [s EXCEPT !.out[i.src] = "EMPTY",
                   !.dramOut = [a \in DOMAIN @ \cup i.addr..i.addr + i.len |->
                      IF a \in i.addr..i.addr + i.len THEN s.outData[i.src][a] ELSE @[a]]]
    [] i.op = "SWAP_WGT" ->
         [s EXCEPT !.array = s.staging, !.wgtValid = TRUE, !.wgt = "EMPTY"]
    [] i.op = "END" -> [s EXCEPT !.ended = TRUE]
    [] OTHER -> s
=============================================================================
