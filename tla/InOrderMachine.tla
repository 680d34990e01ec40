--------------------------- MODULE InOrderMachine ---------------------------
(***************************************************************************)
(* The architectural meaning of a microprogram: sim.py's model, which      *)
(* executes one instruction to completion after the other and rejects a    *)
(* program that would violate a can_issue_* precondition.  SET_BASE, which *)
(* sim.py lacks, is taken from control_unit.sv, as are the addresses of    *)
(* bursts.                                                                 *)
(***************************************************************************)
EXTENDS AcceleratorIsa, SequencesExt

(* The last of the beats 0..len that lands on address x of a memory of size
   n when the burst starts at address a. *)
Hits(x, a, len, n) == {m \in 0..len : (a + m) % n = x}

(* Memory f of n beats after a burst of len + 1 DRAM beats from address d. *)
Filled(f, a, len, n, dram, d) ==
  [x \in 0..n - 1 |->
     IF Hits(x, a, len, n) = {} THEN f[x]
     ELSE dram[(d + Max(Hits(x, a, len, n))) % DRAM_BEATS]]

(* Beat k of an output bank, in the narrow address space the DMA reads. *)
OutBeat(rows, k) ==
  LET a == k % OUT_BEATS
  IN  Beat(rows[a \div BEATS_PER_ROW], a % BEATS_PER_ROW)

Stored(dram, rows, a, len, d) ==
  [x \in 0..DRAM_BEATS - 1 |->
     IF Hits(x, d, len, DRAM_BEATS) = {} THEN dram[x]
     ELSE OutBeat(rows, a + Max(Hits(x, d, len, DRAM_BEATS)))]

ActRow(bank, r) == Beats(bank, (r % ROWS) * BEATS_PER_ROW, BEATS_PER_ROW)

(* The machine after power-up; the contents of the memories are unspecified. *)
PowerUp ==
  [wgt |-> "EMPTY", act |-> [b \in Bank |-> "EMPTY"],
   out |-> [b \in Bank |-> "EMPTY"], accum |-> "EMPTY", bias |-> "EMPTY",
   rows |-> [b \in Bank |-> 0], wgtValid |-> FALSE,
   baseOff |-> [k \in Base |-> 0], ended |-> FALSE,
   stage |-> [x \in 0..WGT_BEATS - 1 |-> Garbage],
   weights |-> [x \in 1..WGT_BEATS |-> Garbage],
   actMem |-> [b \in Bank |-> [x \in 0..ACT_BEATS - 1 |-> Garbage]],
   accMem |-> [r \in Row |-> Garbage],
   biasMem |-> [x \in 0..BIAS_BEATS - 1 |-> Garbage],
   outMem |-> [b \in Bank |-> [r \in Row |-> Garbage]],
   dram |-> [a \in 0..DRAM_BEATS - 1 |-> Cell(a)]]

-----------------------------------------------------------------------------
(* sim.py's preconditions. *)
CanStep(s, i) ==
  /\ ~s.ended
  /\ \/ i.op \in {"NOP", "SET_BASE", "END"}
     \/ i.op = "LOAD_WGT"  /\ s.wgt = "EMPTY"
     \/ i.op = "LOAD_ACT"  /\ s.act[i.dst] = "EMPTY"
     \/ i.op = "LOAD_BIAS" /\ s.bias = "EMPTY"
     \/ /\ i.op = "MATMUL" /\ s.wgtValid /\ s.act[i.src] = "READY"
        /\ s.accum = (IF i.ctrl \in {"NONE", "INIT"} THEN "EMPTY" ELSE "FILLING")
     \/ /\ i.op = "VECTOR" /\ s.accum = "READY" /\ s.bias = "READY"
        /\ s.out[i.dst] # "IN_USE"
     \/ i.op = "STORE"     /\ s.out[i.src] = "READY"
     \/ i.op = "SWAP_WGT"  /\ s.wgt = "READY"

LoadAddr(s, i) ==
  LET k == CASE i.op = "LOAD_WGT" -> BASE_WGT
             [] i.op = "LOAD_ACT" -> BASE_ACT
             [] i.op = "LOAD_BIAS" -> BASE_BIAS
  IN  DmaAddr(k, s.baseOff[k], i.addr)

MatmulStep(s, i) ==
  LET result == Dot(ActRow(s.actMem[i.src], i.addr), s.weights)
      left   == s.rows[i.src] - 1
  IN  [s EXCEPT
         !.accMem[i.addr % ROWS] =
            IF i.ctrl \in {"NONE", "INIT"} THEN result ELSE Plus(@, result),
         !.rows[i.src] = IF left <= 0 THEN 0 ELSE left,
         !.act[i.src]  = IF left <= 0 THEN "EMPTY" ELSE "READY",
         !.accum = IF i.ctrl \in {"NONE", "LAST"} THEN "READY" ELSE "FILLING"]

(* One instruction, executed to completion. *)
Step(s, i) ==
  CASE i.op = "LOAD_WGT" ->
         [s EXCEPT !.wgt = "READY",
                   !.stage = Filled(@, i.addr, i.len, WGT_BEATS, s.dram, LoadAddr(s, i))]
    [] i.op = "LOAD_ACT" ->
         [s EXCEPT !.act[i.dst] = "READY", !.rows[i.dst] = RowsLoaded(i),
                   !.actMem[i.dst] =
                      Filled(@, i.addr, i.len, ACT_BEATS, s.dram, LoadAddr(s, i))]
    [] i.op = "LOAD_BIAS" ->
         [s EXCEPT !.bias = "READY",
                   !.biasMem = Filled(@, i.addr, i.len, BIAS_BEATS, s.dram, LoadAddr(s, i))]
    [] i.op = "MATMUL"   -> MatmulStep(s, i)
    [] i.op = "VECTOR"   ->
         [s EXCEPT !.accum = "EMPTY", !.out[i.dst] = "READY",
                   !.outMem[i.dst][i.addr % ROWS] =
                      Quantize(s.accMem[i.addr % ROWS], Beats(s.biasMem, 0, BIAS_BEATS))]
    [] i.op = "STORE"    ->
         [s EXCEPT !.out[i.src] = "EMPTY",
                   !.dram = Stored(@, s.outMem[i.src], i.addr, i.len,
                                   DmaAddr(BASE_OUT, s.baseOff[BASE_OUT], i.addr))]
    [] i.op = "SWAP_WGT" ->
         [s EXCEPT !.weights = Beats(s.stage, 0, WGT_BEATS), !.wgtValid = TRUE,
                   !.wgt = "EMPTY"]
    [] i.op = "SET_BASE" -> [s EXCEPT !.baseOff[i.base] = i.imm]
    [] i.op = "END"      -> [s EXCEPT !.ended = TRUE]
    [] OTHER             -> s

-----------------------------------------------------------------------------
(* run(): every instruction in order, up to END. *)
CheckedStep(c, i) ==
  IF c.st.ended THEN c
  ELSE IF c.ok /\ CanStep(c.st, i) THEN [c EXCEPT !.st = Step(c.st, i)]
  ELSE [c EXCEPT !.ok = FALSE]

(* A run starts with the base offsets cleared. *)
Started(s) == [s EXCEPT !.baseOff = [k \in Base |-> 0], !.ended = FALSE]

Execute(s, prog) ==
  FoldLeft(CheckedStep, [ok |-> TRUE, st |-> Started(s)], Append(prog, END))

CanRun(s, prog)  == Execute(s, prog).ok
Outcome(s, prog) == [Execute(s, prog).st EXCEPT !.ended = FALSE]
=============================================================================
