----------------------------- MODULE Scoreboard -----------------------------
(***************************************************************************)
(* The registers of control_unit.sv and what one clock edge does to them.  *)
(* The scoreboard is one record `s'; an operator that returns a record is  *)
(* a block of nonblocking assignments.  NextScoreboard applies the blocks  *)
(* in program order, so that, as in the source, a completion overrides an  *)
(* issue that assigns the same register in the same cycle; right-hand      *)
(* sides read the registers' old values (`old').                           *)
(***************************************************************************)
EXTENDS AcceleratorIsa

BufState  == {"EMPTY", "FILLING", "READY", "IN_USE"}
EngState  == {"IDLE", "BUSY"}
RdTarget  == {"ACT", "WEIGHT", "BIAS"}
ROW_COUNTS == 2 * ROWS   \* act_rows_remaining has BANK_W + 1 bits

ScoreboardType ==
  [act: [Bank -> BufState], out: [Bank -> BufState], wgt: BufState,
   accum: BufState, bias: BufState,
   rows: [Bank -> 0..ROW_COUNTS - 1],
   rd: EngState, wr: EngState, array: EngState, vector: EngState,
   accel: EngState,
   rdTarget: RdTarget, rdBuf: Bank, wrBuf: Bank, arrayBuf: Bank,
   arrayCtrl: Ctrl, vecBuf: Bank, wgtValid: BOOLEAN, baseOff: [Base -> Nat]]

(* Reset values (!rst_n || soft_reset). *)
ResetScoreboard ==
  [act |-> [b \in Bank |-> "EMPTY"], out |-> [b \in Bank |-> "EMPTY"],
   wgt |-> "EMPTY", accum |-> "EMPTY", bias |-> "EMPTY",
   rows |-> [b \in Bank |-> 0],
   rd |-> "IDLE", wr |-> "IDLE", array |-> "IDLE", vector |-> "IDLE",
   accel |-> "IDLE",
   rdTarget |-> "ACT", rdBuf |-> 0, wrBuf |-> 0, arrayBuf |-> 0,
   arrayCtrl |-> "NONE", vecBuf |-> 0, wgtValid |-> FALSE,
   baseOff |-> [k \in Base |-> 0]]

-----------------------------------------------------------------------------
(* The can_issue_* functions: buffer and engine preconditions. *)
CanIssueLoadWgt(s)    == s.rd = "IDLE" /\ s.wgt = "EMPTY"
CanIssueLoadAct(s, d) == s.rd = "IDLE" /\ s.act[d] = "EMPTY"
CanIssueLoadBias(s)   == s.rd = "IDLE" /\ s.bias = "EMPTY"

(* INIT and NONE start a fresh tile, ADD and LAST continue one. *)
AccumNeeded(ctrl) == IF ctrl \in {"NONE", "INIT"} THEN "EMPTY" ELSE "FILLING"

CanIssueMatmul(s, b, ctrl) ==
  /\ s.array = "IDLE"
  /\ s.wgtValid
  /\ s.act[b] = "READY"
  /\ s.accum = AccumNeeded(ctrl)

CanIssueVector(s, d) ==
  /\ s.vector = "IDLE"
  /\ s.accum = "READY"
  /\ s.bias = "READY"
  /\ s.out[d] # "IN_USE"

(* Mutant: a row still in the vector unit is not waited for. *)
CanIssueStoreDuringVector(s, b) == s.wr = "IDLE" /\ s.out[b] = "READY"

CanIssueStore(s, b) ==
  /\ s.wr = "IDLE"
  /\ s.out[b] = "READY"
  /\ ~(s.vector = "BUSY" /\ s.vecBuf = b)

(* Mutant: the array may be running. *)
CanIssueSwapWgtAnytime(s) == s.wgt = "READY"

CanIssueSwapWgt(s) == s.wgt = "READY" /\ s.array = "IDLE"

(* Mutant: END does not wait for the write master. *)
CanIssueEndEarly(s) ==
  s.rd = "IDLE" /\ s.array = "IDLE" /\ s.vector = "IDLE"

CanIssueEnd(s) ==
  s.rd = "IDLE" /\ s.wr = "IDLE" /\ s.array = "IDLE" /\ s.vector = "IDLE"

CanIssue(s, i) ==
  CASE i.op = "LOAD_WGT"  -> CanIssueLoadWgt(s)
    [] i.op = "LOAD_ACT"  -> CanIssueLoadAct(s, i.dst)
    [] i.op = "LOAD_BIAS" -> CanIssueLoadBias(s)
    [] i.op = "MATMUL"    -> CanIssueMatmul(s, i.src, i.ctrl)
    [] i.op = "VECTOR"    -> CanIssueVector(s, i.dst)
    [] i.op = "STORE"     -> CanIssueStore(s, i.src)
    [] i.op = "SWAP_WGT"  -> CanIssueSwapWgt(s)
    [] i.op = "END"       -> CanIssueEnd(s)
    [] OTHER              -> TRUE                        \* NOP, SET_BASE

(* Mutant: the oldest entry is left out of the hazard check. *)
EligibleOffByOne(s, w, k) ==
  /\ CanIssue(s, w[k])
  /\ \A j \in 2..k - 1 : ~Conflict(w[j], w[k])

(* The scheduler's scan: slot k of the window w is issued when it is the
   first whose preconditions hold and that conflicts with no older entry. *)
Eligible(s, w, k) ==
  /\ CanIssue(s, w[k])
  /\ \A j \in 1..k - 1 : ~Conflict(w[j], w[k])

Selected(s, w, k) ==
  /\ s.accel = "BUSY"
  /\ Eligible(s, w, k)
  /\ \A j \in 1..k - 1 : ~Eligible(s, w, j)

-----------------------------------------------------------------------------
(* Scoreboard effects of issuing instruction i. *)
IssueEffect(s, i) ==
  CASE i.op = "LOAD_WGT"  ->
         [s EXCEPT !.rd = "BUSY", !.rdTarget = "WEIGHT", !.wgt = "FILLING"]
    [] i.op = "LOAD_ACT"  ->
         [s EXCEPT !.rd = "BUSY", !.rdTarget = "ACT", !.rdBuf = i.dst,
                   !.act[i.dst] = "FILLING",
                   !.rows[i.dst] = RowsLoaded(i) % ROW_COUNTS]
    [] i.op = "LOAD_BIAS" ->
         [s EXCEPT !.rd = "BUSY", !.rdTarget = "BIAS", !.bias = "FILLING"]
    [] i.op = "MATMUL"    ->
         [s EXCEPT !.array = "BUSY", !.arrayBuf = i.src, !.arrayCtrl = i.ctrl,
                   !.act[i.src] = "IN_USE", !.accum = "FILLING"]
    [] i.op = "VECTOR"    ->
         [s EXCEPT !.vector = "BUSY", !.vecBuf = i.dst, !.accum = "IN_USE"]
    [] i.op = "STORE"     ->
         [s EXCEPT !.wr = "BUSY", !.wrBuf = i.src, !.out[i.src] = "IN_USE"]
    [] i.op = "SWAP_WGT"  ->
         [s EXCEPT !.wgt = "EMPTY", !.wgtValid = TRUE]
    [] i.op = "END"       -> [s EXCEPT !.accel = "IDLE"]      \* done
    [] i.op = "SET_BASE"  -> [s EXCEPT !.baseOff[i.base] = i.imm]
    [] OTHER              -> s

StartEffect(s) ==
  [s EXCEPT !.accel = "BUSY", !.baseOff = [k \in Base |-> 0]]

(* Completion events, in source order. *)
ReadDone(s, old) ==
  [s EXCEPT !.rd = "IDLE",
            !.bias = IF old.rdTarget = "BIAS" THEN "READY" ELSE @,
            !.act[old.rdBuf] = IF old.rdTarget = "ACT" THEN "READY" ELSE @]

WeightsValid(s) == [s EXCEPT !.wgt = "READY"]

(* Mutant: the last row does not free its bank. *)
ArrayDoneLate(s, old) ==
  [s EXCEPT !.array = "IDLE",
            !.rows[old.arrayBuf] =
              (old.rows[old.arrayBuf] + ROW_COUNTS - 1) % ROW_COUNTS,
            !.act[old.arrayBuf] =
              IF old.rows[old.arrayBuf] = 0 THEN "EMPTY" ELSE "READY",
            !.accum = IF old.arrayCtrl \in {"NONE", "LAST"}
                      THEN "READY" ELSE "FILLING"]

ArrayDone(s, old) ==
  [s EXCEPT !.array = "IDLE",
            !.rows[old.arrayBuf] =
              (old.rows[old.arrayBuf] + ROW_COUNTS - 1) % ROW_COUNTS,
            !.act[old.arrayBuf] =
              IF old.rows[old.arrayBuf] <= 1 THEN "EMPTY" ELSE "READY",
            !.accum = IF old.arrayCtrl \in {"NONE", "LAST"}
                      THEN "READY" ELSE "FILLING"]

WriteDone(s, old) ==
  [s EXCEPT !.wr = "IDLE", !.out[old.wrBuf] = "EMPTY"]

(* Mutant: the accumulator is not released. *)
VectorDoneKeepsAccum(s, old) ==
  [s EXCEPT !.vector = "IDLE", !.out[old.vecBuf] = "READY"]

VectorDone(s, old) ==
  [s EXCEPT !.vector = "IDLE", !.accum = "EMPTY", !.out[old.vecBuf] = "READY"]

When(cond, t, s) == IF cond THEN t ELSE s

(* One clock edge: issue, then the completions seen in the cycle. *)
NextScoreboard(old, s1, ev) ==
  LET s2 == When(ev.rdDone, ReadDone(s1, old), s1)
      s3 == When(ev.wtValid, WeightsValid(s2), s2)
      s4 == When(ev.arrayDone, ArrayDone(s3, old), s3)
      s5 == When(ev.wrDone, WriteDone(s4, old), s4)
  IN  When(ev.vectorDone, VectorDone(s5, old), s5)

-----------------------------------------------------------------------------
(* Beat bookkeeping: the addressing context of the operations in flight. *)
BookkeepingType ==
  [ldCnt: 0..256, ldTotal: 0..256, ldBase: 0..255,
   stCnt: 0..256, stTotal: 0..256, stBase: 0..255,
   mmAddr: Row, vecAddr: Row, arrayDoneD: BOOLEAN]

ResetBookkeeping ==
  [ldCnt |-> 0, ldTotal |-> 0, ldBase |-> 0,
   stCnt |-> 0, stTotal |-> 0, stBase |-> 0,
   mmAddr |-> 0, vecAddr |-> 0, arrayDoneD |-> FALSE]

(* ldBeat / stBeat: an accepted read or write beat that the counters count. *)
NextBookkeeping(b, i, ldBeat, stBeat, arrayDone) ==
  [ldCnt      |-> IF i.op \in LoadOp THEN 0
                  ELSE IF ldBeat THEN b.ldCnt + 1 ELSE b.ldCnt,
   ldTotal    |-> IF i.op \in LoadOp THEN i.len + 1 ELSE b.ldTotal,
   ldBase     |-> IF i.op \in LoadOp THEN i.addr ELSE b.ldBase,
   stCnt      |-> IF i.op = "STORE" THEN 0
                  ELSE IF stBeat THEN b.stCnt + 1 ELSE b.stCnt,
   stTotal    |-> IF i.op = "STORE" THEN i.len + 1 ELSE b.stTotal,
   stBase     |-> IF i.op = "STORE" THEN i.addr ELSE b.stBase,
   mmAddr     |-> IF i.op = "MATMUL" THEN i.addr % ROWS ELSE b.mmAddr,
   vecAddr    |-> IF i.op = "VECTOR" THEN i.addr % ROWS ELSE b.vecAddr,
   arrayDoneD |-> arrayDone]
=============================================================================
