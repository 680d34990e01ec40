----------------------------- MODULE Accelerator ----------------------------
(***************************************************************************)
(* The accelerator's core, one step per clock cycle: control_unit.sv with  *)
(* its instruction window, and the engines it drives (AXI read and write   *)
(* master, systolic array, vector unit) with the BRAMs between them and    *)
(* DRAM.  In every cycle the scheduler issues at most one instruction, the *)
(* engines advance, and completions reach the scoreboard.                  *)
(*                                                                         *)
(* The latency of an AXI handshake and of the array is nondeterministic;   *)
(* the vector unit's pipeline has its real depth.                          *)
(***************************************************************************)
EXTENDS InstructionFifo, Scoreboard, InOrderMachine

CONSTANTS
  Programs,   \* the microprograms the host may load
  MAX_RUNS    \* bound: runs in one behaviour

ASSUME HostAssumption ==
  /\ \A p \in Programs : p \in Seq(Instruction) /\ Len(p) <= INSTR_DEPTH
  /\ MAX_RUNS \in Nat

VARIABLES
  sb,      \* scoreboard registers
  bk,      \* beat bookkeeping registers
  rdm,     \* axi4_master read FSM: [st, addr, left]
  wrm,     \* axi4_master write FSM: [st, addr, left, done]
  arr,     \* systolic array: [pm, rdv, row, wgt, val]
  vec,     \* vector unit pipeline: [left, val]
  bram,    \* contents of the buffers, and their registered read ports
  dram,    \* DRAM beats
  loaded,  \* the host has written a program and not started it yet
  runs,    \* programs loaded so far
  snap     \* history: architectural state when the program was loaded

vars == <<rom, window, fetchPtr, sb, bk, rdm, wrm, arr, vec, bram, dram,
          loaded, runs, snap>>

Dram == 0..DRAM_BEATS - 1

-----------------------------------------------------------------------------
(* The architectural state, as InOrderMachine sees it.  A weight tile whose
   registered read is about to raise wt_rd_valid counts as READY. *)
Arch ==
  [wgt |-> IF bram.wtRdValid THEN "READY" ELSE sb.wgt,
   act |-> sb.act, out |-> sb.out, accum |-> sb.accum, bias |-> sb.bias,
   rows |-> [b \in Bank |-> IF sb.act[b] = "EMPTY" THEN 0 ELSE sb.rows[b]],
   wgtValid |-> sb.wgtValid, baseOff |-> sb.baseOff,
   stage |-> bram.wgt, weights |-> arr.wgt, actMem |-> bram.act,
   accMem |-> bram.acc, biasMem |-> bram.bias, outMem |-> bram.out,
   dram |-> dram, ended |-> FALSE]

Init ==
  /\ FifoInit
  /\ sb = ResetScoreboard
  /\ bk = ResetBookkeeping
  /\ rdm = [st |-> "IDLE", addr |-> 0, left |-> 0]
  /\ wrm = [st |-> "IDLE", addr |-> 0, left |-> 0, done |-> FALSE]
  /\ arr = [pm |-> "IDLE", rdv |-> FALSE, row |-> <<>>,
            wgt |-> [k \in 1..WGT_BEATS |-> Garbage], val |-> Garbage]
  /\ vec = [left |-> 0, val |-> Garbage]
  /\ bram = [wgt |-> [x \in 0..WGT_BEATS - 1 |-> Garbage],
             wgtBus |-> [x \in 0..WGT_BEATS - 1 |-> Garbage],
             wtRdValid |-> FALSE,
             act |-> [b \in Bank |-> [x \in 0..ACT_BEATS - 1 |-> Garbage]],
             acc |-> [r \in Row |-> Garbage],
             bias |-> [x \in 0..BIAS_BEATS - 1 |-> Garbage],
             out |-> [b \in Bank |-> [r \in Row |-> Garbage]],
             outBus |-> Garbage]
  /\ dram = [a \in Dram |-> Cell(a)]
  /\ loaded = FALSE
  /\ runs = 0
  /\ snap = Arch

-----------------------------------------------------------------------------
(* Completion signals of the current cycle. *)
(* Mutant: perf_valid used as a level. *)
ArrayLevel == arr.pm = "DONE"

ArrayPulse == arr.pm = "DONE" /\ ~bk.arrayDoneD
VectorPulse == vec.left = 1
ReadPulse == rdm.st = "DONE"

Events ==
  [rdDone |-> ReadPulse, wtValid |-> bram.wtRdValid, arrayDone |-> ArrayPulse,
   wrDone |-> wrm.done, vectorDone |-> VectorPulse]

(* What the engines may do in this cycle: a handshake of the read or write
   channel, the array's last column becoming valid. *)
Go == {g \in [rd: BOOLEAN, wr: BOOLEAN, ar: BOOLEAN] :
         /\ g.rd => rdm.st \in {"ADDR", "DATA"}
         /\ g.wr => wrm.st \in {"ADDR", "DATA", "RESP"}
         /\ g.ar => arr.pm = "RUNNING"}

RdBeat(g) == rdm.st = "DATA" /\ g.rd
WrBeat(g) == wrm.st = "DATA" /\ g.wr

(* Mutants: the last beat of a burst is dropped; a burst is not bounded. *)
LdBeatShort(g) == sb.rd = "BUSY" /\ RdBeat(g) /\ bk.ldCnt + 1 < bk.ldTotal
LdBeatUnbounded(g) == sb.rd = "BUSY" /\ RdBeat(g)

LdBeat(g) == sb.rd = "BUSY" /\ RdBeat(g) /\ bk.ldCnt < bk.ldTotal
StBeat(g) == sb.wr = "BUSY" /\ WrBeat(g) /\ bk.stCnt < bk.stTotal

(* AXI read master; a start is taken only in RD_IDLE. *)
NextRdm(i, g) ==
  CASE rdm.st = "IDLE" /\ i.op \in LoadOp ->
         [st |-> "ADDR", addr |-> LoadAddr(sb, i), left |-> i.len]
    [] rdm.st = "ADDR" /\ g.rd -> [rdm EXCEPT !.st = "DATA"]
    [] rdm.st = "DATA" /\ g.rd ->
         IF rdm.left = 0 THEN [rdm EXCEPT !.st = "DONE"]
         ELSE [rdm EXCEPT !.left = @ - 1, !.addr = (@ + 1) % DRAM_BEATS]
    [] rdm.st = "DONE" -> [rdm EXCEPT !.st = "IDLE"]
    [] OTHER -> rdm

(* AXI write master; wr_done is a registered pulse. *)
NextWrm(i, g) ==
  CASE wrm.st = "IDLE" /\ i.op = "STORE" ->
         [st |-> "ADDR", left |-> i.len, done |-> FALSE,
          addr |-> DmaAddr(BASE_OUT, sb.baseOff[BASE_OUT], i.addr)]
    [] wrm.st = "ADDR" /\ g.wr -> [wrm EXCEPT !.st = "DATA", !.done = FALSE]
    [] wrm.st = "DATA" /\ g.wr ->
         IF wrm.left = 0 THEN [wrm EXCEPT !.st = "RESP", !.done = FALSE]
         ELSE [wrm EXCEPT !.left = @ - 1, !.addr = (@ + 1) % DRAM_BEATS,
                          !.done = FALSE]
    [] wrm.st = "RESP" /\ g.wr -> [wrm EXCEPT !.st = "IDLE", !.done = TRUE]
    [] OTHER -> [wrm EXCEPT !.done = FALSE]

(* Systolic array: act_rd_valid enables it the cycle after MATMUL issued;
   perf_valid (pm = DONE) then holds its level until the next enable.
   Replacing the weights under a running row, or feeding a row into a
   running array, leaves an unspecified result. *)
NextArr(i, g) ==
  [pm  |-> IF arr.pm = "RUNNING" THEN (IF g.ar THEN "DONE" ELSE "RUNNING")
           ELSE IF arr.rdv THEN "RUNNING" ELSE arr.pm,
   rdv |-> i.op = "MATMUL",
   row |-> IF i.op = "MATMUL" THEN ActRow(bram.act[i.src], i.addr) ELSE <<>>,
   wgt |-> IF i.op = "SWAP_WGT" THEN Beats(bram.wgtBus, 0, WGT_BEATS) ELSE arr.wgt,
   val |-> IF (i.op = "SWAP_WGT" \/ arr.rdv) /\ arr.pm = "RUNNING" THEN Garbage
           ELSE IF ~arr.rdv THEN arr.val
           ELSE IF i.op = "SWAP_WGT" THEN Garbage
           ELSE Dot(arr.row, arr.wgt)]

(* Vector unit: registered operand read, two pipeline stages. *)
NextVec(i) ==
  IF i.op = "VECTOR"
  THEN [left |-> 3,
        val |-> Quantize(bram.acc[i.addr % ROWS], Beats(bram.bias, 0, BIAS_BEATS))]
  ELSE [vec EXCEPT !.left = IF @ > 0 THEN @ - 1 ELSE 0]

(* One BRAM write per accepted read beat, into the target of the load. *)
Loaded(mem, size) == [mem EXCEPT ![(bk.ldBase + bk.ldCnt) % size] = dram[rdm.addr]]

(* The weight tile is read out on the cycle of rd_done. *)
WtRdEn == ReadPulse /\ sb.rdTarget = "WEIGHT"

NextBram(i, g) ==
  [wgt  |-> IF LdBeat(g) /\ sb.rdTarget = "WEIGHT"
            THEN Loaded(bram.wgt, WGT_BEATS) ELSE bram.wgt,
   wgtBus    |-> IF WtRdEn THEN bram.wgt ELSE bram.wgtBus,
   wtRdValid |-> WtRdEn,
   act  |-> IF LdBeat(g) /\ sb.rdTarget = "ACT"
            THEN [bram.act EXCEPT ![sb.rdBuf] = Loaded(@, ACT_BEATS)] ELSE bram.act,
   bias |-> IF LdBeat(g) /\ sb.rdTarget = "BIAS"
            THEN Loaded(bram.bias, BIAS_BEATS) ELSE bram.bias,
   acc  |-> IF ~ArrayPulse THEN bram.acc
            ELSE [bram.acc EXCEPT ![bk.mmAddr] =
                    IF sb.arrayCtrl \in {"NONE", "INIT"} THEN arr.val
                    ELSE Plus(@, arr.val)],
   out  |-> IF VectorPulse
            THEN [bram.out EXCEPT ![sb.vecBuf][bk.vecAddr] = vec.val] ELSE bram.out,
   outBus |-> IF i.op = "STORE" THEN OutBeat(bram.out[i.src], i.addr)
              ELSE IF sb.wr = "BUSY" /\ WrBeat(g) /\ bk.stCnt + 1 < bk.stTotal
              THEN OutBeat(bram.out[sb.wrBuf], bk.stBase + bk.stCnt + 1)
              ELSE bram.outBus]

(* Everything but the scoreboard and the window, for issued instruction i
   (NOP when nothing is issued). *)
Datapath(i, g) ==
  /\ rdm' = NextRdm(i, g)
  /\ wrm' = NextWrm(i, g)
  /\ arr' = NextArr(i, g)
  /\ vec' = NextVec(i)
  /\ bram' = NextBram(i, g)
  /\ dram' = IF WrBeat(g) THEN [dram EXCEPT ![wrm.addr] = bram.outBus] ELSE dram

Book(i, g) ==
  bk' = NextBookkeeping(bk, i, LdBeat(g), StBeat(g), arr.pm = "DONE")

-----------------------------------------------------------------------------
(* The instruction words in the window. *)
Words == [k \in Slot |-> Fetch(window[k])]

(* What the scheduler issues in this cycle: the instruction whose start pulses
   are on the wires. *)
Issuing == \E k \in Slot : Selected(sb, Words, k)
OnTheWires ==
  IF Issuing THEN Words[CHOOSE k \in Slot : Selected(sb, Words, k)] ELSE NOP

(* A cycle that issues the selected instruction; END is not popped. *)
Issue(op, g) ==
  \E k \in Slot :
    /\ Words[k].op = op
    /\ Selected(sb, Words, k)
    /\ IF op = "END" THEN FifoHold ELSE FifoPop(k)
    /\ sb' = NextScoreboard(sb, IssueEffect(sb, Words[k]), Events)
    /\ Book(Words[k], g)
    /\ Datapath(Words[k], g)
    /\ UNCHANGED <<loaded, runs, snap>>

(* A cycle that issues nothing: stalled, or idle. *)
NoIssue(g) ==
  /\ \A k \in Slot : ~Selected(sb, Words, k)
  /\ FifoHold
  /\ sb' = NextScoreboard(sb, sb, Events)
  /\ Book(NOP, g)
  /\ Datapath(NOP, g)
  /\ UNCHANGED <<loaded, runs, snap>>

(* The cycle of start_pulse, with the accelerator idle. *)
Start(g) ==
  /\ loaded
  /\ sb.accel = "IDLE"
  /\ FifoRestart
  /\ sb' = NextScoreboard(sb, StartEffect(sb), Events)
  /\ Book(NOP, g)
  /\ Datapath(NOP, g)
  /\ loaded' = FALSE
  /\ UNCHANGED <<runs, snap>>

(* The host writes the next program.  Host discipline: only after the last
   run is over, and only a program sim.py accepts in the present state. *)
LoadProgram(p) ==
  /\ runs < MAX_RUNS
  /\ ~loaded
  /\ sb.accel = "IDLE"
  /\ CanRun(Arch, p)
  /\ FifoProgram(p)
  /\ loaded' = TRUE
  /\ runs' = runs + 1
  /\ snap' = Arch
  /\ UNCHANGED <<sb, bk, rdm, wrm, arr, vec, bram, dram>>

Cycle(g) == NoIssue(g) \/ \E op \in Op : Issue(op, g)

Next ==
  \/ \E g \in Go : Cycle(g)
  \/ \E g \in Go : Start(g)
  \/ \E p \in Programs : LoadProgram(p)

Spec == Init /\ [][Next]_vars

(* The clock runs, the AXI slave answers every handshake in the end and the
   array drains.  The host is under no obligation. *)
Fairness ==
  /\ WF_vars(\E g \in Go : Cycle(g))
  /\ WF_vars(\E g \in Go : g.rd /\ Cycle(g))
  /\ WF_vars(\E g \in Go : g.wr /\ Cycle(g))
  /\ WF_vars(\E g \in Go : g.ar /\ Cycle(g))

FairSpec == Spec /\ Fairness

-----------------------------------------------------------------------------
(* The invariants. *)

EngineType ==
  /\ rdm \in [st: {"IDLE", "ADDR", "DATA", "DONE"}, addr: Dram, left: 0..255]
  /\ wrm \in [st: {"IDLE", "ADDR", "DATA", "RESP"}, addr: Dram, left: 0..255,
              done: BOOLEAN]
  /\ arr.pm \in {"IDLE", "RUNNING", "DONE"} /\ arr.rdv \in BOOLEAN
  /\ vec.left \in 0..3
  /\ bram.wtRdValid \in BOOLEAN

(* Every register holds a value of its declared width; the contents of the
   memories are free terms and are not typed. *)
TypeOK ==
  /\ FifoTypeOK
  /\ sb \in ScoreboardType
  /\ bk \in BookkeepingType
  /\ EngineType
  /\ loaded \in BOOLEAN
  /\ runs \in 0..MAX_RUNS

(* The window holds instructions in program order and each at most once, all
   of them fetched; "past the end" entries come last, and only after the whole
   memory was fetched (or before the first run). *)
WindowOrdered ==
  /\ \A j, k \in Slot :
       j < k => window[j] < window[k] \/ window[k] = INSTR_DEPTH
  /\ \/ \A k \in Slot : window[k] = INSTR_DEPTH
     \/ \A k \in Slot :
          \/ window[k] < fetchPtr
          \/ window[k] = INSTR_DEPTH /\ fetchPtr = INSTR_DEPTH

(* Out-of-order issue never lets an instruction overtake an older one that it
   conflicts with: whatever has left the window is independent of every older
   instruction still in it (the scheduler's hazard check, accumulated over
   all the pops of a run).  Between LoadProgram and Start the window still
   shows the last run's addresses. *)
NoOvertake ==
  ~loaded =>
    \A p \in Issued, k \in Slot :
      window[k] < p => ~Conflict(Fetch(window[k]), Fetch(p))

(* An engine is BUSY on the scoreboard exactly while its hardware has work,
   so no start pulse meets an engine that would ignore it and no completion
   pulse is lost.  `done' of the write master is the registered pulse.  A row
   is never fed into an array that has not delivered the last one. *)
EnginesTracked ==
  /\ sb.rd = "BUSY" <=> rdm.st # "IDLE"
  /\ sb.wr = "BUSY" <=> wrm.st # "IDLE" \/ wrm.done
  /\ wrm.done => wrm.st = "IDLE"
  /\ sb.array = "BUSY" <=> arr.rdv \/ arr.pm = "RUNNING" \/ ArrayPulse
  /\ arr.rdv => arr.pm # "RUNNING" /\ ~ArrayPulse
  /\ sb.vector = "BUSY" <=> vec.left > 0

(* A buffer is FILLING or IN_USE exactly while the engine that fills or drains
   it is busy with it: no buffer is left locked by an engine that has finished
   (nothing could ever issue on it again), and no busy engine works on a
   buffer the scoreboard would hand to another instruction.  The vector unit
   has its bias, and its output bank is not being drained. *)
BuffersOwned ==
  /\ \A b \in Bank :
       /\ sb.act[b] = "FILLING" <=>
            sb.rd = "BUSY" /\ sb.rdTarget = "ACT" /\ sb.rdBuf = b
       /\ sb.act[b] = "IN_USE" <=> sb.array = "BUSY" /\ sb.arrayBuf = b
       /\ sb.out[b] = "IN_USE" <=> sb.wr = "BUSY" /\ sb.wrBuf = b
       /\ sb.out[b] # "FILLING"
  /\ sb.bias = "FILLING" <=> sb.rd = "BUSY" /\ sb.rdTarget = "BIAS"
  /\ sb.wgt = "FILLING" <=>
       (sb.rd = "BUSY" /\ sb.rdTarget = "WEIGHT") \/ bram.wtRdValid
  /\ bram.wtRdValid => sb.rd = "IDLE"
  /\ sb.accum = "IN_USE" <=> sb.vector = "BUSY"
  /\ sb.array = "BUSY" => sb.accum = "FILLING"
  /\ sb.vector = "BUSY" => sb.bias = "READY" /\ sb.out[sb.vecBuf] # "IN_USE"

(* The row counter of an activation bank agrees with the bank's state: a bank
   that is not EMPTY has rows left, or will have when its load is over, and one
   that is EMPTY has none (the counter never wraps below zero). *)
RowsCounted ==
  \A b \in Bank :
    /\ sb.act[b] # "EMPTY" => sb.rows[b] \in 1..ROWS
    /\ sb.act[b] = "EMPTY" => sb.rows[b] = 0

(* rd_done means that every beat of the burst is in its buffer, and the write
   master's last data beat that every beat of the STORE has been presented. *)
BurstsComplete ==
  /\ rdm.st = "DONE" => bk.ldCnt = bk.ldTotal
  /\ wrm.st = "RESP" => bk.stCnt = bk.stTotal
  /\ rdm.st \in {"ADDR", "DATA"} => bk.ldCnt + rdm.left + 1 = bk.ldTotal
  /\ wrm.st \in {"ADDR", "DATA"} => bk.stCnt + wrm.left + 1 = bk.stTotal

(* Nothing outlives the run that began it: when no run is under way every
   engine is at rest, its completion has reached the scoreboard, and the weight
   tile that was read last has been presented. *)
EndsAtRest ==
  sb.accel = "IDLE" =>
    /\ rdm.st = "IDLE"
    /\ wrm.st = "IDLE" /\ ~wrm.done
    /\ ~arr.rdv /\ arr.row = <<>> /\ (arr.pm = "DONE" <=> bk.arrayDoneD)
    /\ arr.pm # "RUNNING"
    /\ vec.left = 0
    /\ ~bram.wtRdValid

(* While the write master drains an output bank, no vector result lands in it;
   while the array computes, its activation bank and its weights stand; while
   the vector unit computes, the rows and the bias it was given stand.  (The
   hazard of a pool of buffers shared by four engines.) *)
OperandsHeld ==
  /\ sb.wr = "BUSY" => bram'.out[sb.wrBuf] = bram.out[sb.wrBuf]
  /\ sb.array = "BUSY" =>
       /\ bram'.act[sb.arrayBuf] = bram.act[sb.arrayBuf]
       /\ arr'.wgt = arr.wgt
  /\ sb.vector = "BUSY" => bram'.acc = bram.acc /\ bram'.bias = bram.bias
OperandsStable == [][OperandsHeld]_vars

(* Out-of-order issue brings no deadlock: a run of a program that is legal in
   program order reaches its END. *)
RunCompletes == sb.accel = "BUSY" ~> sb.accel = "IDLE"

(* The programs load whole rows, as many as a bank has (the generators do). *)
WholeRows ==
  \A p \in Programs : \A n \in DOMAIN p :
    p[n].op = "LOAD_ACT" => RowsLoaded(p[n]) \in 1..ROWS

(* The host sees nothing but whole runs of the in-order machine: from the
   outside, the pipelined machine is AtomicAccelerator, whose run maps the
   state at its start to the state at its end in one step. *)
Job == IF loaded THEN "QUEUED" ELSE IF sb.accel = "BUSY" THEN "RUNNING" ELSE "NONE"

Atomic == INSTANCE AtomicAccelerator WITH
            arch <- IF Job = "NONE" THEN Arch ELSE snap,
            job <- Job,
            prog <- rom

RunsAreAtomic == Atomic!Spec
=============================================================================
