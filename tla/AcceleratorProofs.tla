------------------------- MODULE AcceleratorProofs -------------------------
(***************************************************************************)
(* Proofs about the accelerator core, for every value of the constants:    *)
(* the scoreboard and the issue logic; the engines and the buffers they    *)
(* share (the scoreboard tracks what the hardware does, no two engines     *)
(* work on one buffer, and operands stand while they are in use); and      *)
(* soft_reset at any moment.                                               *)
(*                                                                         *)
(* An operator that assigns several registers is taken apart into single   *)
(* assignments, each of which preserves the type (the Set lemmas).         *)
(* ClockEdge says register by register what one cycle does to the          *)
(* scoreboard; the proofs of the invariants cite it instead of the blocks  *)
(* of assignments it is made of.                                           *)
(***************************************************************************)
EXTENDS AcceleratorReset, TLAPS

LEMMA SetEngine ==
  ASSUME NEW s \in ScoreboardType, NEW x \in EngState
  PROVE  /\ [s EXCEPT !.rd = x] \in ScoreboardType
         /\ [s EXCEPT !.wr = x] \in ScoreboardType
         /\ [s EXCEPT !.array = x] \in ScoreboardType
         /\ [s EXCEPT !.vector = x] \in ScoreboardType
         /\ [s EXCEPT !.accel = x] \in ScoreboardType
BY DEF ScoreboardType

LEMMA SetBuffer ==
  ASSUME NEW s \in ScoreboardType, NEW x \in BufState
  PROVE  /\ [s EXCEPT !.wgt = x] \in ScoreboardType
         /\ [s EXCEPT !.accum = x] \in ScoreboardType
         /\ [s EXCEPT !.bias = x] \in ScoreboardType
BY DEF ScoreboardType

LEMMA SetBank ==
  ASSUME NEW s \in ScoreboardType, NEW x \in BufState, NEW b \in Bank
  PROVE  /\ [s EXCEPT !.act[b] = x] \in ScoreboardType
         /\ [s EXCEPT !.out[b] = x] \in ScoreboardType
BY DEF ScoreboardType

LEMMA SetRows ==
  ASSUME NEW s \in ScoreboardType, NEW b \in Bank, NEW n \in 0..ROW_COUNTS - 1
  PROVE  [s EXCEPT !.rows[b] = n] \in ScoreboardType
BY DEF ScoreboardType

LEMMA SetOperandBank ==
  ASSUME NEW s \in ScoreboardType, NEW b \in Bank
  PROVE  /\ [s EXCEPT !.rdBuf = b] \in ScoreboardType
         /\ [s EXCEPT !.wrBuf = b] \in ScoreboardType
         /\ [s EXCEPT !.arrayBuf = b] \in ScoreboardType
         /\ [s EXCEPT !.vecBuf = b] \in ScoreboardType
BY DEF ScoreboardType

LEMMA SetTarget ==
  ASSUME NEW s \in ScoreboardType, NEW t \in RdTarget
  PROVE  [s EXCEPT !.rdTarget = t] \in ScoreboardType
BY DEF ScoreboardType

LEMMA SetCtrl ==
  ASSUME NEW s \in ScoreboardType, NEW c \in Ctrl
  PROVE  [s EXCEPT !.arrayCtrl = c] \in ScoreboardType
BY DEF ScoreboardType

LEMMA SetWgtValid ==
  ASSUME NEW s \in ScoreboardType
  PROVE  [s EXCEPT !.wgtValid = TRUE] \in ScoreboardType
BY DEF ScoreboardType

LEMMA SetBaseOff ==
  ASSUME NEW s \in ScoreboardType, NEW k \in Base, NEW n \in Nat
  PROVE  [s EXCEPT !.baseOff[k] = n] \in ScoreboardType
BY DEF ScoreboardType

LEMMA ClearBaseOff ==
  ASSUME NEW s \in ScoreboardType
  PROVE  [s EXCEPT !.baseOff = [b \in Base |-> 0]] \in ScoreboardType
BY DEF ScoreboardType

-----------------------------------------------------------------------------
(* Row counts wrap at the width of act_rows_remaining. *)
LEMMA RowCountTyped ==
  /\ \A n \in Int : n % ROW_COUNTS \in 0..ROW_COUNTS - 1
  /\ ROW_COUNTS \in Nat /\ ROW_COUNTS >= 2
<1>1. ROW_COUNTS \in Nat /\ ROW_COUNTS >= 2
  BY IsaAssumption DEF ROW_COUNTS
<1> QED
  BY <1>1

LEMMA RowsLoadedTyped ==
  ASSUME NEW i \in Instruction
  PROVE  RowsLoaded(i) \in Int
<1>1. BEATS_PER_ROW \in Nat \ {0} /\ i.len + 1 \in Int
  BY IsaAssumption DEF Instruction
<1> QED
  BY <1>1 DEF RowsLoaded

LEMMA IssueTyped ==
  ASSUME NEW s \in ScoreboardType, NEW i \in Instruction
  PROVE  IssueEffect(s, i) \in ScoreboardType
<1>1. CASE i.op = "LOAD_WGT"
  <2> DEFINE r1 == [s EXCEPT !.rd = "BUSY"]
             r2 == [r1 EXCEPT !.rdTarget = "WEIGHT"]
             r3 == [r2 EXCEPT !.wgt = "FILLING"]
  <2>1. IssueEffect(s, i) = r3
    BY <1>1 DEF IssueEffect
  <2>2. r1 \in ScoreboardType
    BY SetEngine DEF EngState
  <2> HIDE DEF r1
  <2>3. r2 \in ScoreboardType
    BY SetTarget, <2>2 DEF RdTarget
  <2> HIDE DEF r2
  <2>4. r3 \in ScoreboardType
    BY SetBuffer, <2>3 DEF BufState
  <2> QED
    BY <2>1, <2>4
<1>2. CASE i.op = "LOAD_ACT"
  <2> DEFINE r1 == [s EXCEPT !.rd = "BUSY"]
             r2 == [r1 EXCEPT !.rdTarget = "ACT"]
             r3 == [r2 EXCEPT !.rdBuf = i.dst]
             r4 == [r3 EXCEPT !.act[i.dst] = "FILLING"]
             r5 == [r4 EXCEPT !.rows[i.dst] = RowsLoaded(i) % ROW_COUNTS]
  <2>1. i.dst \in Bank
    BY DEF Instruction
  <2>2. RowsLoaded(i) % ROW_COUNTS \in 0..ROW_COUNTS - 1
    BY RowsLoadedTyped, RowCountTyped
  <2>3. IssueEffect(s, i) = r5
    BY <1>2 DEF IssueEffect
  <2>4. r1 \in ScoreboardType
    BY SetEngine, <2>1, <2>2 DEF EngState
  <2> HIDE DEF r1
  <2>5. r2 \in ScoreboardType
    BY SetTarget, <2>1, <2>2, <2>4 DEF RdTarget
  <2> HIDE DEF r2
  <2>6. r3 \in ScoreboardType
    BY SetOperandBank, <2>1, <2>2, <2>5
  <2> HIDE DEF r3
  <2>7. r4 \in ScoreboardType
    BY SetBank, <2>1, <2>2, <2>6 DEF BufState
  <2> HIDE DEF r4
  <2>8. r5 \in ScoreboardType
    BY SetRows, <2>1, <2>2, <2>7
  <2> QED
    BY <2>3, <2>8
<1>3. CASE i.op = "LOAD_BIAS"
  <2> DEFINE r1 == [s EXCEPT !.rd = "BUSY"]
             r2 == [r1 EXCEPT !.rdTarget = "BIAS"]
             r3 == [r2 EXCEPT !.bias = "FILLING"]
  <2>1. IssueEffect(s, i) = r3
    BY <1>3 DEF IssueEffect
  <2>2. r1 \in ScoreboardType
    BY SetEngine DEF EngState
  <2> HIDE DEF r1
  <2>3. r2 \in ScoreboardType
    BY SetTarget, <2>2 DEF RdTarget
  <2> HIDE DEF r2
  <2>4. r3 \in ScoreboardType
    BY SetBuffer, <2>3 DEF BufState
  <2> QED
    BY <2>1, <2>4
<1>4. CASE i.op = "MATMUL"
  <2> DEFINE r1 == [s EXCEPT !.array = "BUSY"]
             r2 == [r1 EXCEPT !.arrayBuf = i.src]
             r3 == [r2 EXCEPT !.arrayCtrl = i.ctrl]
             r4 == [r3 EXCEPT !.act[i.src] = "IN_USE"]
             r5 == [r4 EXCEPT !.accum = "FILLING"]
  <2>1. i.src \in Bank /\ i.ctrl \in Ctrl
    BY DEF Instruction
  <2>2. IssueEffect(s, i) = r5
    BY <1>4 DEF IssueEffect
  <2>3. r1 \in ScoreboardType
    BY SetEngine, <2>1 DEF EngState
  <2> HIDE DEF r1
  <2>4. r2 \in ScoreboardType
    BY SetOperandBank, <2>1, <2>3
  <2> HIDE DEF r2
  <2>5. r3 \in ScoreboardType
    BY SetCtrl, <2>1, <2>4
  <2> HIDE DEF r3
  <2>6. r4 \in ScoreboardType
    BY SetBank, <2>1, <2>5 DEF BufState
  <2> HIDE DEF r4
  <2>7. r5 \in ScoreboardType
    BY SetBuffer, <2>1, <2>6 DEF BufState
  <2> QED
    BY <2>2, <2>7
<1>5. CASE i.op = "VECTOR"
  <2> DEFINE r1 == [s EXCEPT !.vector = "BUSY"]
             r2 == [r1 EXCEPT !.vecBuf = i.dst]
             r3 == [r2 EXCEPT !.accum = "IN_USE"]
  <2>1. i.dst \in Bank
    BY DEF Instruction
  <2>2. IssueEffect(s, i) = r3
    BY <1>5 DEF IssueEffect
  <2>3. r1 \in ScoreboardType
    BY SetEngine, <2>1 DEF EngState
  <2> HIDE DEF r1
  <2>4. r2 \in ScoreboardType
    BY SetOperandBank, <2>1, <2>3
  <2> HIDE DEF r2
  <2>5. r3 \in ScoreboardType
    BY SetBuffer, <2>1, <2>4 DEF BufState
  <2> QED
    BY <2>2, <2>5
<1>6. CASE i.op = "STORE"
  <2> DEFINE r1 == [s EXCEPT !.wr = "BUSY"]
             r2 == [r1 EXCEPT !.wrBuf = i.src]
             r3 == [r2 EXCEPT !.out[i.src] = "IN_USE"]
  <2>1. i.src \in Bank
    BY DEF Instruction
  <2>2. IssueEffect(s, i) = r3
    BY <1>6 DEF IssueEffect
  <2>3. r1 \in ScoreboardType
    BY SetEngine, <2>1 DEF EngState
  <2> HIDE DEF r1
  <2>4. r2 \in ScoreboardType
    BY SetOperandBank, <2>1, <2>3
  <2> HIDE DEF r2
  <2>5. r3 \in ScoreboardType
    BY SetBank, <2>1, <2>4 DEF BufState
  <2> QED
    BY <2>2, <2>5
<1>7. CASE i.op = "SWAP_WGT"
  <2> DEFINE r1 == [s EXCEPT !.wgt = "EMPTY"]
             r2 == [r1 EXCEPT !.wgtValid = TRUE]
  <2>1. IssueEffect(s, i) = r2
    BY <1>7 DEF IssueEffect
  <2>2. r1 \in ScoreboardType
    BY SetBuffer DEF BufState
  <2> HIDE DEF r1
  <2>3. r2 \in ScoreboardType
    BY SetWgtValid, <2>2
  <2> QED
    BY <2>1, <2>3
<1>8. CASE i.op = "END"
  <2> DEFINE r1 == [s EXCEPT !.accel = "IDLE"]
  <2>1. IssueEffect(s, i) = r1
    BY <1>8 DEF IssueEffect
  <2>2. r1 \in ScoreboardType
    BY SetEngine DEF EngState
  <2> QED
    BY <2>1, <2>2
<1>9. CASE i.op = "SET_BASE"
  <2> DEFINE r1 == [s EXCEPT !.baseOff[i.base] = i.imm]
  <2>1. i.base \in Base /\ i.imm \in Nat
    BY DEF Instruction
  <2>2. IssueEffect(s, i) = r1
    BY <1>9 DEF IssueEffect
  <2>3. r1 \in ScoreboardType
    BY SetBaseOff, <2>1
  <2> QED
    BY <2>2, <2>3
<1>10. CASE i.op = "NOP"
  BY <1>10 DEF IssueEffect
<1> QED
  BY <1>1, <1>2, <1>3, <1>4, <1>5, <1>6, <1>7, <1>8, <1>9, <1>10
  DEF Instruction, Op

LEMMA StartTyped ==
  ASSUME NEW s \in ScoreboardType
  PROVE  StartEffect(s) \in ScoreboardType
<1> DEFINE r1 == [s EXCEPT !.accel = "BUSY"]
           r2 == [r1 EXCEPT !.baseOff = [k \in Base |-> 0]]
<1>1. StartEffect(s) = r2
  BY DEF StartEffect
<1>2. r1 \in ScoreboardType
  BY SetEngine DEF EngState
<1> HIDE DEF r1
<1>3. r2 \in ScoreboardType
  BY ClearBaseOff, <1>2
<1> QED
  BY <1>1, <1>3

LEMMA ReadDoneTyped ==
  ASSUME NEW s \in ScoreboardType, NEW old \in ScoreboardType
  PROVE  ReadDone(s, old) \in ScoreboardType
<1> DEFINE r1 == [s EXCEPT !.rd = "IDLE"]
           x  == IF old.rdTarget = "BIAS" THEN "READY" ELSE r1.bias
           r2 == [r1 EXCEPT !.bias = x]
           y  == IF old.rdTarget = "ACT" THEN "READY" ELSE r2.act[old.rdBuf]
           r3 == [r2 EXCEPT !.act[old.rdBuf] = y]
<1>1. old.rdBuf \in Bank
  BY DEF ScoreboardType
<1>2. ReadDone(s, old) = r3
  BY DEF ReadDone
<1>3. r1 \in ScoreboardType
  BY SetEngine DEF EngState
<1> HIDE DEF r1
<1>4. x \in BufState
  BY <1>3 DEF ScoreboardType, BufState
<1> HIDE DEF x
<1>5. r2 \in ScoreboardType
  BY <1>3, <1>4, SetBuffer
<1> HIDE DEF r2
<1>6. y \in BufState
  BY <1>1, <1>5 DEF ScoreboardType, BufState
<1> HIDE DEF y
<1>7. r3 \in ScoreboardType
  BY <1>1, <1>5, <1>6, SetBank
<1> QED
  BY <1>2, <1>7

LEMMA WeightsValidTyped ==
  ASSUME NEW s \in ScoreboardType
  PROVE  WeightsValid(s) \in ScoreboardType
BY SetBuffer DEF WeightsValid, BufState

LEMMA ArrayDoneTyped ==
  ASSUME NEW s \in ScoreboardType, NEW old \in ScoreboardType
  PROVE  ArrayDone(s, old) \in ScoreboardType
<1> DEFINE b == old.arrayBuf
           n == (old.rows[b] + ROW_COUNTS - 1) % ROW_COUNTS
           x == IF old.rows[b] <= 1 THEN "EMPTY" ELSE "READY"
           y == IF old.arrayCtrl \in {"NONE", "LAST"} THEN "READY" ELSE "FILLING"
           r1 == [s EXCEPT !.array = "IDLE"]
           r2 == [r1 EXCEPT !.rows[b] = n]
           r3 == [r2 EXCEPT !.act[b] = x]
           r4 == [r3 EXCEPT !.accum = y]
<1>1. ArrayDone(s, old) = r4
  BY DEF ArrayDone
<1>2. b \in Bank /\ old.rows[b] \in Int
  BY RowCountTyped DEF ScoreboardType
<1>3. n \in 0..ROW_COUNTS - 1
  BY <1>2, RowCountTyped
<1>4. x \in BufState /\ y \in BufState
  BY DEF BufState
<1> HIDE DEF b, n, x, y
<1>5. r1 \in ScoreboardType
  BY SetEngine DEF EngState
<1> HIDE DEF r1
<1>6. r2 \in ScoreboardType
  BY <1>2, <1>3, <1>5, SetRows
<1> HIDE DEF r2
<1>7. r3 \in ScoreboardType
  BY <1>2, <1>4, <1>6, SetBank
<1> HIDE DEF r3
<1>8. r4 \in ScoreboardType
  BY <1>4, <1>7, SetBuffer
<1> QED
  BY <1>1, <1>8

LEMMA WriteDoneTyped ==
  ASSUME NEW s \in ScoreboardType, NEW old \in ScoreboardType
  PROVE  WriteDone(s, old) \in ScoreboardType
<1> DEFINE r1 == [s EXCEPT !.wr = "IDLE"]
           r2 == [r1 EXCEPT !.out[old.wrBuf] = "EMPTY"]
<1>1. old.wrBuf \in Bank
  BY DEF ScoreboardType
<1>2. WriteDone(s, old) = r2
  BY DEF WriteDone
<1>3. r1 \in ScoreboardType
  BY SetEngine, <1>1 DEF EngState
<1> HIDE DEF r1
<1>4. r2 \in ScoreboardType
  BY SetBank, <1>1, <1>3 DEF BufState
<1> QED
  BY <1>2, <1>4

LEMMA VectorDoneTyped ==
  ASSUME NEW s \in ScoreboardType, NEW old \in ScoreboardType
  PROVE  VectorDone(s, old) \in ScoreboardType
<1> DEFINE r1 == [s EXCEPT !.vector = "IDLE"]
           r2 == [r1 EXCEPT !.accum = "EMPTY"]
           r3 == [r2 EXCEPT !.out[old.vecBuf] = "READY"]
<1>1. old.vecBuf \in Bank
  BY DEF ScoreboardType
<1>2. VectorDone(s, old) = r3
  BY DEF VectorDone
<1>3. r1 \in ScoreboardType
  BY SetEngine, <1>1 DEF EngState
<1> HIDE DEF r1
<1>4. r2 \in ScoreboardType
  BY SetBuffer, <1>1, <1>3 DEF BufState
<1> HIDE DEF r2
<1>5. r3 \in ScoreboardType
  BY SetBank, <1>1, <1>4 DEF BufState
<1> QED
  BY <1>2, <1>5

(* Whatever is issued and whatever completes in the same cycle, the registers
   stay within their types. *)
THEOREM ScoreboardTyped ==
  ASSUME NEW old \in ScoreboardType, NEW s1 \in ScoreboardType, NEW ev
  PROVE  NextScoreboard(old, s1, ev) \in ScoreboardType
<1> DEFINE r2 == When(ev.rdDone, ReadDone(s1, old), s1)
           r3 == When(ev.wtValid, WeightsValid(r2), r2)
           r4 == When(ev.arrayDone, ArrayDone(r3, old), r3)
           r5 == When(ev.wrDone, WriteDone(r4, old), r4)
           r6 == When(ev.vectorDone, VectorDone(r5, old), r5)
<1>1. NextScoreboard(old, s1, ev) = r6
  BY DEF NextScoreboard
<1>2. r2 \in ScoreboardType
  BY ReadDoneTyped DEF When
<1> HIDE DEF r2
<1>3. r3 \in ScoreboardType
  BY <1>2, WeightsValidTyped DEF When
<1> HIDE DEF r3
<1>4. r4 \in ScoreboardType
  BY <1>3, ArrayDoneTyped DEF When
<1> HIDE DEF r4
<1>5. r5 \in ScoreboardType
  BY <1>4, WriteDoneTyped DEF When
<1> HIDE DEF r5
<1>6. r6 \in ScoreboardType
  BY <1>5, VectorDoneTyped DEF When
<1> QED
  BY <1>1, <1>6

LEMMA ResetTyped == ResetScoreboard \in ScoreboardType
BY IsaAssumption, RowCountTyped
   DEF ResetScoreboard, ScoreboardType, BufState, EngState, RdTarget, Bank, Base, Ctrl

-----------------------------------------------------------------------------
(* The steps of the machine, as the window sees them. *)
FifoStep ==
  \/ FifoHold /\ loaded' = loaded
  \/ FifoRestart
  \/ \E p \in Programs : FifoProgram(p) /\ loaded' = TRUE
  \/ \E k \in Slot : /\ Selected(sb, Words, k)
                     /\ Words[k].op # "END"
                     /\ FifoPop(k)
                     /\ loaded' = loaded

LEMMA WindowSteps ==
  ASSUME [Next]_vars
  PROVE  FifoStep
<1>1. CASE \E g \in Go : Cycle(g)
  <2>1. PICK g \in Go : Cycle(g)
    BY <1>1
  <2>2. CASE NoIssue(g)
    BY <2>2 DEF NoIssue, FifoStep
  <2>3. CASE \E op \in Op : Issue(op, g)
    <3>1. PICK op \in Op : Issue(op, g)
      BY <2>3
    <3>2. PICK k \in Slot :
            /\ Selected(sb, Words, k)
            /\ Words[k].op = op
            /\ IF op = "END" THEN FifoHold ELSE FifoPop(k)
            /\ loaded' = loaded
      BY <3>1 DEF Issue
    <3> QED
      BY <3>2 DEF FifoStep
  <2> QED
    BY <2>1, <2>2, <2>3 DEF Cycle
<1>2. CASE \E g \in Go : Start(g)
  BY <1>2 DEF Start, FifoStep
<1>3. CASE \E p \in Programs : LoadProgram(p)
  BY <1>3 DEF LoadProgram, FifoStep
<1>4. CASE UNCHANGED vars
  BY <1>4 DEF vars, FifoStep, FifoHold, fifoVars
<1> QED
  BY <1>1, <1>2, <1>3, <1>4 DEF Next

-----------------------------------------------------------------------------
(* The instruction memory, the window and the fetch pointer always hold values
   of their declared widths. *)
LEMMA FifoTypeStep ==
  ASSUME FifoTypeOK, FifoStep
  PROVE  FifoTypeOK'
<1> USE FifoAssumption, HostAssumption DEF FifoTypeOK, Slot
<1>1. CASE FifoHold
  BY <1>1 DEF FifoHold, fifoVars
<1>2. CASE FifoRestart
  BY <1>2 DEF FifoRestart
<1>3. ASSUME NEW p \in Programs, FifoProgram(p) PROVE FifoTypeOK'
  BY <1>3 DEF FifoProgram
<1>4. ASSUME NEW k \in Slot, FifoPop(k) PROVE FifoTypeOK'
  <2>1. window' \in [Slot -> 0..INSTR_DEPTH]
    BY <1>4 DEF FifoPop
  <2>2. fetchPtr' \in 0..INSTR_DEPTH /\ rom' = rom
    BY <1>4 DEF FifoPop
  <2> QED
    BY <2>1, <2>2
<1> QED
  BY <1>1, <1>2, <1>3, <1>4 DEF FifoStep

(* A slot that is not END holds a fetched address below the end of memory. *)
LEMMA PoppedIsFetched ==
  ASSUME FifoTypeOK, WindowOrdered, NEW k \in Slot, Words[k].op # "END"
  PROVE  /\ window[k] < INSTR_DEPTH
         /\ \A j \in Slot : \/ window[j] < fetchPtr
                            \/ window[j] = INSTR_DEPTH /\ fetchPtr = INSTR_DEPTH
<1>1. window[k] \in 0..INSTR_DEPTH /\ Len(rom) \in Nat /\ Len(rom) <= INSTR_DEPTH
  BY DEF FifoTypeOK
<1>2. END.op = "END"
  BY DEF END, Blank
<1>3. window[k] < Len(rom)
  BY <1>2 DEF Words, Fetch
<1>4. window[k] # INSTR_DEPTH
  BY <1>1, <1>3, FifoAssumption
<1> QED
  BY <1>1, <1>4, FifoAssumption DEF WindowOrdered

(* Popping keeps program order in the window. *)
LEMMA PopKeepsOrder ==
  ASSUME FifoTypeOK, WindowOrdered,
         NEW k \in Slot, Words[k].op # "END", FifoPop(k)
  PROVE  WindowOrdered'
<1> USE FifoAssumption DEF Slot
<1>1. \A j \in Slot : \/ window[j] < fetchPtr
                      \/ window[j] = INSTR_DEPTH /\ fetchPtr = INSTR_DEPTH
  BY PoppedIsFetched
<1>2. /\ window \in [Slot -> 0..INSTR_DEPTH]
      /\ fetchPtr \in 0..INSTR_DEPTH
      /\ fetchPtr' = IF fetchPtr < INSTR_DEPTH THEN fetchPtr + 1 ELSE fetchPtr
      /\ \A j \in Slot :
           window'[j] = IF j = WINDOW_SIZE THEN fetchPtr
                        ELSE IF j >= k THEN window[j + 1] ELSE window[j]
  BY DEF FifoTypeOK, FifoPop
<1>3. \A j \in Slot : \/ window'[j] < fetchPtr'
                      \/ window'[j] = INSTR_DEPTH /\ fetchPtr' = INSTR_DEPTH
  <2>1. SUFFICES ASSUME NEW j \in Slot
                 PROVE  \/ window'[j] < fetchPtr'
                        \/ window'[j] = INSTR_DEPTH /\ fetchPtr' = INSTR_DEPTH
    OBVIOUS
  <2>2. CASE j = WINDOW_SIZE
    BY <1>2, <2>2
  <2>3. CASE j < WINDOW_SIZE
    <3>1. PICK i \in Slot : window'[j] = window[i]
      BY <1>2, <2>3
    <3> QED
      BY <1>1, <1>2, <3>1
  <2> QED
    BY <2>2, <2>3
<1>4. ASSUME NEW i \in Slot, NEW j \in Slot, i < j
      PROVE  window'[i] < window'[j] \/ window'[j] = INSTR_DEPTH
  <2>1. \A x, y \in Slot : x < y => window[x] < window[y] \/ window[y] = INSTR_DEPTH
    BY DEF WindowOrdered
  <2>2. CASE j = WINDOW_SIZE
    BY <1>1, <1>2, <1>4, <2>2
  <2>3. CASE j < WINDOW_SIZE
    <3> DEFINE from(x) == IF x >= k THEN x + 1 ELSE x
    <3>1. from(i) \in Slot /\ from(j) \in Slot /\ from(i) < from(j)
      BY ONLY <1>4, <2>3, FifoAssumption, k \in Slot DEF Slot
    <3>2. /\ i # WINDOW_SIZE /\ j # WINDOW_SIZE
          /\ window'[i] = window[from(i)]
          /\ window'[j] = window[from(j)]
      <4>1. i # WINDOW_SIZE /\ j # WINDOW_SIZE
        BY ONLY <1>4, <2>3, FifoAssumption DEF Slot
      <4> QED
        BY ONLY <1>2, <4>1, i \in Slot, j \in Slot
    <3>3. window[from(i)] < window[from(j)] \/ window[from(j)] = INSTR_DEPTH
      BY ONLY <2>1, <3>1
    <3> QED
      BY ONLY <3>2, <3>3
  <2> QED
    BY <2>2, <2>3
<1> QED
  BY <1>3, <1>4 DEF WindowOrdered

(* Restarting puts the first instructions into the window. *)
LEMMA RestartOrders ==
  ASSUME FifoRestart
  PROVE  WindowOrdered' /\ Issued' = {}
<1> USE FifoAssumption DEF Slot
<1>1. /\ \A k \in Slot : window'[k] = k - 1
      /\ fetchPtr' = WINDOW_SIZE
  BY DEF FifoRestart
<1>2. ASSUME NEW p \in 0..WINDOW_SIZE - 1
      PROVE  \E k \in Slot : window'[k] = p
  <2>1. p + 1 \in Slot /\ window'[p + 1] = p
    BY <1>1
  <2> QED
    BY <2>1
<1> QED
  BY <1>1, <1>2 DEF WindowOrdered, Issued

-----------------------------------------------------------------------------
(* The inductive invariant of the issue logic. *)
FifoInv == FifoTypeOK /\ WindowOrdered /\ NoOvertake

(* Popping slot k adds window[k] to the issued instructions and keeps the rest
   of the window below the new entry. *)
LEMMA PopIssues ==
  ASSUME FifoTypeOK, WindowOrdered,
         NEW k \in Slot, Words[k].op # "END", FifoPop(k)
  PROVE  /\ \A p \in Issued' : p \in Issued \/ p = window[k]
         /\ \A p \in Issued', j \in Slot :
              window'[j] < p => \E i \in Slot : window[i] = window'[j]
         /\ \A i \in Slot : window[i] < window[k] => i < k
<1> USE FifoAssumption DEF Slot
<1>1. /\ window[k] < INSTR_DEPTH
      /\ \A j \in Slot : \/ window[j] < fetchPtr
                         \/ window[j] = INSTR_DEPTH /\ fetchPtr = INSTR_DEPTH
  BY PoppedIsFetched
<1>2. /\ window \in [Slot -> 0..INSTR_DEPTH]
      /\ fetchPtr \in 0..INSTR_DEPTH
      /\ fetchPtr' = IF fetchPtr < INSTR_DEPTH THEN fetchPtr + 1 ELSE fetchPtr
      /\ \A j \in Slot :
           window'[j] = IF j = WINDOW_SIZE THEN fetchPtr
                        ELSE IF j >= k THEN window[j + 1] ELSE window[j]
  BY DEF FifoTypeOK, FifoPop
<1>3. ASSUME NEW p \in Issued'
      PROVE  p \in 0..fetchPtr - 1 /\ \A j \in Slot : window'[j] # p
  <2>1. p \in 0..fetchPtr' - 1 /\ \A j \in Slot : window'[j] # p
    BY DEF Issued
  <2>2. window'[WINDOW_SIZE] = fetchPtr
    BY <1>2
  <2> QED
    BY <1>2, <2>1, <2>2
<1>4. ASSUME NEW p \in Issued', p # window[k]
      PROVE  p \in Issued
  <2>1. SUFFICES ASSUME NEW i \in Slot, window[i] = p PROVE FALSE
    BY <1>3 DEF Issued
  <2>2. CASE i < k
    <3>1. window'[i] = window[i]
      BY <1>2, <2>2
    <3> QED
      BY <1>3, <2>1, <3>1
  <2>3. CASE i > k
    <3>1. i - 1 \in Slot /\ window'[i - 1] = window[i]
      BY <1>2, <2>3
    <3> QED
      BY <1>3, <2>1, <3>1
  <2> QED
    BY <1>4, <2>1, <2>2, <2>3
<1>5. ASSUME NEW p \in Issued', NEW j \in Slot, window'[j] < p
      PROVE  \E i \in Slot : window[i] = window'[j]
  BY <1>2, <1>3, <1>5
<1>6. ASSUME NEW i \in Slot, window[i] < window[k]
      PROVE  i < k
  <2>1. k < i => window[k] < window[i] \/ window[i] = INSTR_DEPTH
    BY DEF WindowOrdered
  <2> QED
    BY <1>1, <1>2, <1>6, <2>1
<1> QED
  BY <1>4, <1>5, <1>6

(* The instruction that is popped conflicts with no older one. *)
LEMMA SelectedIsIndependent ==
  ASSUME NEW k \in Slot, Selected(sb, Words, k), NEW i \in Slot, i < k
  PROVE  ~Conflict(Fetch(window[i]), Fetch(window[k]))
<1>1. i \in 1..k - 1
  BY FifoAssumption DEF Slot
<1> QED
  BY <1>1 DEF Selected, Eligible, Words

LEMMA PopKeepsNoOvertake ==
  ASSUME FifoInv, NEW k \in Slot, Selected(sb, Words, k),
         Words[k].op # "END", FifoPop(k), loaded' = loaded
  PROVE  NoOvertake'
<1>1. SUFFICES ASSUME ~loaded, NEW p \in Issued', NEW j \in Slot, window'[j] < p
               PROVE  ~Conflict(Fetch(window'[j]), Fetch(p))
  <2>1. rom' = rom
    BY DEF FifoPop
  <2> QED
    BY <2>1 DEF NoOvertake, Fetch
<1>2. PICK i \in Slot : window[i] = window'[j]
  BY <1>1, PopIssues DEF FifoInv
<1>3. CASE p \in Issued
  BY <1>1, <1>2, <1>3 DEF FifoInv, NoOvertake
<1>4. CASE p = window[k]
  <2>1. i < k
    BY <1>1, <1>2, <1>4, PopIssues DEF FifoInv
  <2> QED
    BY <1>2, <1>4, <2>1, SelectedIsIndependent
<1> QED
  BY <1>3, <1>4, PopIssues DEF FifoInv

LEMMA FifoInvStep ==
  ASSUME FifoInv, FifoStep
  PROVE  FifoInv'
<1>1. FifoTypeOK'
  BY FifoTypeStep DEF FifoInv
<1>2. CASE FifoHold /\ loaded' = loaded
  BY <1>1, <1>2 DEF FifoInv, FifoHold, fifoVars, WindowOrdered, NoOvertake, Issued, Fetch
<1>3. CASE FifoRestart
  BY <1>1, <1>3, RestartOrders DEF FifoInv, NoOvertake
<1>4. CASE \E p \in Programs : FifoProgram(p) /\ loaded' = TRUE
  BY <1>1, <1>4 DEF FifoInv, FifoProgram, WindowOrdered, NoOvertake
<1>5. CASE \E k \in Slot : /\ Selected(sb, Words, k)
                           /\ Words[k].op # "END"
                           /\ FifoPop(k)
                           /\ loaded' = loaded
  BY <1>1, <1>5, PopKeepsOrder, PopKeepsNoOvertake DEF FifoInv
<1> QED
  BY <1>2, <1>3, <1>4, <1>5 DEF FifoStep

LEMMA FifoInvInit == Init => FifoInv
<1> USE FifoAssumption
<1>1. Init => FifoTypeOK
  BY DEF Init, FifoInit, FifoTypeOK
<1>2. Init => WindowOrdered
  BY DEF Init, FifoInit, WindowOrdered, Slot
<1>3. Init => Issued = {}
  BY DEF Init, FifoInit, Issued
<1> QED
  BY <1>1, <1>2, <1>3 DEF FifoInv, NoOvertake

(* The inductive invariant of issue: types, program order in the window and no
   instruction issued over one it depends on. *)
THEOREM IssueInvariant == Spec => []FifoInv
<1>1. FifoInv /\ [Next]_vars => FifoInv'
  BY WindowSteps, FifoInvStep
<1> QED
  BY FifoInvInit, <1>1, PTL DEF Spec

(* The window is a queue in program order, each instruction at most once. *)
THEOREM WindowStaysOrdered == Spec => []WindowOrdered
BY IssueInvariant, PTL DEF FifoInv

(* Out-of-order issue never reorders two instructions that conflict. *)
THEOREM NeverOvertakes == Spec => []NoOvertake
BY IssueInvariant, PTL DEF FifoInv

-----------------------------------------------------------------------------
(* Type correctness of the whole machine. *)

LEMMA BuilderTyped == NOP \in Instruction /\ END \in Instruction
BY DEF NOP, END, Blank, Instruction, Op, Ctrl, Bank, Base

LEMMA WordsTyped ==
  ASSUME FifoTypeOK, NEW k \in Slot
  PROVE  Words[k] \in Instruction
<1>1. window[k] \in Nat /\ Len(rom) \in Nat
  BY FifoAssumption DEF FifoTypeOK
<1>2. CASE window[k] < Len(rom)
  <2>1. window[k] + 1 \in 1..Len(rom)
    BY <1>1, <1>2
  <2>2. rom[window[k] + 1] \in Instruction
    BY <2>1 DEF FifoTypeOK
  <2> QED
    BY <1>2, <2>2 DEF Words, Fetch
<1>3. CASE ~(window[k] < Len(rom))
  BY <1>3, BuilderTyped DEF Words, Fetch
<1> QED
  BY <1>2, <1>3

LEMMA RowTyped ==
  ASSUME NEW a \in Int
  PROVE  a % ROWS \in Row
<1>1. ROWS \in Nat /\ ROWS > 0
  BY IsaAssumption
<1> QED
  BY <1>1 DEF Row

LEMMA AddressTyped ==
  /\ \A a \in Int : a % DRAM_BEATS \in Dram
  /\ \A k \in Base, off \in Nat, a \in 0..255 : DmaAddr(k, off, a) \in Dram
<1>1. DRAM_BEATS \in Nat /\ DRAM_BEATS > 0
  BY IsaAssumption
<1>2. \A a \in Int : a % DRAM_BEATS \in Dram
  BY <1>1 DEF Dram
<1>3. ASSUME NEW k \in Base, NEW off \in Nat, NEW a \in 0..255
      PROVE  DmaAddr(k, off, a) \in Dram
  <2>1. CSR[k] \in Nat
    BY IsaAssumption
  <2>2. CSR[k] + off + a \in Int
    BY <2>1
  <2> QED
    BY <1>2, <2>2 DEF DmaAddr
<1> QED
  BY <1>2, <1>3

(* The beat counters stop at the length of their burst. *)
LEMMA BookTyped ==
  ASSUME NEW b \in BookkeepingType, NEW i \in Instruction,
         NEW ld \in BOOLEAN, NEW st \in BOOLEAN, NEW ad \in BOOLEAN,
         ld => b.ldCnt < b.ldTotal, st => b.stCnt < b.stTotal
  PROVE  NextBookkeeping(b, i, ld, st, ad) \in BookkeepingType
<1> DEFINE n == NextBookkeeping(b, i, ld, st, ad)
<1>1. i.addr \in 0..255 /\ i.len \in 0..255 /\ i.addr % ROWS \in Row
  BY RowTyped DEF Instruction
<1>2. /\ b.ldCnt \in 0..256 /\ b.ldTotal \in 0..256 /\ b.ldBase \in 0..255
      /\ b.stCnt \in 0..256 /\ b.stTotal \in 0..256 /\ b.stBase \in 0..255
      /\ b.mmAddr \in Row /\ b.vecAddr \in Row
  BY DEF BookkeepingType
<1>3. /\ (IF i.op \in LoadOp THEN 0
          ELSE IF ld THEN b.ldCnt + 1 ELSE b.ldCnt) \in 0..256
      /\ (IF i.op \in LoadOp THEN i.len + 1 ELSE b.ldTotal) \in 0..256
      /\ (IF i.op \in LoadOp THEN i.addr ELSE b.ldBase) \in 0..255
  <2>1. b.ldCnt + 1 \in Int /\ (ld => b.ldCnt + 1 \in 0..256)
    BY ONLY <1>2, ld => b.ldCnt < b.ldTotal
  <2>2. i.len + 1 \in 0..256
    BY ONLY <1>1
  <2>3. ASSUME i.op \in LoadOp PROVE (IF i.op \in LoadOp THEN 0
                       ELSE IF ld THEN b.ldCnt + 1 ELSE b.ldCnt) \in 0..256
    BY ONLY <2>3
  <2>4. ASSUME ~(i.op \in LoadOp) PROVE (IF i.op \in LoadOp THEN 0
                       ELSE IF ld THEN b.ldCnt + 1 ELSE b.ldCnt) \in 0..256
    BY ONLY <1>2, <2>1, <2>4, ld \in BOOLEAN
  <2>5. (IF i.op \in LoadOp THEN i.len + 1 ELSE b.ldTotal) \in 0..256
    BY ONLY <1>2, <2>2
  <2>6. (IF i.op \in LoadOp THEN i.addr ELSE b.ldBase) \in 0..255
    BY ONLY <1>1, <1>2
  <2> QED
    BY ONLY <2>3, <2>4, <2>5, <2>6
<1>4. /\ (IF i.op = "STORE" THEN 0
          ELSE IF st THEN b.stCnt + 1 ELSE b.stCnt) \in 0..256
      /\ (IF i.op = "STORE" THEN i.len + 1 ELSE b.stTotal) \in 0..256
      /\ (IF i.op = "STORE" THEN i.addr ELSE b.stBase) \in 0..255
  <2>1. b.stCnt + 1 \in Int /\ (st => b.stCnt + 1 \in 0..256)
    BY ONLY <1>2, st => b.stCnt < b.stTotal
  <2>2. i.len + 1 \in 0..256
    BY ONLY <1>1
  <2>3. ASSUME i.op = "STORE" PROVE (IF i.op = "STORE" THEN 0
                       ELSE IF st THEN b.stCnt + 1 ELSE b.stCnt) \in 0..256
    BY ONLY <2>3
  <2>4. ASSUME ~(i.op = "STORE") PROVE (IF i.op = "STORE" THEN 0
                       ELSE IF st THEN b.stCnt + 1 ELSE b.stCnt) \in 0..256
    BY ONLY <1>2, <2>1, <2>4, st \in BOOLEAN
  <2>5. (IF i.op = "STORE" THEN i.len + 1 ELSE b.stTotal) \in 0..256
    BY ONLY <1>2, <2>2
  <2>6. (IF i.op = "STORE" THEN i.addr ELSE b.stBase) \in 0..255
    BY ONLY <1>1, <1>2
  <2> QED
    BY ONLY <2>3, <2>4, <2>5, <2>6
<1>5. /\ (IF i.op = "MATMUL" THEN i.addr % ROWS ELSE b.mmAddr) \in Row
      /\ (IF i.op = "VECTOR" THEN i.addr % ROWS ELSE b.vecAddr) \in Row
  BY <1>1, <1>2
<1> QED
  BY <1>3, <1>4, <1>5 DEF NextBookkeeping, BookkeepingType

LEMMA BookStep ==
  ASSUME bk \in BookkeepingType, NEW i \in Instruction, NEW g, Book(i, g)
  PROVE  bk' \in BookkeepingType
<1>1. /\ LdBeat(g) \in BOOLEAN /\ StBeat(g) \in BOOLEAN
      /\ (arr.pm = "DONE") \in BOOLEAN
  BY DEF LdBeat, StBeat
<1>2. /\ LdBeat(g) => bk.ldCnt < bk.ldTotal
      /\ StBeat(g) => bk.stCnt < bk.stTotal
  BY DEF LdBeat, StBeat
<1> QED
  BY <1>1, <1>2, BookTyped DEF Book

LEMMA EngineStep ==
  ASSUME EngineType, sb \in ScoreboardType, NEW i \in Instruction, NEW g \in Go,
         Datapath(i, g)
  PROVE  EngineType'
<1>1. i.addr \in 0..255 /\ i.len \in 0..255
  BY DEF Instruction
<1>2. sb.baseOff \in [Base -> Nat]
  BY DEF ScoreboardType
<1>3. rdm' \in [st: {"IDLE", "ADDR", "DATA", "DONE"}, addr: Dram, left: 0..255]
  <2> DEFINE T == [st: {"IDLE", "ADDR", "DATA", "DONE"}, addr: Dram, left: 0..255]
             start == [st |-> "ADDR", addr |-> LoadAddr(sb, i), left |-> i.len]
             next == [rdm EXCEPT !.left = @ - 1, !.addr = (@ + 1) % DRAM_BEATS]
  <2>1. rdm \in T
    BY DEF EngineType
  <2>2. i.op \in LoadOp => start \in T
    <3>1. \A b \in Base : DmaAddr(b, sb.baseOff[b], i.addr) \in Dram
      BY <1>1, <1>2, AddressTyped
    <3>2. /\ i.op = "LOAD_WGT" => LoadAddr(sb, i) \in Dram
          /\ i.op = "LOAD_ACT" => LoadAddr(sb, i) \in Dram
          /\ i.op = "LOAD_BIAS" => LoadAddr(sb, i) \in Dram
      BY <3>1 DEF LoadAddr, Base, BASE_WGT, BASE_ACT, BASE_BIAS
    <3>3. i.op \in LoadOp => LoadAddr(sb, i) \in Dram
      BY <3>2 DEF LoadOp
    <3> QED
      BY <1>1, <3>3
  <2>3. rdm.left # 0 => next \in T
    <3>1. (rdm.addr + 1) % DRAM_BEATS \in Dram
      BY <2>1, AddressTyped DEF Dram
    <3>2. rdm.left # 0 => rdm.left - 1 \in 0..255
      BY <2>1
    <3> QED
      BY <2>1, <3>1, <3>2
  <2>4. \A x \in {"IDLE", "DATA", "DONE"} : [rdm EXCEPT !.st = x] \in T
    BY <2>1
  <2>5. NextRdm(i, g) \in T
    <3> HIDE DEF T
    <3> QED
      BY <2>1, <2>2, <2>3, <2>4 DEF NextRdm
  <2> QED
    BY <2>5 DEF Datapath
<1>4. wrm' \in [st: {"IDLE", "ADDR", "DATA", "RESP"}, addr: Dram, left: 0..255,
                done: BOOLEAN]
  <2> DEFINE T == [st: {"IDLE", "ADDR", "DATA", "RESP"}, addr: Dram,
                   left: 0..255, done: BOOLEAN]
             start == [st |-> "ADDR", left |-> i.len, done |-> FALSE,
                       addr |-> DmaAddr(BASE_OUT, sb.baseOff[BASE_OUT], i.addr)]
             next == [wrm EXCEPT !.left = @ - 1, !.addr = (@ + 1) % DRAM_BEATS,
                                 !.done = FALSE]
  <2>1. wrm \in T
    BY DEF EngineType
  <2>2. start \in T
    <3>1. BASE_OUT \in Base
      BY DEF Base, BASE_OUT
    <3>2. sb.baseOff[BASE_OUT] \in Nat
      BY <1>2, <3>1
    <3>3. DmaAddr(BASE_OUT, sb.baseOff[BASE_OUT], i.addr) \in Dram
      BY <1>1, <3>1, <3>2, AddressTyped
    <3> QED
      BY <1>1, <3>3
  <2>3. wrm.left # 0 => next \in T
    <3>1. (wrm.addr + 1) % DRAM_BEATS \in Dram
      BY <2>1, AddressTyped DEF Dram
    <3>2. wrm.left # 0 => wrm.left - 1 \in 0..255
      BY <2>1
    <3> QED
      BY <2>1, <3>1, <3>2
  <2>4. /\ \A x \in {"IDLE", "DATA", "RESP"}, d \in BOOLEAN :
             [wrm EXCEPT !.st = x, !.done = d] \in T
        /\ [wrm EXCEPT !.done = FALSE] \in T
    BY <2>1
  <2>5. NextWrm(i, g) \in T
    <3> HIDE DEF T
    <3> QED
      BY <2>1, <2>2, <2>3, <2>4 DEF NextWrm
  <2> QED
    BY <2>5 DEF Datapath
<1>5. arr'.pm \in {"IDLE", "RUNNING", "DONE"} /\ arr'.rdv \in BOOLEAN
  BY DEF Datapath, NextArr, EngineType
<1>6. vec'.left \in 0..3
  BY DEF Datapath, NextVec, EngineType
<1>7. bram'.wtRdValid \in BOOLEAN
  BY DEF Datapath, NextBram, WtRdEn, ReadPulse
<1> QED
  BY <1>3, <1>4, <1>5, <1>6, <1>7 DEF EngineType

LEMMA TypeInit == Init => TypeOK
<1> SUFFICES ASSUME Init PROVE TypeOK
  OBVIOUS
<1>1. FifoTypeOK
  BY FifoInvInit DEF FifoInv
<1>2. sb \in ScoreboardType
  BY ResetTyped DEF Init
<1>3. bk \in BookkeepingType
  BY IsaAssumption DEF Init, ResetBookkeeping, BookkeepingType, Row
<1>4. EngineType
  <2>1. 0 \in Dram
    BY IsaAssumption DEF Dram
  <2> QED
    BY <2>1 DEF Init, EngineType
<1>5. loaded \in BOOLEAN /\ runs \in 0..MAX_RUNS
  <2>1. loaded = FALSE /\ runs = 0
    BY DEF Init
  <2>2. MAX_RUNS \in Nat
    BY HostAssumption
  <2>3. loaded \in BOOLEAN
    BY <2>1
  <2>4. runs \in 0..MAX_RUNS
    BY <2>1, <2>2
  <2> QED
    BY <2>3, <2>4
<1> QED
  BY <1>1, <1>2, <1>3, <1>4, <1>5 DEF TypeOK

LEMMA TypeStep ==
  ASSUME TypeOK, [Next]_vars
  PROVE  TypeOK'
<1>1. FifoTypeOK'
  BY WindowSteps, FifoTypeStep DEF TypeOK
<1>2. ASSUME NEW g \in Go, NEW i \in Instruction, NEW s1 \in ScoreboardType,
             sb' = NextScoreboard(sb, s1, Events), Book(i, g), Datapath(i, g)
      PROVE  sb' \in ScoreboardType /\ bk' \in BookkeepingType /\ EngineType'
  BY <1>2, ScoreboardTyped, BookStep, EngineStep DEF TypeOK
<1>3. CASE \E g \in Go : Cycle(g)
  <2>1. PICK g \in Go : Cycle(g)
    BY <1>3
  <2>2. CASE NoIssue(g)
    <3>1. sb' \in ScoreboardType /\ bk' \in BookkeepingType /\ EngineType'
      BY <1>2, <2>2, BuilderTyped DEF NoIssue, TypeOK
    <3> QED
      BY <1>1, <2>2, <3>1 DEF NoIssue, TypeOK
  <2>3. CASE \E op \in Op : Issue(op, g)
    <3>1. PICK op \in Op : Issue(op, g)
      BY <2>3
    <3>2. PICK k \in Slot :
            /\ sb' = NextScoreboard(sb, IssueEffect(sb, Words[k]), Events)
            /\ Book(Words[k], g)
            /\ Datapath(Words[k], g)
            /\ UNCHANGED <<loaded, runs>>
      BY <3>1 DEF Issue
    <3>3. Words[k] \in Instruction /\ IssueEffect(sb, Words[k]) \in ScoreboardType
      BY WordsTyped, IssueTyped DEF TypeOK
    <3>4. sb' \in ScoreboardType /\ bk' \in BookkeepingType /\ EngineType'
      BY <1>2, <3>2, <3>3
    <3> QED
      BY <1>1, <3>2, <3>4 DEF TypeOK
  <2> QED
    BY <2>1, <2>2, <2>3 DEF Cycle
<1>4. CASE \E g \in Go : Start(g)
  <2>1. PICK g \in Go : Start(g)
    BY <1>4
  <2>2. StartEffect(sb) \in ScoreboardType
    BY StartTyped DEF TypeOK
  <2>3. sb' \in ScoreboardType /\ bk' \in BookkeepingType /\ EngineType'
    BY <1>2, <2>1, <2>2, BuilderTyped DEF Start
  <2> QED
    BY <1>1, <2>1, <2>3 DEF Start, TypeOK
<1>5. CASE \E p \in Programs : LoadProgram(p)
  BY <1>1, <1>5, HostAssumption DEF LoadProgram, TypeOK, EngineType
<1>6. CASE UNCHANGED vars
  BY <1>1, <1>6 DEF vars, TypeOK, EngineType
<1> QED
  BY <1>3, <1>4, <1>5, <1>6 DEF Next

(* Every register of the machine holds a value of its declared width in every
   reachable state; in particular the beat counters never run past their
   nine bits and the row counters wrap at theirs. *)
THEOREM TypeCorrect == Spec => []TypeOK
<1>1. TypeOK /\ [Next]_vars => TypeOK'
  BY TypeStep
<1> QED
  BY TypeInit, <1>1, PTL DEF Spec

-----------------------------------------------------------------------------
(* What one cycle does, register by register. *)

(* The registers of the scoreboard after a cycle that issues instruction i
   (NOP: nothing), a completion winning over the issue. *)
EngineRegisters(i) ==
  /\ sb'.rd = IF ReadPulse THEN "IDLE" ELSE IF i.op \in LoadOp THEN "BUSY" ELSE sb.rd
  /\ sb'.wr = IF wrm.done THEN "IDLE" ELSE IF i.op = "STORE" THEN "BUSY" ELSE sb.wr
  /\ sb'.array = IF ArrayPulse THEN "IDLE"
                 ELSE IF i.op = "MATMUL" THEN "BUSY" ELSE sb.array
  /\ sb'.vector = IF VectorPulse THEN "IDLE"
                  ELSE IF i.op = "VECTOR" THEN "BUSY" ELSE sb.vector

ContextRegisters(i) ==
  /\ sb'.rdTarget = CASE i.op = "LOAD_WGT"  -> "WEIGHT"
                      [] i.op = "LOAD_ACT"  -> "ACT"
                      [] i.op = "LOAD_BIAS" -> "BIAS"
                      [] OTHER              -> sb.rdTarget
  /\ sb'.rdBuf = IF i.op = "LOAD_ACT" THEN i.dst ELSE sb.rdBuf
  /\ sb'.wrBuf = IF i.op = "STORE" THEN i.src ELSE sb.wrBuf
  /\ sb'.arrayBuf = IF i.op = "MATMUL" THEN i.src ELSE sb.arrayBuf
  /\ sb'.vecBuf = IF i.op = "VECTOR" THEN i.dst ELSE sb.vecBuf

BankRegisters(i) ==
  \A b \in Bank :
    /\ sb'.act[b] =
         IF ArrayPulse /\ b = sb.arrayBuf
         THEN IF sb.rows[b] <= 1 THEN "EMPTY" ELSE "READY"
         ELSE IF ReadPulse /\ sb.rdTarget = "ACT" /\ b = sb.rdBuf THEN "READY"
         ELSE IF i.op = "LOAD_ACT" /\ b = i.dst THEN "FILLING"
         ELSE IF i.op = "MATMUL" /\ b = i.src THEN "IN_USE" ELSE sb.act[b]
    /\ sb'.rows[b] =
         IF ArrayPulse /\ b = sb.arrayBuf
         THEN (sb.rows[b] + ROW_COUNTS - 1) % ROW_COUNTS
         ELSE IF i.op = "LOAD_ACT" /\ b = i.dst THEN RowsLoaded(i) % ROW_COUNTS
         ELSE sb.rows[b]
    /\ sb'.out[b] =
         IF VectorPulse /\ b = sb.vecBuf THEN "READY"
         ELSE IF wrm.done /\ b = sb.wrBuf THEN "EMPTY"
         ELSE IF i.op = "STORE" /\ b = i.src THEN "IN_USE" ELSE sb.out[b]

BufferRegisters(i) ==
  /\ sb'.bias = IF ReadPulse /\ sb.rdTarget = "BIAS" THEN "READY"
                ELSE IF i.op = "LOAD_BIAS" THEN "FILLING" ELSE sb.bias
  /\ sb'.wgt = IF bram.wtRdValid THEN "READY"
               ELSE IF i.op = "LOAD_WGT" THEN "FILLING"
               ELSE IF i.op = "SWAP_WGT" THEN "EMPTY" ELSE sb.wgt
  /\ sb'.accum = IF VectorPulse THEN "EMPTY"
                 ELSE IF ArrayPulse
                 THEN IF sb.arrayCtrl \in {"NONE", "LAST"} THEN "READY" ELSE "FILLING"
                 ELSE IF i.op = "MATMUL" THEN "FILLING"
                 ELSE IF i.op = "VECTOR" THEN "IN_USE" ELSE sb.accum

ClockEdge(i) ==
  /\ EngineRegisters(i)
  /\ ContextRegisters(i)
  /\ BankRegisters(i)
  /\ BufferRegisters(i)

-----------------------------------------------------------------------------
(* An issue (or start, or neither) s1 of the registers sb: what the completions
   of the cycle make of it, register by register. *)
LEMMA Completions ==
  ASSUME sb \in ScoreboardType, NEW s1 \in ScoreboardType,
         sb' = NextScoreboard(sb, s1, Events)
  PROVE  /\ sb'.rd = IF ReadPulse THEN "IDLE" ELSE s1.rd
         /\ sb'.wr = IF wrm.done THEN "IDLE" ELSE s1.wr
         /\ sb'.array = IF ArrayPulse THEN "IDLE" ELSE s1.array
         /\ sb'.vector = IF VectorPulse THEN "IDLE" ELSE s1.vector
         /\ sb'.accel = s1.accel
         /\ sb'.rdTarget = s1.rdTarget /\ sb'.rdBuf = s1.rdBuf
         /\ sb'.wrBuf = s1.wrBuf /\ sb'.arrayBuf = s1.arrayBuf
         /\ sb'.vecBuf = s1.vecBuf
         /\ sb'.bias = IF ReadPulse /\ sb.rdTarget = "BIAS" THEN "READY" ELSE s1.bias
         /\ sb'.wgt = IF bram.wtRdValid THEN "READY" ELSE s1.wgt
         /\ sb'.accum = IF VectorPulse THEN "EMPTY"
                        ELSE IF ArrayPulse
                        THEN IF sb.arrayCtrl \in {"NONE", "LAST"} THEN "READY"
                             ELSE "FILLING"
                        ELSE s1.accum
         /\ \A b \in Bank :
              /\ sb'.act[b] =
                   IF ArrayPulse /\ b = sb.arrayBuf
                   THEN IF sb.rows[b] <= 1 THEN "EMPTY" ELSE "READY"
                   ELSE IF ReadPulse /\ sb.rdTarget = "ACT" /\ b = sb.rdBuf
                   THEN "READY" ELSE s1.act[b]
              /\ sb'.rows[b] =
                   IF ArrayPulse /\ b = sb.arrayBuf
                   THEN (sb.rows[b] + ROW_COUNTS - 1) % ROW_COUNTS ELSE s1.rows[b]
              /\ sb'.out[b] = IF VectorPulse /\ b = sb.vecBuf THEN "READY"
                              ELSE IF wrm.done /\ b = sb.wrBuf THEN "EMPTY"
                              ELSE s1.out[b]
<1> DEFINE s2 == When(ReadPulse, ReadDone(s1, sb), s1)
           s3 == When(bram.wtRdValid, WeightsValid(s2), s2)
           s4 == When(ArrayPulse, ArrayDone(s3, sb), s3)
           s5 == When(wrm.done, WriteDone(s4, sb), s4)
           s6 == When(VectorPulse, VectorDone(s5, sb), s5)
<1>1. sb' = s6
  BY DEF NextScoreboard, Events
<1>2. /\ s2 \in ScoreboardType
      /\ s2.rd = IF ReadPulse THEN "IDLE" ELSE s1.rd
      /\ s2.bias = IF ReadPulse /\ sb.rdTarget = "BIAS" THEN "READY" ELSE s1.bias
      /\ \A b \in Bank : s2.act[b] = IF ReadPulse /\ sb.rdTarget = "ACT" /\ b = sb.rdBuf
                                     THEN "READY" ELSE s1.act[b]
      /\ s2.wr = s1.wr /\ s2.array = s1.array /\ s2.vector = s1.vector
      /\ s2.accel = s1.accel /\ s2.rdTarget = s1.rdTarget /\ s2.rdBuf = s1.rdBuf
      /\ s2.wrBuf = s1.wrBuf /\ s2.arrayBuf = s1.arrayBuf /\ s2.vecBuf = s1.vecBuf
      /\ s2.wgt = s1.wgt /\ s2.accum = s1.accum /\ s2.rows = s1.rows /\ s2.out = s1.out
  <2>1. s2 \in ScoreboardType
    BY ReadDoneTyped DEF When
  <2>2. CASE ReadPulse
    BY <2>1, <2>2 DEF When, ReadDone, ScoreboardType
  <2>3. CASE ~ReadPulse
    BY <2>1, <2>3 DEF When
  <2> QED
    BY <2>2, <2>3
<1> HIDE DEF s2
<1>3. /\ s3 \in ScoreboardType
      /\ s3.wgt = IF bram.wtRdValid THEN "READY" ELSE s2.wgt
      /\ s3.rd = s2.rd /\ s3.bias = s2.bias /\ s3.act = s2.act
      /\ s3.wr = s2.wr /\ s3.array = s2.array /\ s3.vector = s2.vector
      /\ s3.accel = s2.accel /\ s3.rdTarget = s2.rdTarget /\ s3.rdBuf = s2.rdBuf
      /\ s3.wrBuf = s2.wrBuf /\ s3.arrayBuf = s2.arrayBuf /\ s3.vecBuf = s2.vecBuf
      /\ s3.accum = s2.accum /\ s3.rows = s2.rows /\ s3.out = s2.out
  <2>1. s3 \in ScoreboardType
    BY <1>2, WeightsValidTyped DEF When
  <2> QED
    BY <1>2, <2>1 DEF When, WeightsValid, ScoreboardType
<1> HIDE DEF s3
<1>4. /\ s4 \in ScoreboardType
      /\ s4.array = IF ArrayPulse THEN "IDLE" ELSE s3.array
      /\ s4.accum = IF ArrayPulse
                    THEN IF sb.arrayCtrl \in {"NONE", "LAST"} THEN "READY" ELSE "FILLING"
                    ELSE s3.accum
      /\ \A b \in Bank :
           /\ s4.act[b] = IF ArrayPulse /\ b = sb.arrayBuf
                          THEN IF sb.rows[b] <= 1 THEN "EMPTY" ELSE "READY"
                          ELSE s3.act[b]
           /\ s4.rows[b] = IF ArrayPulse /\ b = sb.arrayBuf
                           THEN (sb.rows[b] + ROW_COUNTS - 1) % ROW_COUNTS
                           ELSE s3.rows[b]
      /\ s4.rd = s3.rd /\ s4.bias = s3.bias /\ s4.wgt = s3.wgt
      /\ s4.wr = s3.wr /\ s4.vector = s3.vector
      /\ s4.accel = s3.accel /\ s4.rdTarget = s3.rdTarget /\ s4.rdBuf = s3.rdBuf
      /\ s4.wrBuf = s3.wrBuf /\ s4.arrayBuf = s3.arrayBuf /\ s4.vecBuf = s3.vecBuf
      /\ s4.out = s3.out
  <2>1. s4 \in ScoreboardType
    BY <1>3, ArrayDoneTyped DEF When
  <2>2. CASE ArrayPulse
    <3> DEFINE n == (sb.rows[sb.arrayBuf] + ROW_COUNTS - 1) % ROW_COUNTS
               x == IF sb.rows[sb.arrayBuf] <= 1 THEN "EMPTY" ELSE "READY"
               y == IF sb.arrayCtrl \in {"NONE", "LAST"} THEN "READY" ELSE "FILLING"
    <3>1. s4 = [s3 EXCEPT !.array = "IDLE", !.rows[sb.arrayBuf] = n,
                          !.act[sb.arrayBuf] = x, !.accum = y]
      BY <2>2 DEF When, ArrayDone
    <3> HIDE DEF n, x, y, s4
    <3>2. /\ s4.array = "IDLE" /\ s4.accum = y
          /\ s4.act = [s3.act EXCEPT ![sb.arrayBuf] = x]
          /\ s4.rows = [s3.rows EXCEPT ![sb.arrayBuf] = n]
          /\ s4.rd = s3.rd /\ s4.bias = s3.bias /\ s4.wgt = s3.wgt
          /\ s4.wr = s3.wr /\ s4.vector = s3.vector
          /\ s4.accel = s3.accel /\ s4.rdTarget = s3.rdTarget /\ s4.rdBuf = s3.rdBuf
          /\ s4.wrBuf = s3.wrBuf /\ s4.arrayBuf = s3.arrayBuf /\ s4.vecBuf = s3.vecBuf
          /\ s4.out = s3.out
      BY <1>3, <3>1 DEF ScoreboardType
    <3>3. s3.act \in [Bank -> BufState] /\ s3.rows \in [Bank -> 0..ROW_COUNTS - 1]
      BY <1>3 DEF ScoreboardType
    <3> QED
      BY <2>1, <2>2, <3>2, <3>3 DEF n, x, y
  <2>3. CASE ~ArrayPulse
    BY <2>1, <2>3 DEF When
  <2> QED
    BY <2>2, <2>3
<1> HIDE DEF s4
<1>5. /\ s5 \in ScoreboardType
      /\ s5.wr = IF wrm.done THEN "IDLE" ELSE s4.wr
      /\ \A b \in Bank : s5.out[b] = IF wrm.done /\ b = sb.wrBuf THEN "EMPTY"
                                     ELSE s4.out[b]
      /\ s5.rd = s4.rd /\ s5.bias = s4.bias /\ s5.wgt = s4.wgt /\ s5.act = s4.act
      /\ s5.array = s4.array /\ s5.vector = s4.vector /\ s5.accum = s4.accum
      /\ s5.accel = s4.accel /\ s5.rdTarget = s4.rdTarget /\ s5.rdBuf = s4.rdBuf
      /\ s5.wrBuf = s4.wrBuf /\ s5.arrayBuf = s4.arrayBuf /\ s5.vecBuf = s4.vecBuf
      /\ s5.rows = s4.rows
  <2>1. s5 \in ScoreboardType
    BY <1>4, WriteDoneTyped DEF When
  <2>2. CASE wrm.done
    BY <1>4, <2>1, <2>2 DEF When, WriteDone, ScoreboardType
  <2>3. CASE ~wrm.done
    BY <2>1, <2>3 DEF When
  <2> QED
    BY <2>2, <2>3
<1> HIDE DEF s5
<1>6. /\ s6.vector = IF VectorPulse THEN "IDLE" ELSE s5.vector
      /\ s6.accum = IF VectorPulse THEN "EMPTY" ELSE s5.accum
      /\ \A b \in Bank : s6.out[b] = IF VectorPulse /\ b = sb.vecBuf THEN "READY"
                                     ELSE s5.out[b]
      /\ s6.rd = s5.rd /\ s6.bias = s5.bias /\ s6.wgt = s5.wgt /\ s6.act = s5.act
      /\ s6.wr = s5.wr /\ s6.array = s5.array
      /\ s6.accel = s5.accel /\ s6.rdTarget = s5.rdTarget /\ s6.rdBuf = s5.rdBuf
      /\ s6.wrBuf = s5.wrBuf /\ s6.arrayBuf = s5.arrayBuf /\ s6.vecBuf = s5.vecBuf
      /\ s6.rows = s5.rows
  <2>1. CASE VectorPulse
    BY <1>5, <2>1 DEF When, VectorDone, ScoreboardType
  <2>2. CASE ~VectorPulse
    BY <2>2 DEF When
  <2> QED
    BY <2>1, <2>2
<1> HIDE DEF s6
<1>7. /\ sb'.rd = s2.rd /\ sb'.wr = s5.wr /\ sb'.array = s4.array
      /\ sb'.vector = s6.vector /\ sb'.accel = s1.accel
      /\ sb'.rdTarget = s1.rdTarget /\ sb'.rdBuf = s1.rdBuf
      /\ sb'.wrBuf = s1.wrBuf /\ sb'.arrayBuf = s1.arrayBuf /\ sb'.vecBuf = s1.vecBuf
      /\ sb'.bias = s2.bias /\ sb'.wgt = s3.wgt /\ sb'.accum = s6.accum
      /\ sb'.act = s4.act /\ sb'.rows = s4.rows /\ sb'.out = s6.out
      /\ s5.wr = IF wrm.done THEN "IDLE" ELSE s1.wr
      /\ s4.array = IF ArrayPulse THEN "IDLE" ELSE s1.array
      /\ s6.vector = IF VectorPulse THEN "IDLE" ELSE s1.vector
      /\ s3.wgt = IF bram.wtRdValid THEN "READY" ELSE s1.wgt
      /\ s3.act = s2.act /\ s3.rows = s1.rows /\ s4.out = s1.out
      /\ s5.accum = s4.accum /\ s3.accum = s1.accum
  BY ONLY <1>1, <1>2, <1>3, <1>4, <1>5, <1>6
<1> QED
  BY ONLY <1>2, <1>4, <1>5, <1>6, <1>7

(* What an issue assigns, register by register. *)
LEMMA Issues ==
  ASSUME NEW s \in ScoreboardType, NEW i \in Instruction
  PROVE  LET n == IssueEffect(s, i)
         IN  /\ n.rd = IF i.op \in LoadOp THEN "BUSY" ELSE s.rd
             /\ n.wr = IF i.op = "STORE" THEN "BUSY" ELSE s.wr
             /\ n.array = IF i.op = "MATMUL" THEN "BUSY" ELSE s.array
             /\ n.vector = IF i.op = "VECTOR" THEN "BUSY" ELSE s.vector
             /\ n.accel = IF i.op = "END" THEN "IDLE" ELSE s.accel
             /\ n.rdTarget = CASE i.op = "LOAD_WGT"  -> "WEIGHT"
                               [] i.op = "LOAD_ACT"  -> "ACT"
                               [] i.op = "LOAD_BIAS" -> "BIAS"
                               [] OTHER              -> s.rdTarget
             /\ n.rdBuf = IF i.op = "LOAD_ACT" THEN i.dst ELSE s.rdBuf
             /\ n.wrBuf = IF i.op = "STORE" THEN i.src ELSE s.wrBuf
             /\ n.arrayBuf = IF i.op = "MATMUL" THEN i.src ELSE s.arrayBuf
             /\ n.vecBuf = IF i.op = "VECTOR" THEN i.dst ELSE s.vecBuf
             /\ n.bias = IF i.op = "LOAD_BIAS" THEN "FILLING" ELSE s.bias
             /\ n.wgt = IF i.op = "LOAD_WGT" THEN "FILLING"
                        ELSE IF i.op = "SWAP_WGT" THEN "EMPTY" ELSE s.wgt
             /\ n.accum = IF i.op = "MATMUL" THEN "FILLING"
                          ELSE IF i.op = "VECTOR" THEN "IN_USE" ELSE s.accum
             /\ \A b \in Bank :
                  /\ n.act[b] = IF i.op = "LOAD_ACT" /\ b = i.dst THEN "FILLING"
                                ELSE IF i.op = "MATMUL" /\ b = i.src THEN "IN_USE"
                                ELSE s.act[b]
                  /\ n.rows[b] = IF i.op = "LOAD_ACT" /\ b = i.dst
                                 THEN RowsLoaded(i) % ROW_COUNTS ELSE s.rows[b]
                  /\ n.out[b] = IF i.op = "STORE" /\ b = i.src THEN "IN_USE"
                                ELSE s.out[b]
<1> USE DEF IssueEffect, LoadOp
<1>1. CASE i.op = "LOAD_WGT"
  BY <1>1 DEF ScoreboardType
<1>2. CASE i.op = "LOAD_ACT"
  <2> DEFINE r == RowsLoaded(i) % ROW_COUNTS
             n == IssueEffect(s, i)
  <2>1. n = [s EXCEPT !.rd = "BUSY", !.rdTarget = "ACT", !.rdBuf = i.dst,
                      !.act[i.dst] = "FILLING", !.rows[i.dst] = r]
    BY <1>2
  <2> HIDE DEF r, n
  <2>2. /\ n.rd = "BUSY" /\ n.rdTarget = "ACT" /\ n.rdBuf = i.dst
        /\ n.act = [s.act EXCEPT ![i.dst] = "FILLING"]
        /\ n.rows = [s.rows EXCEPT ![i.dst] = r]
        /\ n.wr = s.wr /\ n.array = s.array /\ n.vector = s.vector
        /\ n.accel = s.accel /\ n.wrBuf = s.wrBuf /\ n.arrayBuf = s.arrayBuf
        /\ n.vecBuf = s.vecBuf /\ n.bias = s.bias /\ n.wgt = s.wgt
        /\ n.accum = s.accum /\ n.out = s.out
    BY ONLY <2>1, s \in ScoreboardType DEF ScoreboardType
  <2>3. s.act \in [Bank -> BufState] /\ s.rows \in [Bank -> 0..ROW_COUNTS - 1]
    BY DEF ScoreboardType
  <2> HIDE DEF IssueEffect
  <2> QED
    BY <1>2, <2>2, <2>3 DEF n, r
<1>3. CASE i.op = "LOAD_BIAS"
  BY <1>3 DEF ScoreboardType
<1>4. CASE i.op = "MATMUL"
  BY <1>4 DEF ScoreboardType
<1>5. CASE i.op = "VECTOR"
  BY <1>5 DEF ScoreboardType
<1>6. CASE i.op = "STORE"
  BY <1>6 DEF ScoreboardType
<1>7. CASE i.op = "SWAP_WGT"
  BY <1>7 DEF ScoreboardType
<1>8. CASE i.op = "END"
  BY <1>8 DEF ScoreboardType
<1>9. CASE i.op = "SET_BASE"
  BY <1>9 DEF ScoreboardType
<1>10. CASE i.op = "NOP"
  BY <1>10
<1> QED
  BY <1>1, <1>2, <1>3, <1>4, <1>5, <1>6, <1>7, <1>8, <1>9, <1>10
     DEF Instruction, Op

(* Issuing nothing assigns nothing, and NOP can always issue. *)
LEMMA NothingIssued ==
  /\ NOP \in Instruction /\ NOP.op = "NOP"
  /\ \A s : IssueEffect(s, NOP) = s /\ CanIssue(s, NOP)
BY BuilderTyped DEF NOP, Blank, IssueEffect, CanIssue

LEMMA Edges ==
  ASSUME sb \in ScoreboardType, NEW i \in Instruction,
         sb' = NextScoreboard(sb, IssueEffect(sb, i), Events)
  PROVE  /\ ClockEdge(i)
         /\ sb'.accel = IF i.op = "END" THEN "IDLE" ELSE sb.accel
<1> DEFINE s1 == IssueEffect(sb, i)
<1>1. s1 \in ScoreboardType
  BY IssueTyped
<1>2. sb' = NextScoreboard(sb, s1, Events)
  OBVIOUS
<1> HIDE DEF s1
<1>3. EngineRegisters(i) /\ sb'.accel = IF i.op = "END" THEN "IDLE" ELSE sb.accel
  BY <1>1, <1>2, Completions, Issues DEF EngineRegisters, s1
<1>4. ContextRegisters(i)
  BY <1>1, <1>2, Completions, Issues DEF ContextRegisters, s1
<1>5. BankRegisters(i)
  BY <1>1, <1>2, Completions, Issues DEF BankRegisters, s1
<1>6. BufferRegisters(i)
  BY <1>1, <1>2, Completions, Issues DEF BufferRegisters, s1
<1> QED
  BY <1>3, <1>4, <1>5, <1>6 DEF ClockEdge

(* The cycle of the start pulse is one that issues nothing. *)
LEMMA StartEdges ==
  ASSUME sb \in ScoreboardType, sb' = NextScoreboard(sb, StartEffect(sb), Events)
  PROVE  ClockEdge(NOP) /\ sb'.accel = "BUSY"
<1> DEFINE s1 == StartEffect(sb)
<1>1. s1 \in ScoreboardType
  BY StartTyped
<1>2. sb' = NextScoreboard(sb, s1, Events)
  OBVIOUS
<1>3. /\ s1.rd = sb.rd /\ s1.wr = sb.wr /\ s1.array = sb.array /\ s1.vector = sb.vector
      /\ s1.rdTarget = sb.rdTarget /\ s1.rdBuf = sb.rdBuf /\ s1.wrBuf = sb.wrBuf
      /\ s1.arrayBuf = sb.arrayBuf /\ s1.vecBuf = sb.vecBuf /\ s1.bias = sb.bias
      /\ s1.wgt = sb.wgt /\ s1.accum = sb.accum /\ s1.act = sb.act
      /\ s1.rows = sb.rows /\ s1.out = sb.out /\ s1.accel = "BUSY"
  BY DEF StartEffect, ScoreboardType
<1> HIDE DEF s1
<1>4. EngineRegisters(NOP) /\ sb'.accel = "BUSY"
  BY <1>1, <1>2, <1>3, Completions, NothingIssued DEF EngineRegisters, LoadOp
<1>5. ContextRegisters(NOP)
  BY <1>1, <1>2, <1>3, Completions, NothingIssued DEF ContextRegisters
<1>6. BankRegisters(NOP)
  BY <1>1, <1>2, <1>3, Completions, NothingIssued DEF BankRegisters
<1>7. BufferRegisters(NOP)
  BY <1>1, <1>2, <1>3, Completions, NothingIssued DEF BufferRegisters
<1> QED
  BY <1>4, <1>5, <1>6, <1>7 DEF ClockEdge

-----------------------------------------------------------------------------
(* A cycle of the core that issues i: something the scoreboard allows, and
   something at all only during a run. *)
CoreCycles(i, g) ==
  /\ CanIssue(sb, i)
  /\ i = NOP \/ (sb.accel = "BUSY" /\ i \in {Words[k] : k \in Slot})
  /\ ClockEdge(i)
  /\ sb'.accel = "IDLE" => i.op = "END" \/ sb.accel = "IDLE"
  /\ Book(i, g)
  /\ Datapath(i, g)

(* Nothing of the core moves. *)
CoreStands == UNCHANGED <<sb, bk, rdm, wrm, arr, vec, bram>>

LEMMA CoreSteps ==
  ASSUME TypeOK, [Next]_vars
  PROVE  CoreStands \/ \E g \in Go, i \in Instruction : CoreCycles(i, g)
<1>1. ASSUME NEW g \in Go, Cycle(g)
      PROVE  \E i \in Instruction : CoreCycles(i, g)
  <2>1. CASE NoIssue(g)
    <3>1. sb' = NextScoreboard(sb, IssueEffect(sb, NOP), Events)
      BY <2>1, NothingIssued DEF NoIssue
    <3>2. ClockEdge(NOP) /\ sb'.accel = sb.accel
      BY <3>1, Edges, NothingIssued DEF TypeOK
    <3>3. CoreCycles(NOP, g)
      <4>1. Book(NOP, g) /\ Datapath(NOP, g)
        BY <2>1 DEF NoIssue
      <4> QED
        BY <3>2, <4>1, NothingIssued DEF CoreCycles
    <3> QED
      BY <3>3, NothingIssued
  <2>2. CASE \E op \in Op : Issue(op, g)
    <3>1. PICK k \in Slot : /\ Selected(sb, Words, k)
                            /\ sb' = NextScoreboard(sb, IssueEffect(sb, Words[k]), Events)
                            /\ Book(Words[k], g)
                            /\ Datapath(Words[k], g)
      BY <2>2 DEF Issue
    <3>2. Words[k] \in Instruction
      BY WordsTyped DEF TypeOK
    <3>3. CanIssue(sb, Words[k]) /\ sb.accel = "BUSY"
      BY <3>1 DEF Selected, Eligible
    <3>4. /\ ClockEdge(Words[k])
          /\ sb'.accel = IF Words[k].op = "END" THEN "IDLE" ELSE sb.accel
      BY <3>1, <3>2, Edges DEF TypeOK
    <3>5. CoreCycles(Words[k], g)
      BY <3>1, <3>3, <3>4 DEF CoreCycles
    <3> QED
      BY <3>2, <3>5
  <2> QED
    BY <1>1, <2>1, <2>2 DEF Cycle
<1>2. ASSUME NEW g \in Go, Start(g)
      PROVE  \E i \in Instruction : CoreCycles(i, g)
  <2>1. ClockEdge(NOP) /\ sb'.accel = "BUSY"
    BY <1>2, StartEdges DEF Start, TypeOK
  <2>2. CoreCycles(NOP, g)
    <3>1. Book(NOP, g) /\ Datapath(NOP, g)
      BY <1>2 DEF Start
    <3> QED
      BY <2>1, <3>1, NothingIssued DEF CoreCycles
  <2> QED
    BY <2>2, NothingIssued
<1>3. CASE \E p \in Programs : LoadProgram(p)
  BY <1>3 DEF LoadProgram, CoreStands
<1>4. CASE UNCHANGED vars
  BY <1>4 DEF vars, CoreStands
<1> QED
  BY <1>1, <1>2, <1>3, <1>4 DEF Next

-----------------------------------------------------------------------------
(* The inductive invariant: the scoreboard's view of the engines and of the
   buffers, which only hold together. *)
EngineInv == TypeOK /\ EnginesTracked /\ BuffersOwned

(* What the scheduler's preconditions say of an instruction it issues. *)
LEMMA Preconditions ==
  ASSUME NEW i \in Instruction, CanIssue(sb, i)
  PROVE  /\ i.op = "LOAD_WGT" => sb.rd = "IDLE" /\ sb.wgt = "EMPTY"
         /\ i.op = "LOAD_ACT" => sb.rd = "IDLE" /\ sb.act[i.dst] = "EMPTY"
         /\ i.op = "LOAD_BIAS" => sb.rd = "IDLE" /\ sb.bias = "EMPTY"
         /\ i.op = "MATMUL" => /\ sb.array = "IDLE" /\ sb.act[i.src] = "READY"
                               /\ sb.accum \in {"EMPTY", "FILLING"}
         /\ i.op = "VECTOR" => /\ sb.vector = "IDLE" /\ sb.accum = "READY"
                               /\ sb.bias = "READY" /\ sb.out[i.dst] # "IN_USE"
         /\ i.op = "STORE" => /\ sb.wr = "IDLE" /\ sb.out[i.src] = "READY"
                              /\ ~(sb.vector = "BUSY" /\ sb.vecBuf = i.src)
         /\ i.op = "SWAP_WGT" => sb.wgt = "READY" /\ sb.array = "IDLE"
         /\ i.op = "END" => /\ sb.rd = "IDLE" /\ sb.wr = "IDLE"
                            /\ sb.array = "IDLE" /\ sb.vector = "IDLE"
BY DEF CanIssue, CanIssueLoadWgt, CanIssueLoadAct, CanIssueLoadBias,
       CanIssueMatmul, AccumNeeded, CanIssueVector, CanIssueStore,
       CanIssueSwapWgt, CanIssueEnd

(* The states of the engines and what makes them change, for a cycle that
   issues i. *)
LEMMA EngineMoves ==
  ASSUME TypeOK, NEW g \in Go, NEW i \in Instruction, Datapath(i, g), Book(i, g)
  PROVE  /\ rdm'.st = CASE rdm.st = "IDLE" /\ i.op \in LoadOp -> "ADDR"
                        [] rdm.st = "ADDR" /\ g.rd -> "DATA"
                        [] rdm.st = "DATA" /\ g.rd /\ rdm.left = 0 -> "DONE"
                        [] rdm.st = "DONE" -> "IDLE"
                        [] OTHER -> rdm.st
         /\ wrm'.st = CASE wrm.st = "IDLE" /\ i.op = "STORE" -> "ADDR"
                        [] wrm.st = "ADDR" /\ g.wr -> "DATA"
                        [] wrm.st = "DATA" /\ g.wr /\ wrm.left = 0 -> "RESP"
                        [] wrm.st = "RESP" /\ g.wr -> "IDLE"
                        [] OTHER -> wrm.st
         /\ wrm'.done <=> wrm.st = "RESP" /\ g.wr
         /\ arr'.pm = IF arr.pm = "RUNNING" THEN (IF g.ar THEN "DONE" ELSE "RUNNING")
                      ELSE IF arr.rdv THEN "RUNNING" ELSE arr.pm
         /\ arr'.rdv <=> i.op = "MATMUL"
         /\ i.op # "MATMUL" => arr'.row = <<>>
         /\ vec'.left = IF i.op = "VECTOR" THEN 3
                        ELSE IF vec.left > 0 THEN vec.left - 1 ELSE 0
         /\ bram'.wtRdValid <=> ReadPulse /\ sb.rdTarget = "WEIGHT"
         /\ bk'.arrayDoneD <=> arr.pm = "DONE"
<1>1. EngineType
  BY DEF TypeOK
<1>2. rdm'.st = CASE rdm.st = "IDLE" /\ i.op \in LoadOp -> "ADDR"
                  [] rdm.st = "ADDR" /\ g.rd -> "DATA"
                  [] rdm.st = "DATA" /\ g.rd /\ rdm.left = 0 -> "DONE"
                  [] rdm.st = "DONE" -> "IDLE"
                  [] OTHER -> rdm.st
  BY <1>1 DEF Datapath, NextRdm, EngineType
<1>3. wrm'.st = CASE wrm.st = "IDLE" /\ i.op = "STORE" -> "ADDR"
                  [] wrm.st = "ADDR" /\ g.wr -> "DATA"
                  [] wrm.st = "DATA" /\ g.wr /\ wrm.left = 0 -> "RESP"
                  [] wrm.st = "RESP" /\ g.wr -> "IDLE"
                  [] OTHER -> wrm.st
  BY <1>1 DEF Datapath, NextWrm, EngineType
<1>4. wrm'.done <=> wrm.st = "RESP" /\ g.wr
  BY <1>1 DEF Datapath, NextWrm, EngineType
<1>5. /\ arr'.pm = IF arr.pm = "RUNNING" THEN (IF g.ar THEN "DONE" ELSE "RUNNING")
                   ELSE IF arr.rdv THEN "RUNNING" ELSE arr.pm
      /\ arr'.rdv <=> i.op = "MATMUL"
      /\ i.op # "MATMUL" => arr'.row = <<>>
  BY DEF Datapath, NextArr
<1>6. vec'.left = IF i.op = "VECTOR" THEN 3
                  ELSE IF vec.left > 0 THEN vec.left - 1 ELSE 0
  BY <1>1 DEF Datapath, NextVec, EngineType
<1>7. bram'.wtRdValid <=> ReadPulse /\ sb.rdTarget = "WEIGHT"
  BY DEF Datapath, NextBram, WtRdEn
<1>8. bk'.arrayDoneD <=> arr.pm = "DONE"
  BY DEF Book, NextBookkeeping
<1> QED
  BY <1>2, <1>3, <1>4, <1>5, <1>6, <1>7, <1>8

(* No completion pulse is lost and no start pulse ignored. *)
LEMMA TrackedStep ==
  ASSUME EngineInv, NEW g \in Go, NEW i \in Instruction, CoreCycles(i, g)
  PROVE  EnginesTracked'
<1>1. EngineType /\ sb \in ScoreboardType /\ bk \in BookkeepingType /\ EnginesTracked
  BY DEF EngineInv, TypeOK
<1>2. EngineRegisters(i) /\ CanIssue(sb, i) /\ Datapath(i, g) /\ Book(i, g)
  BY DEF CoreCycles, ClockEdge
<1>3. (sb.rd = "BUSY" <=> rdm.st # "IDLE")'
  <2>1. i.op \in LoadOp => sb.rd = "IDLE"
    BY <1>2, Preconditions DEF LoadOp
  <2>2. sb'.rd = IF ReadPulse THEN "IDLE" ELSE IF i.op \in LoadOp THEN "BUSY" ELSE sb.rd
    BY <1>2 DEF EngineRegisters
  <2>3. rdm'.st = CASE rdm.st = "IDLE" /\ i.op \in LoadOp -> "ADDR"
                    [] rdm.st = "ADDR" /\ g.rd -> "DATA"
                    [] rdm.st = "DATA" /\ g.rd /\ rdm.left = 0 -> "DONE"
                    [] rdm.st = "DONE" -> "IDLE"
                    [] OTHER -> rdm.st
    BY <1>2, EngineMoves DEF EngineInv
  <2> QED
    BY <1>1, <2>1, <2>2, <2>3
       DEF EnginesTracked, ReadPulse, EngineType, ScoreboardType, EngState
<1>4. (sb.wr = "BUSY" <=> wrm.st # "IDLE" \/ wrm.done)' /\ (wrm.done => wrm.st = "IDLE")'
  <2>1. i.op = "STORE" => sb.wr = "IDLE"
    BY <1>2, Preconditions
  <2>2. sb'.wr = IF wrm.done THEN "IDLE" ELSE IF i.op = "STORE" THEN "BUSY" ELSE sb.wr
    BY <1>2 DEF EngineRegisters
  <2>3. /\ wrm'.st = CASE wrm.st = "IDLE" /\ i.op = "STORE" -> "ADDR"
                       [] wrm.st = "ADDR" /\ g.wr -> "DATA"
                       [] wrm.st = "DATA" /\ g.wr /\ wrm.left = 0 -> "RESP"
                       [] wrm.st = "RESP" /\ g.wr -> "IDLE"
                       [] OTHER -> wrm.st
        /\ wrm'.done <=> wrm.st = "RESP" /\ g.wr
    BY <1>2, EngineMoves DEF EngineInv
  <2>4. /\ sb.wr \in {"IDLE", "BUSY"}
        /\ sb.wr = "BUSY" <=> wrm.st # "IDLE" \/ wrm.done
        /\ wrm.done => wrm.st = "IDLE"
    BY <1>1 DEF EnginesTracked, ScoreboardType, EngState
  <2> QED
    BY ONLY <2>1, <2>2, <2>3, <2>4
<1>5. /\ (sb.array = "BUSY" <=> arr.rdv \/ arr.pm = "RUNNING" \/ ArrayPulse)'
      /\ (arr.rdv => arr.pm # "RUNNING" /\ ~ArrayPulse)'
  <2>1. i.op = "MATMUL" => sb.array = "IDLE"
    BY <1>2, Preconditions
  <2>2. sb'.array = IF ArrayPulse THEN "IDLE"
                    ELSE IF i.op = "MATMUL" THEN "BUSY" ELSE sb.array
    BY <1>2 DEF EngineRegisters
  <2>3. /\ arr'.pm = IF arr.pm = "RUNNING" THEN (IF g.ar THEN "DONE" ELSE "RUNNING")
                     ELSE IF arr.rdv THEN "RUNNING" ELSE arr.pm
        /\ arr'.rdv <=> i.op = "MATMUL"
        /\ bk'.arrayDoneD <=> arr.pm = "DONE"
    BY <1>2, EngineMoves DEF EngineInv
  <2>4. /\ sb.array \in {"IDLE", "BUSY"}
        /\ sb.array = "BUSY" <=> arr.rdv \/ arr.pm = "RUNNING" \/ ArrayPulse
        /\ arr.rdv => arr.pm # "RUNNING" /\ ~ArrayPulse
    BY <1>1 DEF EnginesTracked, ScoreboardType, EngState
  <2> QED
    BY ONLY <2>1, <2>2, <2>3, <2>4 DEF ArrayPulse
<1>6. (sb.vector = "BUSY" <=> vec.left > 0)'
  <2>1. i.op = "VECTOR" => sb.vector = "IDLE"
    BY <1>2, Preconditions
  <2>2. sb'.vector = IF VectorPulse THEN "IDLE"
                     ELSE IF i.op = "VECTOR" THEN "BUSY" ELSE sb.vector
    BY <1>2 DEF EngineRegisters
  <2>3. vec'.left = IF i.op = "VECTOR" THEN 3
                    ELSE IF vec.left > 0 THEN vec.left - 1 ELSE 0
    BY <1>2, EngineMoves DEF EngineInv
  <2>4. /\ sb.vector \in {"IDLE", "BUSY"} /\ vec.left \in 0..3
        /\ sb.vector = "BUSY" <=> vec.left > 0
    BY <1>1 DEF EnginesTracked, ScoreboardType, EngState, EngineType
  <2> QED
    BY ONLY <2>1, <2>2, <2>3, <2>4 DEF VectorPulse
<1> QED
  BY <1>3, <1>4, <1>5, <1>6 DEF EnginesTracked

(* Each buffer is in the hands of the engine the scoreboard says. *)
LEMMA OwnedStep ==
  ASSUME EngineInv, NEW g \in Go, NEW i \in Instruction, CoreCycles(i, g)
  PROVE  BuffersOwned'
<1>1. /\ sb \in ScoreboardType /\ EnginesTracked /\ BuffersOwned
      /\ ClockEdge(i) /\ CanIssue(sb, i)
      /\ bram'.wtRdValid <=> ReadPulse /\ sb.rdTarget = "WEIGHT"
  BY EngineMoves DEF EngineInv, TypeOK, CoreCycles
<1>2. /\ ReadPulse => sb.rd = "BUSY"
      /\ wrm.done => sb.wr = "BUSY"
      /\ ArrayPulse => sb.array = "BUSY"
      /\ VectorPulse => sb.vector = "BUSY"
  BY <1>1 DEF EnginesTracked, ReadPulse, VectorPulse
<1>3. /\ i.src \in Bank /\ i.dst \in Bank
      /\ sb.rdBuf \in Bank /\ sb.wrBuf \in Bank /\ sb.arrayBuf \in Bank /\ sb.vecBuf \in Bank
      /\ sb.rd \in {"IDLE", "BUSY"} /\ sb.wr \in {"IDLE", "BUSY"}
      /\ sb.array \in {"IDLE", "BUSY"} /\ sb.vector \in {"IDLE", "BUSY"}
      /\ sb.rdTarget \in {"ACT", "WEIGHT", "BIAS"}
  BY <1>1 DEF Instruction, ScoreboardType, EngState, RdTarget
<1>4. ASSUME NEW b \in Bank
      PROVE  /\ (sb.act[b] = "FILLING" <=>
                   sb.rd = "BUSY" /\ sb.rdTarget = "ACT" /\ sb.rdBuf = b)'
             /\ (sb.act[b] = "IN_USE" <=> sb.array = "BUSY" /\ sb.arrayBuf = b)'
  <2>1. /\ sb.act[b] = "FILLING" <=> sb.rd = "BUSY" /\ sb.rdTarget = "ACT" /\ sb.rdBuf = b
        /\ sb.act[b] = "IN_USE" <=> sb.array = "BUSY" /\ sb.arrayBuf = b
    BY <1>1 DEF BuffersOwned
  <2>2. sb'.act[b] =
           IF ArrayPulse /\ b = sb.arrayBuf
           THEN IF sb.rows[b] <= 1 THEN "EMPTY" ELSE "READY"
           ELSE IF ReadPulse /\ sb.rdTarget = "ACT" /\ b = sb.rdBuf THEN "READY"
           ELSE IF i.op = "LOAD_ACT" /\ b = i.dst THEN "FILLING"
           ELSE IF i.op = "MATMUL" /\ b = i.src THEN "IN_USE" ELSE sb.act[b]
    BY <1>1 DEF ClockEdge, BankRegisters
  <2>3. /\ i.op \in LoadOp => sb.rd = "IDLE"
        /\ i.op = "LOAD_ACT" => sb.act[i.dst] = "EMPTY"
        /\ i.op = "MATMUL" => sb.array = "IDLE" /\ sb.act[i.src] = "READY"
    BY <1>1, Preconditions DEF LoadOp
  <2>4. EngineRegisters(i) /\ ContextRegisters(i)
    BY <1>1 DEF ClockEdge
  <2> QED
    BY ONLY <1>2, <1>3, <2>1, <2>2, <2>3, <2>4
       DEF EngineRegisters, ContextRegisters, LoadOp
<1>5. ASSUME NEW b \in Bank
      PROVE  /\ (sb.out[b] = "IN_USE" <=> sb.wr = "BUSY" /\ sb.wrBuf = b)'
             /\ (sb.out[b] # "FILLING")'
  <2>1. /\ sb.out[b] = "IN_USE" <=> sb.wr = "BUSY" /\ sb.wrBuf = b
        /\ sb.out[b] # "FILLING"
        /\ sb.vector = "BUSY" => sb.out[sb.vecBuf] # "IN_USE"
    BY <1>1 DEF BuffersOwned
  <2>2. sb'.out[b] =
           IF VectorPulse /\ b = sb.vecBuf THEN "READY"
           ELSE IF wrm.done /\ b = sb.wrBuf THEN "EMPTY"
           ELSE IF i.op = "STORE" /\ b = i.src THEN "IN_USE" ELSE sb.out[b]
    BY <1>1 DEF ClockEdge, BankRegisters
  <2>3. i.op = "STORE" => /\ sb.wr = "IDLE" /\ sb.out[i.src] = "READY"
                          /\ ~(sb.vector = "BUSY" /\ sb.vecBuf = i.src)
    BY <1>1, Preconditions
  <2>4. /\ sb'.wr = IF wrm.done THEN "IDLE" ELSE IF i.op = "STORE" THEN "BUSY" ELSE sb.wr
        /\ sb'.wrBuf = IF i.op = "STORE" THEN i.src ELSE sb.wrBuf
    BY <1>1 DEF ClockEdge, EngineRegisters, ContextRegisters
  <2> QED
    BY ONLY <1>2, <1>3, <2>1, <2>2, <2>3, <2>4
<1>6. (sb.bias = "FILLING" <=> sb.rd = "BUSY" /\ sb.rdTarget = "BIAS")'
  <2>1. sb.bias = "FILLING" <=> sb.rd = "BUSY" /\ sb.rdTarget = "BIAS"
    BY <1>1 DEF BuffersOwned
  <2>2. i.op \in LoadOp => sb.rd = "IDLE"
    BY <1>1, Preconditions DEF LoadOp
  <2> QED
    BY ONLY <1>1, <1>2, <1>3, <2>1, <2>2
       DEF ClockEdge, EngineRegisters, ContextRegisters, BufferRegisters, LoadOp
<1>7. /\ (sb.wgt = "FILLING" <=>
            (sb.rd = "BUSY" /\ sb.rdTarget = "WEIGHT") \/ bram.wtRdValid)'
      /\ (bram.wtRdValid => sb.rd = "IDLE")'
  <2>1. /\ sb.wgt = "FILLING" <=>
             (sb.rd = "BUSY" /\ sb.rdTarget = "WEIGHT") \/ bram.wtRdValid
        /\ bram.wtRdValid => sb.rd = "IDLE"
    BY <1>1 DEF BuffersOwned
  <2>2. /\ i.op \in LoadOp => sb.rd = "IDLE"
        /\ i.op = "LOAD_WGT" => sb.wgt = "EMPTY"
        /\ i.op = "SWAP_WGT" => sb.wgt = "READY"
    BY <1>1, Preconditions DEF LoadOp
  <2> QED
    BY ONLY <1>1, <1>2, <1>3, <2>1, <2>2
       DEF ClockEdge, EngineRegisters, ContextRegisters, BufferRegisters, LoadOp
<1>8. /\ (sb.accum = "IN_USE" <=> sb.vector = "BUSY")'
      /\ (sb.array = "BUSY" => sb.accum = "FILLING")'
  <2>1. /\ sb.accum = "IN_USE" <=> sb.vector = "BUSY"
        /\ sb.array = "BUSY" => sb.accum = "FILLING"
    BY <1>1 DEF BuffersOwned
  <2>2. /\ i.op = "MATMUL" => sb.array = "IDLE" /\ sb.accum \in {"EMPTY", "FILLING"}
        /\ i.op = "VECTOR" => sb.vector = "IDLE" /\ sb.accum = "READY"
    BY <1>1, Preconditions
  <2> QED
    BY ONLY <1>1, <1>2, <1>3, <2>1, <2>2 DEF ClockEdge, EngineRegisters, BufferRegisters
<1>9. (sb.vector = "BUSY" => sb.bias = "READY" /\ sb.out[sb.vecBuf] # "IN_USE")'
  <2>1. /\ sb.vector = "BUSY" => sb.bias = "READY" /\ sb.out[sb.vecBuf] # "IN_USE"
        /\ sb.bias = "FILLING" <=> sb.rd = "BUSY" /\ sb.rdTarget = "BIAS"
        /\ \A b \in Bank : sb.out[b] = "IN_USE" <=> sb.wr = "BUSY" /\ sb.wrBuf = b
    BY <1>1 DEF BuffersOwned
  <2>2. /\ i.op = "VECTOR" => /\ sb.vector = "IDLE" /\ sb.bias = "READY"
                              /\ sb.out[i.dst] # "IN_USE"
        /\ i.op = "STORE" => ~(sb.vector = "BUSY" /\ sb.vecBuf = i.src)
        /\ i.op = "LOAD_BIAS" => sb.bias = "EMPTY"
    BY <1>1, Preconditions
  <2>3. sb'.vecBuf = IF i.op = "VECTOR" THEN i.dst ELSE sb.vecBuf
    BY <1>1 DEF ClockEdge, ContextRegisters
  <2>4. sb'.vecBuf \in Bank
    BY <1>3, <2>3
  <2>5. sb'.out[sb'.vecBuf] =
           IF VectorPulse /\ sb'.vecBuf = sb.vecBuf THEN "READY"
           ELSE IF wrm.done /\ sb'.vecBuf = sb.wrBuf THEN "EMPTY"
           ELSE IF i.op = "STORE" /\ sb'.vecBuf = i.src THEN "IN_USE"
           ELSE sb.out[sb'.vecBuf]
    BY <1>1, <2>4 DEF ClockEdge, BankRegisters
  <2>6. /\ sb'.vector = IF VectorPulse THEN "IDLE"
                        ELSE IF i.op = "VECTOR" THEN "BUSY" ELSE sb.vector
        /\ sb'.bias = IF ReadPulse /\ sb.rdTarget = "BIAS" THEN "READY"
                      ELSE IF i.op = "LOAD_BIAS" THEN "FILLING" ELSE sb.bias
    BY <1>1 DEF ClockEdge, EngineRegisters, BufferRegisters
  <2> QED
    BY ONLY <1>2, <1>3, <2>1, <2>2, <2>3, <2>5, <2>6
<1> QED
  BY <1>4, <1>5, <1>6, <1>7, <1>8, <1>9 DEF BuffersOwned

LEMMA EngineInvInit == Init => EngineInv
<1> SUFFICES ASSUME Init PROVE EngineInv
  OBVIOUS
<1>1. EnginesTracked
  BY DEF Init, EnginesTracked, ResetScoreboard, ArrayPulse
<1>2. BuffersOwned
  BY DEF Init, BuffersOwned, ResetScoreboard, Bank
<1> QED
  BY <1>1, <1>2, TypeInit DEF EngineInv

LEMMA EngineInvStep ==
  ASSUME EngineInv, [Next]_vars
  PROVE  EngineInv'
<1>1. TypeOK'
  BY TypeStep DEF EngineInv
<1>2. CASE CoreStands
  BY <1>1, <1>2 DEF EngineInv, CoreStands, EnginesTracked, BuffersOwned, ArrayPulse
<1>3. CASE \E g \in Go, i \in Instruction : CoreCycles(i, g)
  BY <1>1, <1>3, TrackedStep, OwnedStep DEF EngineInv
<1> QED
  BY <1>2, <1>3, CoreSteps DEF EngineInv

LEMMA EngineInvHolds == Spec => []EngineInv
<1>1. EngineInv /\ [Next]_vars => EngineInv'
  BY EngineInvStep
<1> QED
  BY EngineInvInit, <1>1, PTL DEF Spec

(* The scoreboard is BUSY for an engine exactly while the engine has work: the
   write master's registered done, the array's level, the vector unit's depth
   are all accounted for. *)
THEOREM EnginesStayTracked == Spec => []EnginesTracked
BY EngineInvHolds, PTL DEF EngineInv

(* No buffer is locked by an engine that has finished, and none is handed out
   while an engine works on it. *)
THEOREM BuffersStayOwned == Spec => []BuffersOwned
BY EngineInvHolds, PTL DEF EngineInv

-----------------------------------------------------------------------------
(* The end of a run leaves nothing behind. *)
LEMMA RestInit == Init => EndsAtRest
BY DEF Init, EndsAtRest, ResetBookkeeping

LEMMA RestStep ==
  ASSUME EngineInv, EndsAtRest, [Next]_vars
  PROVE  EndsAtRest'
<1>1. CASE CoreStands
  BY <1>1 DEF CoreStands, EndsAtRest
<1>2. ASSUME NEW g \in Go, NEW i \in Instruction, CoreCycles(i, g), sb'.accel = "IDLE"
      PROVE  /\ rdm'.st = "IDLE" /\ wrm'.st = "IDLE" /\ ~wrm'.done
             /\ ~arr'.rdv /\ arr'.row = <<>> /\ (arr'.pm = "DONE" <=> bk'.arrayDoneD)
             /\ arr'.pm # "RUNNING" /\ vec'.left = 0 /\ ~bram'.wtRdValid
  <2>1. i.op \in {"END", "NOP"}
    BY <1>2, NothingIssued DEF CoreCycles
  <2>2. /\ rdm.st = "IDLE" /\ wrm.st = "IDLE" /\ ~wrm.done
        /\ ~arr.rdv /\ arr.pm # "RUNNING" /\ vec.left = 0
    <3>1. CASE i.op = "END"
      <4>1. sb.rd = "IDLE" /\ sb.wr = "IDLE" /\ sb.array = "IDLE" /\ sb.vector = "IDLE"
        BY <1>2, <3>1, Preconditions DEF CoreCycles
      <4> QED
        BY <4>1 DEF EngineInv, EnginesTracked, TypeOK, EngineType
    <3>2. CASE i.op # "END"
      BY <1>2, <3>2 DEF CoreCycles, EndsAtRest, TypeOK
    <3> QED
      BY <3>1, <3>2
  <2> QED
    BY <1>2, <2>1, <2>2, EngineMoves DEF CoreCycles, EngineInv, ReadPulse, LoadOp
<1> QED
  BY <1>1, <1>2, CoreSteps DEF EndsAtRest, EngineInv

(* Nothing outlives the run that began it. *)
THEOREM RunsEndAtRest == Spec => []EndsAtRest
<1>1. EngineInv /\ EndsAtRest /\ [Next]_vars => EndsAtRest'
  BY RestStep
<1> QED
  BY RestInit, <1>1, EngineInvHolds, PTL DEF Spec

-----------------------------------------------------------------------------
(* A burst and its beat counter run in step. *)
LEMMA BurstStep ==
  ASSUME EngineInv, BurstsComplete, [Next]_vars
  PROVE  BurstsComplete'
<1>1. CASE CoreStands
  BY <1>1 DEF CoreStands, BurstsComplete
<1>2. ASSUME NEW g \in Go, NEW i \in Instruction, CoreCycles(i, g)
      PROVE  BurstsComplete'
  <2>1. /\ EngineType /\ bk \in BookkeepingType
        /\ CanIssue(sb, i) /\ Datapath(i, g) /\ Book(i, g)
        /\ i.len \in Nat
    BY <1>2 DEF CoreCycles, EngineInv, TypeOK, Instruction
  <2>2. /\ bk.ldCnt \in Nat /\ bk.ldTotal \in Nat /\ rdm.left \in Nat
        /\ bk.stCnt \in Nat /\ bk.stTotal \in Nat /\ wrm.left \in Nat
    BY <2>1 DEF EngineType, BookkeepingType
  <2>3. /\ (rdm.st = "DONE" => bk.ldCnt = bk.ldTotal)'
        /\ (rdm.st \in {"ADDR", "DATA"} => bk.ldCnt + rdm.left + 1 = bk.ldTotal)'
    <3>1. /\ bk'.ldCnt = IF i.op \in LoadOp THEN 0
                         ELSE IF LdBeat(g) THEN bk.ldCnt + 1 ELSE bk.ldCnt
          /\ bk'.ldTotal = IF i.op \in LoadOp THEN i.len + 1 ELSE bk.ldTotal
      BY <2>1 DEF Book, NextBookkeeping
    <3>2. /\ i.op \in LoadOp => rdm.st = "IDLE"
          /\ rdm.st = "DATA" => sb.rd = "BUSY"
      <4>1. i.op \in LoadOp => sb.rd = "IDLE"
        BY <2>1, Preconditions DEF LoadOp
      <4> QED
        BY <4>1 DEF EngineInv, EnginesTracked
    <3>3. /\ rdm.st \in {"IDLE", "ADDR", "DATA", "DONE"}
          /\ rdm.st \in {"ADDR", "DATA"} => bk.ldCnt + rdm.left + 1 = bk.ldTotal
      BY <2>1 DEF BurstsComplete, EngineType
    <3>4. LdBeat(g) <=> rdm.st = "DATA" /\ g.rd
      BY <2>2, <3>2, <3>3 DEF LdBeat, RdBeat
    <3>5. CASE i.op \in LoadOp
      <4>1. rdm'.st = "ADDR" /\ rdm'.left = i.len
        BY <2>1, <3>2, <3>5 DEF Datapath, NextRdm
      <4> QED
        BY ONLY <2>1, <3>1, <3>5, <4>1
    <3>6. CASE i.op \notin LoadOp
      <4>1. /\ rdm'.st = CASE rdm.st = "ADDR" /\ g.rd -> "DATA"
                           [] rdm.st = "DATA" /\ g.rd /\ rdm.left = 0 -> "DONE"
                           [] rdm.st = "DONE" -> "IDLE"
                           [] OTHER -> rdm.st
            /\ rdm'.left = IF rdm.st = "DATA" /\ g.rd /\ rdm.left # 0
                           THEN rdm.left - 1 ELSE rdm.left
        BY <2>1, <3>6 DEF Datapath, NextRdm, EngineType
      <4> QED
        BY ONLY <2>2, <3>1, <3>3, <3>4, <3>6, <4>1
    <3> QED
      BY <3>5, <3>6
  <2>4. /\ (wrm.st = "RESP" => bk.stCnt = bk.stTotal)'
        /\ (wrm.st \in {"ADDR", "DATA"} => bk.stCnt + wrm.left + 1 = bk.stTotal)'
    <3>1. /\ bk'.stCnt = IF i.op = "STORE" THEN 0
                         ELSE IF StBeat(g) THEN bk.stCnt + 1 ELSE bk.stCnt
          /\ bk'.stTotal = IF i.op = "STORE" THEN i.len + 1 ELSE bk.stTotal
      BY <2>1 DEF Book, NextBookkeeping
    <3>2. /\ i.op = "STORE" => wrm.st = "IDLE"
          /\ wrm.st = "DATA" => sb.wr = "BUSY"
      <4>1. i.op = "STORE" => sb.wr = "IDLE"
        BY <2>1, Preconditions
      <4> QED
        BY <4>1 DEF EngineInv, EnginesTracked
    <3>3. /\ wrm.st \in {"IDLE", "ADDR", "DATA", "RESP"}
          /\ wrm.st = "RESP" => bk.stCnt = bk.stTotal
          /\ wrm.st \in {"ADDR", "DATA"} => bk.stCnt + wrm.left + 1 = bk.stTotal
      BY <2>1 DEF BurstsComplete, EngineType
    <3>4. StBeat(g) <=> wrm.st = "DATA" /\ g.wr
      BY <2>2, <3>2, <3>3 DEF StBeat, WrBeat
    <3>5. CASE i.op = "STORE"
      <4>1. wrm'.st = "ADDR" /\ wrm'.left = i.len
        BY <2>1, <3>2, <3>5 DEF Datapath, NextWrm
      <4> QED
        BY ONLY <2>1, <3>1, <3>5, <4>1
    <3>6. CASE i.op # "STORE"
      <4>1. /\ wrm'.st = CASE wrm.st = "ADDR" /\ g.wr -> "DATA"
                           [] wrm.st = "DATA" /\ g.wr /\ wrm.left = 0 -> "RESP"
                           [] wrm.st = "RESP" /\ g.wr -> "IDLE"
                           [] OTHER -> wrm.st
            /\ wrm'.left = IF wrm.st = "DATA" /\ g.wr /\ wrm.left # 0
                           THEN wrm.left - 1 ELSE wrm.left
        BY <2>1, <3>6 DEF Datapath, NextWrm, EngineType
      <4> QED
        BY ONLY <2>2, <3>1, <3>3, <3>4, <3>6, <4>1
    <3> QED
      BY <3>5, <3>6
  <2> QED
    BY <2>3, <2>4 DEF BurstsComplete
<1> QED
  BY <1>1, <1>2, CoreSteps DEF EngineInv

(* A completion means that every beat has been moved: no burst ends with beats
   outstanding or with beats that were not counted. *)
THEOREM BurstsAreComplete == Spec => []BurstsComplete
<1>1. Init => BurstsComplete
  BY DEF Init, BurstsComplete
<1>2. EngineInv /\ BurstsComplete /\ [Next]_vars => BurstsComplete'
  BY BurstStep
<1> QED
  BY <1>1, <1>2, EngineInvHolds, PTL DEF Spec

-----------------------------------------------------------------------------
(* The row counters.  The instruction memory holds one of the programs. *)
RomLoaded == rom = <<>> \/ rom \in Programs

LEMMA RomLoadedHolds == Spec => []RomLoaded
<1>1. Init => RomLoaded
  BY DEF Init, FifoInit, RomLoaded
<1>2. RomLoaded /\ [Next]_vars => RomLoaded'
  <2> SUFFICES ASSUME RomLoaded, [Next]_vars PROVE RomLoaded'
    OBVIOUS
  <2>1. CASE rom' = rom
    BY <2>1 DEF RomLoaded
  <2>2. CASE \E p \in Programs : FifoProgram(p)
    BY <2>2 DEF RomLoaded, FifoProgram
  <2>3. FifoStep
    BY WindowSteps
  <2> QED
    BY <2>1, <2>2, <2>3 DEF FifoStep, FifoHold, fifoVars, FifoRestart, FifoPop
<1> QED
  BY <1>1, <1>2, PTL DEF Spec

(* What the window offers of an activation load. *)
LEMMA WholeRowsInWindow ==
  ASSUME WholeRows, RomLoaded, FifoTypeOK, NEW k \in Slot, Words[k].op = "LOAD_ACT"
  PROVE  RowsLoaded(Words[k]) \in 1..ROWS
<1>1. END.op # "LOAD_ACT"
  BY DEF END, Blank
<1>2. Words[k] = Fetch(window[k]) /\ window[k] \in Nat /\ Len(rom) \in Nat
  BY FifoAssumption DEF Words, FifoTypeOK
<1>3. window[k] < Len(rom) /\ Words[k] = rom[window[k] + 1]
  BY <1>1, <1>2 DEF Fetch
<1>4. window[k] + 1 \in DOMAIN rom
  <2>1. DOMAIN rom = 1..Len(rom)
    BY DEF FifoTypeOK
  <2> QED
    BY <1>2, <1>3, <2>1
<1>5. rom \in Programs
  BY <1>2, <1>3 DEF RomLoaded
<1> QED
  BY <1>3, <1>4, <1>5 DEF WholeRows

(* Counting below the width of the counter does not wrap. *)
LEMMA SmallRowCounts ==
  ASSUME NEW n \in 1..ROWS
  PROVE  /\ n % ROW_COUNTS = n
         /\ (n + ROW_COUNTS - 1) % ROW_COUNTS = n - 1
<1>1. ROW_COUNTS \in Nat \ {0} /\ n \in 0..ROW_COUNTS - 1 /\ n - 1 \in 0..ROW_COUNTS - 1
  BY IsaAssumption DEF ROW_COUNTS
<1>2. \A m \in Nat \ {0} : \A x \in 0..m - 1 : x % m = x
  OBVIOUS
<1>3. \A m \in Nat \ {0} : \A x \in 1..m : (x + m - 1) % m = x - 1
  <2> SUFFICES ASSUME NEW m \in Nat \ {0}, NEW x \in 1..m
               PROVE  (x + m - 1) % m = x - 1
    OBVIOUS
  <2>1. x - 1 \in 0..m - 1 /\ x + m - 1 = m * 1 + (x - 1)
    OBVIOUS
  <2> QED
    BY <2>1
<1>4. n \in 1..ROW_COUNTS
  BY <1>1
<1> QED
  BY <1>1, <1>2, <1>3, <1>4

LEMMA RowsStep ==
  ASSUME WholeRows, EngineInv, RomLoaded, RowsCounted, [Next]_vars
  PROVE  RowsCounted'
<1>1. CASE CoreStands
  BY <1>1 DEF CoreStands, RowsCounted
<1>2. ASSUME NEW g \in Go, NEW i \in Instruction, CoreCycles(i, g), NEW b \in Bank
      PROVE  /\ sb'.act[b] # "EMPTY" => sb'.rows[b] \in 1..ROWS
             /\ sb'.act[b] = "EMPTY" => sb'.rows[b] = 0
  <2>1. /\ ClockEdge(i) /\ CanIssue(sb, i)
        /\ i = NOP \/ i \in {Words[k] : k \in Slot}
    BY <1>2 DEF CoreCycles
  <2>2. /\ sb.rows[b] \in Int /\ ROWS \in Nat
        /\ sb.act[b] # "EMPTY" => sb.rows[b] \in 1..ROWS
        /\ sb.act[b] = "EMPTY" => sb.rows[b] = 0
    BY IsaAssumption DEF RowsCounted, EngineInv, TypeOK, ScoreboardType
  <2>3. i.op = "LOAD_ACT" => RowsLoaded(i) \in 1..ROWS
    BY <2>1, WholeRowsInWindow, NothingIssued DEF EngineInv, TypeOK
  <2>4. /\ sb'.act[b] =
             IF ArrayPulse /\ b = sb.arrayBuf
             THEN IF sb.rows[b] <= 1 THEN "EMPTY" ELSE "READY"
             ELSE IF ReadPulse /\ sb.rdTarget = "ACT" /\ b = sb.rdBuf THEN "READY"
             ELSE IF i.op = "LOAD_ACT" /\ b = i.dst THEN "FILLING"
             ELSE IF i.op = "MATMUL" /\ b = i.src THEN "IN_USE" ELSE sb.act[b]
        /\ sb'.rows[b] =
             IF ArrayPulse /\ b = sb.arrayBuf
             THEN (sb.rows[b] + ROW_COUNTS - 1) % ROW_COUNTS
             ELSE IF i.op = "LOAD_ACT" /\ b = i.dst THEN RowsLoaded(i) % ROW_COUNTS
             ELSE sb.rows[b]
    BY <2>1 DEF ClockEdge, BankRegisters
  <2>5. /\ ArrayPulse /\ b = sb.arrayBuf => sb.act[b] = "IN_USE"
        /\ ReadPulse /\ sb.rdTarget = "ACT" /\ b = sb.rdBuf => sb.act[b] = "FILLING"
    BY DEF EngineInv, EnginesTracked, BuffersOwned, ReadPulse
  <2>6. /\ i.op = "LOAD_ACT" /\ b = i.dst => sb.rd = "IDLE" /\ sb.act[b] = "EMPTY"
        /\ i.op = "MATMUL" /\ b = i.src => sb.act[b] = "READY"
    BY <2>1, Preconditions
  <2>7. CASE ArrayPulse /\ b = sb.arrayBuf
    <3>1. sb.rows[b] \in 1..ROWS
      BY <2>2, <2>5, <2>7
    <3>2. sb'.rows[b] = sb.rows[b] - 1
      BY <2>4, <2>7, <3>1, SmallRowCounts
    <3> QED
      BY ONLY <2>2, <2>4, <2>7, <3>1, <3>2
  <2>8. CASE ~(ArrayPulse /\ b = sb.arrayBuf) /\ i.op = "LOAD_ACT" /\ b = i.dst
    <3>1. sb'.rows[b] = RowsLoaded(i)
      BY <2>3, <2>4, <2>8, SmallRowCounts
    <3>2. sb'.act[b] # "EMPTY"
      BY ONLY <2>4, <2>8
    <3> QED
      BY <2>3, <2>8, <3>1, <3>2
  <2>9. CASE ~(ArrayPulse /\ b = sb.arrayBuf) /\ ~(i.op = "LOAD_ACT" /\ b = i.dst)
    BY ONLY <2>2, <2>4, <2>5, <2>6, <2>9
  <2> QED
    BY <2>7, <2>8, <2>9
<1> QED
  BY <1>1, <1>2, CoreSteps DEF RowsCounted, EngineInv

(* When the programs load whole rows, and not more than a bank has, the row
   counter never wraps and a bank is EMPTY exactly when it has none left. *)
THEOREM RowsStayCounted == ASSUME WholeRows PROVE Spec => []RowsCounted
<1>1. Init => RowsCounted
  BY DEF Init, ResetScoreboard, RowsCounted
<1>2. EngineInv /\ RomLoaded /\ RowsCounted /\ [Next]_vars => RowsCounted'
  BY RowsStep
<1> QED
  BY <1>1, <1>2, EngineInvHolds, RomLoadedHolds, PTL DEF Spec

-----------------------------------------------------------------------------
(* The banked memories are pairs of banks. *)
Banked ==
  /\ bram.act = [b \in Bank |-> bram.act[b]]
  /\ bram.out = [b \in Bank |-> bram.out[b]]

LEMMA BankedStep ==
  ASSUME EngineInv, Banked, [Next]_vars
  PROVE  Banked'
<1>1. CASE CoreStands
  BY <1>1 DEF CoreStands, Banked
<1>2. ASSUME NEW g \in Go, NEW i \in Instruction, CoreCycles(i, g)
      PROVE  Banked'
  <2>1. bram' = NextBram(i, g)
    BY <1>2 DEF CoreCycles, Datapath
  <2>2. bram'.act = IF LdBeat(g) /\ sb.rdTarget = "ACT"
                    THEN [bram.act EXCEPT ![sb.rdBuf] = Loaded(@, ACT_BEATS)]
                    ELSE bram.act
    BY <2>1 DEF NextBram
  <2>3. bram'.out = IF VectorPulse
                    THEN [bram.out EXCEPT ![sb.vecBuf][bk.vecAddr] = vec.val]
                    ELSE bram.out
    BY <2>1 DEF NextBram
  <2> QED
    BY <2>2, <2>3 DEF Banked
<1> QED
  BY <1>1, <1>2, CoreSteps DEF EngineInv

LEMMA BankedHolds == Spec => []Banked
<1>1. Init => Banked
  BY DEF Init, Banked
<1>2. EngineInv /\ Banked /\ [Next]_vars => Banked'
  BY BankedStep
<1> QED
  BY <1>1, <1>2, EngineInvHolds, PTL DEF Spec

(* An engine's operands are written by no other engine. *)
LEMMA OperandsStep ==
  ASSUME EngineInv, Banked, [Next]_vars
  PROVE  [OperandsHeld]_vars
<1>1. CASE CoreStands
  BY <1>1 DEF CoreStands, OperandsHeld
<1>2. ASSUME NEW g \in Go, NEW i \in Instruction, CoreCycles(i, g)
      PROVE  OperandsHeld
  <2>1. bram' = NextBram(i, g) /\ arr' = NextArr(i, g) /\ CanIssue(sb, i)
    BY <1>2 DEF CoreCycles, Datapath
  <2>2. /\ sb.rdBuf \in Bank /\ sb.wrBuf \in Bank /\ sb.arrayBuf \in Bank
        /\ sb.vecBuf \in Bank /\ sb.rd \in EngState
    BY DEF EngineInv, TypeOK, ScoreboardType
  <2>3. ASSUME sb.wr = "BUSY" PROVE bram'.out[sb.wrBuf] = bram.out[sb.wrBuf]
    <3>1. sb.out[sb.wrBuf] = "IN_USE"
      BY <2>2, <2>3 DEF EngineInv, BuffersOwned
    <3>2. VectorPulse => sb.vecBuf # sb.wrBuf
      BY <3>1 DEF VectorPulse, EngineInv, EnginesTracked, BuffersOwned
    <3>3. bram'.out = IF VectorPulse
                      THEN [bram.out EXCEPT ![sb.vecBuf][bk.vecAddr] = vec.val]
                      ELSE bram.out
      BY <2>1 DEF NextBram
    <3> QED
      BY <2>2, <3>2, <3>3 DEF Banked
  <2>4. ASSUME sb.array = "BUSY"
        PROVE  /\ bram'.act[sb.arrayBuf] = bram.act[sb.arrayBuf]
               /\ arr'.wgt = arr.wgt
    <3>1. sb.act[sb.arrayBuf] = "IN_USE"
      BY <2>2, <2>4 DEF EngineInv, BuffersOwned
    <3>2. LdBeat(g) /\ sb.rdTarget = "ACT" => sb.rdBuf # sb.arrayBuf
      BY <2>2, <3>1 DEF LdBeat, EngineInv, BuffersOwned
    <3>3. bram'.act = IF LdBeat(g) /\ sb.rdTarget = "ACT"
                      THEN [bram.act EXCEPT ![sb.rdBuf] = Loaded(@, ACT_BEATS)]
                      ELSE bram.act
      BY <2>1 DEF NextBram
    <3>4. i.op # "SWAP_WGT"
      BY <2>1, <2>4, Preconditions
    <3>5. arr'.wgt = arr.wgt
      BY <2>1, <3>4 DEF NextArr
    <3> QED
      BY <2>2, <3>2, <3>3, <3>5 DEF Banked
  <2>5. ASSUME sb.vector = "BUSY" PROVE bram'.acc = bram.acc /\ bram'.bias = bram.bias
    <3>1. sb.accum = "IN_USE" /\ sb.bias = "READY"
      BY <2>5 DEF EngineInv, BuffersOwned
    <3>2. ~ArrayPulse /\ ~(LdBeat(g) /\ sb.rdTarget = "BIAS")
      BY <3>1 DEF EngineInv, EnginesTracked, BuffersOwned, LdBeat
    <3> QED
      BY <2>1, <3>2 DEF NextBram
  <2> QED
    BY <2>3, <2>4, <2>5 DEF OperandsHeld
<1> QED
  BY <1>1, <1>2, CoreSteps DEF EngineInv

(* While an engine is busy, what it reads does not change, whatever the others
   do in the same cycles. *)
THEOREM OperandsStayStable == Spec => OperandsStable
<1>1. EngineInv /\ Banked /\ [Next]_vars => [OperandsHeld]_vars
  BY OperandsStep
<1> QED
  BY <1>1, EngineInvHolds, BankedHolds, PTL DEF Spec, OperandsStable
-----------------------------------------------------------------------------
(* The accelerator under soft_reset at any moment: a step is one of the
   accelerator, or a reset. *)
LEMMA ProceedOrReset ==
  ASSUME [NextR]_resetVars
  PROVE  [Next]_vars \/ \E g \in Go : SoftReset(g)
BY DEF NextR, Proceed, Reset, resetVars

(* A reset restarts the window whatever it held. *)
LEMMA ResetWindowSteps ==
  ASSUME [NextR]_resetVars
  PROVE  FifoStep
<1>1. CASE [Next]_vars
  BY <1>1, WindowSteps
<1>2. CASE \E g \in Go : SoftReset(g)
  BY <1>2 DEF SoftReset, FifoStep
<1> QED
  BY <1>1, <1>2, ProceedOrReset

(* Out-of-order issue never reorders two instructions that conflict, wherever
   in a run soft_reset falls. *)
THEOREM ResetNeverOvertakes == SpecR => []NoOvertake
<1>1. InitR => FifoInv
  BY FifoInvInit DEF InitR
<1>2. FifoInv /\ [NextR]_resetVars => FifoInv'
  BY ResetWindowSteps, FifoInvStep
<1>3. FifoInv => NoOvertake
  BY DEF FifoInv
<1> QED
  BY <1>1, <1>2, <1>3, PTL DEF SpecR

-----------------------------------------------------------------------------
LEMMA OnTheWiresTyped ==
  ASSUME FifoTypeOK
  PROVE  OnTheWires \in Instruction
<1>1. CASE \E k \in Slot : Selected(sb, Words, k)
  <2> DEFINE k == CHOOSE j \in Slot : Selected(sb, Words, j)
  <2>1. k \in Slot
    BY <1>1
  <2>2. OnTheWires = Words[k]
    BY <1>1 DEF Issuing, OnTheWires
  <2> HIDE DEF k
  <2> QED
    BY <2>1, <2>2, WordsTyped
<1>2. CASE ~ \E k \in Slot : Selected(sb, Words, k)
  BY <1>2, BuilderTyped DEF Issuing, OnTheWires
<1> QED
  BY <1>1, <1>2

LEMMA ResetBookTyped == ResetBookkeeping \in BookkeepingType
BY IsaAssumption DEF ResetBookkeeping, BookkeepingType, Row

LEMMA ResetTypeStep ==
  ASSUME TypeOK, [NextR]_resetVars
  PROVE  TypeOK'
<1>1. CASE [Next]_vars
  BY <1>1, TypeStep
<1>2. CASE \E g \in Go : SoftReset(g)
  <2>1. PICK g \in Go : SoftReset(g)
    BY <1>2
  <2>2. FifoTypeOK'
    BY ResetWindowSteps, FifoTypeStep DEF TypeOK
  <2>3. sb' \in ScoreboardType /\ bk' \in BookkeepingType
    BY <2>1, ResetTyped, ResetBookTyped DEF SoftReset
  <2>4. EngineType'
    <3>1. Datapath(OnTheWires, g)
      BY <2>1 DEF SoftReset
    <3> QED
      BY <3>1, OnTheWiresTyped, EngineStep DEF TypeOK
  <2>5. loaded' = loaded /\ runs' = runs
    BY <2>1 DEF SoftReset
  <2> QED
    BY <2>2, <2>3, <2>4, <2>5 DEF TypeOK
<1> QED
  BY <1>1, <1>2, ProceedOrReset

(* What can happen to the beat counters in one step. *)
LEMMA BookSteps ==
  ASSUME FifoTypeOK, [NextR]_resetVars
  PROVE  \/ \E g \in Go, i \in Instruction : Book(i, g)
         \/ bk' = ResetBookkeeping
         \/ bk' = bk
<1>1. CASE \E g \in Go : SoftReset(g)
  BY <1>1 DEF SoftReset
<1>2. CASE [Next]_vars
  <2>1. CASE \E g \in Go : Cycle(g)
    <3>1. PICK g \in Go : Cycle(g)
      BY <2>1
    <3>2. CASE NoIssue(g)
      BY <3>2, BuilderTyped DEF NoIssue
    <3>3. CASE \E op \in Op : Issue(op, g)
      <4>1. PICK k \in Slot : Book(Words[k], g)
        BY <3>3 DEF Issue
      <4>2. Words[k] \in Instruction
        BY WordsTyped
      <4> QED
        BY <4>1, <4>2
    <3> QED
      BY <3>1, <3>2, <3>3 DEF Cycle
  <2>2. CASE \E g \in Go : Start(g)
    BY <2>2, BuilderTyped DEF Start
  <2>3. CASE \E p \in Programs : LoadProgram(p)
    BY <2>3 DEF LoadProgram
  <2>4. CASE UNCHANGED vars
    BY <2>4 DEF vars
  <2> QED
    BY <1>2, <2>1, <2>2, <2>3, <2>4 DEF Next
<1> QED
  BY <1>1, <1>2, ProceedOrReset

(* A counted beat is one the counter still has room for. *)
LEMMA CountedWithinBurst ==
  ASSUME bk \in BookkeepingType, BeatsWithinBurst,
         NEW g \in Go, NEW i \in Instruction, Book(i, g)
  PROVE  BeatsWithinBurst'
<1>1. /\ bk.ldCnt \in Nat /\ bk.ldTotal \in Nat /\ bk.ldCnt <= bk.ldTotal
      /\ bk.stCnt \in Nat /\ bk.stTotal \in Nat /\ bk.stCnt <= bk.stTotal
      /\ i.len \in Nat
  BY DEF BookkeepingType, BeatsWithinBurst, Instruction
<1>2. /\ LdBeat(g) => bk.ldCnt < bk.ldTotal
      /\ StBeat(g) => bk.stCnt < bk.stTotal
  BY DEF LdBeat, StBeat
<1>3. bk'.ldCnt <= bk'.ldTotal
  <2>1. /\ bk'.ldCnt = IF i.op \in LoadOp THEN 0
                       ELSE IF LdBeat(g) THEN bk.ldCnt + 1 ELSE bk.ldCnt
        /\ bk'.ldTotal = IF i.op \in LoadOp THEN i.len + 1 ELSE bk.ldTotal
    BY DEF Book, NextBookkeeping
  <2> QED
    BY ONLY <1>1, <1>2, <2>1
<1>4. bk'.stCnt <= bk'.stTotal
  <2>1. /\ bk'.stCnt = IF i.op = "STORE" THEN 0
                       ELSE IF StBeat(g) THEN bk.stCnt + 1 ELSE bk.stCnt
        /\ bk'.stTotal = IF i.op = "STORE" THEN i.len + 1 ELSE bk.stTotal
    BY DEF Book, NextBookkeeping
  <2> QED
    BY ONLY <1>1, <1>2, <2>1
<1> QED
  BY <1>3, <1>4 DEF BeatsWithinBurst

(* Every register keeps its declared width under a reset at any moment. *)
THEOREM ResetTypeCorrect == SpecR => []TypeOK
<1>1. InitR => TypeOK
  BY TypeInit DEF InitR
<1>2. TypeOK /\ [NextR]_resetVars => TypeOK'
  BY ResetTypeStep
<1> QED
  BY <1>1, <1>2, PTL DEF SpecR

(* Stale beats of a burst that a reset abandoned never carry a counter past
   the burst that is counted when they arrive. *)
THEOREM ResetKeepsBurstBounds == SpecR => []BeatsWithinBurst
<1>1. InitR => BeatsWithinBurst
  BY DEF InitR, Init, ResetBookkeeping, BeatsWithinBurst
<1>2. TypeOK /\ BeatsWithinBurst /\ [NextR]_resetVars => BeatsWithinBurst'
  <2> SUFFICES ASSUME TypeOK, BeatsWithinBurst, [NextR]_resetVars
               PROVE  BeatsWithinBurst'
    OBVIOUS
  <2>1. CASE \E g \in Go, i \in Instruction : Book(i, g)
    BY <2>1, CountedWithinBurst DEF TypeOK
  <2>2. CASE bk' = ResetBookkeeping
    BY <2>2 DEF ResetBookkeeping, BeatsWithinBurst
  <2>3. CASE bk' = bk
    BY <2>3 DEF BeatsWithinBurst
  <2> QED
    BY <2>1, <2>2, <2>3, BookSteps DEF TypeOK
<1> QED
  BY <1>1, <1>2, ResetTypeCorrect, PTL DEF SpecR

-----------------------------------------------------------------------------
(* What a reset taken at rest leaves behind, until the next run starts: still
   engines, and a scoreboard that only the array's completion level can touch
   again. *)
FreshInv ==
  fresh =>
    /\ AtRest
    /\ ~bram.wtRdValid
    /\ arr.pm # "DONE" => sb = ResetScoreboard

(* A cycle without a start pulse or a completion keeps the machine at rest. *)
LEMMA RestingCycle ==
  ASSUME EngineType, NEW g \in Go, AtRest, Datapath(NOP, g)
  PROVE  /\ rdm'.st = "IDLE" /\ wrm'.st = "IDLE" /\ ~wrm'.done
         /\ ~arr'.rdv /\ arr'.pm = arr.pm /\ vec'.left = 0
         /\ ~bram'.wtRdValid
<1>1. NOP.op = "NOP"
  BY DEF NOP, Blank
<1>2. rdm' = rdm
  BY <1>1 DEF AtRest, Datapath, NextRdm, LoadOp
<1>3. wrm'.st = "IDLE" /\ ~wrm'.done
  BY <1>1 DEF AtRest, Datapath, NextWrm, EngineType
<1>4. ~arr'.rdv /\ arr'.pm = arr.pm
  BY <1>1 DEF AtRest, Datapath, NextArr
<1>5. vec'.left = 0
  BY <1>1 DEF AtRest, Datapath, NextVec, EngineType
<1>6. ~bram'.wtRdValid
  BY DEF AtRest, Datapath, NextBram, WtRdEn, ReadPulse
<1> QED
  BY <1>2, <1>3, <1>4, <1>5, <1>6 DEF AtRest

(* At rest the scheduler offers nothing. *)
LEMMA NothingOffered ==
  ASSUME AtRest
  PROVE  (\A k \in Slot : ~Selected(sb, Words, k)) /\ OnTheWires = NOP
<1>1. \A k \in Slot : ~Selected(sb, Words, k)
  BY DEF AtRest, Selected
<1> QED
  BY <1>1 DEF Issuing, OnTheWires

(* Without completions nothing overrides what a cycle assigns. *)
LEMMA NoCompletions ==
  ASSUME AtRest, ~bram.wtRdValid, arr.pm # "DONE", NEW s1
  PROVE  NextScoreboard(sb, s1, Events) = s1
<1>1. ~ReadPulse /\ ~ArrayPulse /\ ~VectorPulse /\ ~wrm.done /\ ~bram.wtRdValid
  BY DEF ReadPulse, ArrayPulse, VectorPulse, AtRest
<1>2. /\ ~Events.rdDone /\ ~Events.wtValid /\ ~Events.arrayDone
      /\ ~Events.wrDone /\ ~Events.vectorDone
  BY <1>1 DEF Events
<1> QED
  BY <1>2, Zenon DEF NextScoreboard, When

LEMMA FreshStep ==
  ASSUME TypeOK, FreshInv, [NextR]_resetVars
  PROVE  FreshInv'
<1>1. CASE \E g \in Go : SoftReset(g)
  <2>1. PICK g \in Go : SoftReset(g)
    BY <1>1
  <2>2. /\ sb' = ResetScoreboard /\ fresh' = AtRest /\ Datapath(OnTheWires, g)
    BY <2>1 DEF SoftReset
  <2>3. SUFFICES ASSUME AtRest PROVE FreshInv'
    BY <2>2 DEF FreshInv
  <2>4. Datapath(NOP, g)
    BY <2>2, <2>3, NothingOffered
  <2>5. sb'.accel = "IDLE"
    BY <2>2 DEF ResetScoreboard
  <2> QED
    BY <2>2, <2>3, <2>4, <2>5, RestingCycle DEF FreshInv, AtRest, TypeOK
<1>2. CASE Proceed
  <2>1. SUFFICES ASSUME fresh, sb'.accel = "IDLE" PROVE FreshInv'
    BY <1>2 DEF Proceed, FreshInv
  <2>2. AtRest /\ ~bram.wtRdValid /\ (arr.pm # "DONE" => sb = ResetScoreboard)
    BY <2>1 DEF FreshInv
  <2>3. ASSUME NEW g \in Go, Cycle(g) PROVE FreshInv'
    <3>1. NoIssue(g)
      BY <2>2, <2>3, NothingOffered DEF Cycle, Issue
    <3>2. Datapath(NOP, g) /\ sb' = NextScoreboard(sb, sb, Events)
      BY <3>1 DEF NoIssue
    <3>3. arr.pm # "DONE" => sb' = ResetScoreboard
      BY <2>2, <3>2, NoCompletions
    <3> QED
      BY <2>1, <2>2, <3>2, <3>3, RestingCycle DEF FreshInv, AtRest, TypeOK
  <2>4. ASSUME NEW g \in Go, Start(g) PROVE FALSE
    <3>1. StartEffect(sb) \in ScoreboardType
      BY StartTyped DEF TypeOK
    <3>2. NextScoreboard(sb, StartEffect(sb), Events).accel = StartEffect(sb).accel
      BY <3>1 DEF NextScoreboard, When, ReadDone, WeightsValid, ArrayDone,
                  WriteDone, VectorDone, Events, AtRest, ScoreboardType, TypeOK
    <3> QED
      BY <2>1, <2>4, <3>2 DEF Start, StartEffect, TypeOK, ScoreboardType
  <2>5. CASE \E p \in Programs : LoadProgram(p)
    BY <2>2, <2>5 DEF LoadProgram, FreshInv, AtRest
  <2> QED
    BY <1>2, <2>3, <2>4, <2>5 DEF Proceed, Next
<1>3. CASE UNCHANGED resetVars
  BY <1>3 DEF resetVars, vars, FreshInv, AtRest
<1> QED
  BY <1>1, <1>2, <1>3 DEF NextR, Reset

(* A soft_reset taken at rest leaves the scoreboard of power-up, until the next
   run starts, whenever the array is not holding a completion. *)
THEOREM FreshAfterReset == SpecR => []FreshUnlessArrayDone
<1>1. InitR => FreshInv
  BY DEF InitR, Init, FreshInv, AtRest, ResetScoreboard
<1>2. TypeOK /\ FreshInv /\ [NextR]_resetVars => FreshInv'
  BY FreshStep
<1>3. FreshInv => FreshUnlessArrayDone
  BY DEF FreshInv, FreshUnlessArrayDone
<1> QED
  BY <1>1, <1>2, <1>3, ResetTypeCorrect, PTL DEF SpecR
=============================================================================
