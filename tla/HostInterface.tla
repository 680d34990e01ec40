---------------------------- MODULE HostInterface ---------------------------
(***************************************************************************)
(* axi4_lite_slave: the register file the host configures, programs and    *)
(* starts the accelerator through, and the host on the other side of the   *)
(* bus.  The host writes and reads one register at a time, as the          *)
(* testbenches do; address and data of a write arrive in either order and  *)
(* it takes a response whenever it likes.                                  *)
(*                                                                         *)
(* Whole words are written (no byte strobes).  CTRL is its START bit;      *)
(* IMG_DIM and VEC_CTRL behave like the other configuration registers.     *)
(***************************************************************************)
EXTENDS InstructionFifo

VARIABLES
  wr,    \* write path: state, what has been latched
  rd,    \* read path: state, latched address
  reg,   \* the registers
  mem,   \* instruction memory, as written
  host   \* writes left to do, what was sent of the first, ...

slaveVars == <<wr, rd, reg, mem, host>>

Config == {"SRC_ADDR", "DST_ADDR", "WEIGHT_ADDR", "BIAS_ADDR"}
Register == Config \cup {"CTRL", "INSTR_ADDR", "INSTR_DATA", "PROG_LEN"}

(* The register of each base address. *)
BaseRegister == [k \in Base |-> CASE k = BASE_WGT  -> "WEIGHT_ADDR"
                                  [] k = BASE_ACT  -> "SRC_ADDR"
                                  [] k = BASE_BIAS -> "BIAS_ADDR"
                                  [] k = BASE_OUT  -> "DST_ADDR"]

(* A 32-bit word, as a number or as the instruction it encodes. *)
Number(n) == [num |-> n, instr |-> NOP]
Word(i) == [num |-> 0, instr |-> i]

(* The host writes the program word by word, sets the bases and starts it. *)
Write(r, v) == [reg |-> r, val |-> v]
Configuration ==
  <<Write("SRC_ADDR", Number(CSR[BASE_ACT])), Write("DST_ADDR", Number(CSR[BASE_OUT])),
    Write("WEIGHT_ADDR", Number(CSR[BASE_WGT])), Write("BIAS_ADDR", Number(CSR[BASE_BIAS]))>>
Script(p) ==
  [k \in 1..2 * Len(p) |-> IF k % 2 = 1 THEN Write("INSTR_ADDR", Number(k \div 2))
                          ELSE Write("INSTR_DATA", Word(p[k \div 2]))]
    \o <<Write("PROG_LEN", Number(Len(p)))>> \o Configuration
    \o <<Write("CTRL", Number(1))>>

(* Signals the host may raise in a cycle. *)
Bus == [aw: BOOLEAN, w: BOOLEAN, b: BOOLEAN, ar: BOOLEAN, r: BOOLEAN]

SlaveInit ==
  /\ wr = [st |-> "IDLE", awLatched |-> FALSE, wLatched |-> FALSE,
           addr |-> "CTRL", data |-> Number(0)]
  /\ rd = [st |-> "IDLE"]
  /\ reg = [r \in Register |-> CASE r = "SRC_ADDR"    -> Number(DRAM_BEATS)
                                 [] r = "DST_ADDR"    -> Number(DRAM_BEATS)
                                 [] r = "WEIGHT_ADDR" -> Number(DRAM_BEATS)
                                 [] r = "BIAS_ADDR"   -> Number(DRAM_BEATS)
                                 [] r = "INSTR_DATA"  -> Word(NOP)  \* not reset
                                 [] OTHER             -> Number(0)]
  /\ mem = [a \in 0..INSTR_DEPTH - 1 |-> NOP]                       \* not reset
  /\ host = [todo |-> <<>>, awSent |-> FALSE, wSent |-> FALSE, prog |-> <<>>,
             phase |-> "free", over |-> FALSE, view |-> reg]
-----------------------------------------------------------------------------
AwReady == wr.st = "IDLE" /\ ~wr.awLatched
WReady == wr.st = "IDLE" /\ ~wr.wLatched
Awaits == host.todo # <<>>
AwHandshake(h) == h.aw /\ Awaits /\ ~host.awSent /\ AwReady
WHandshake(h) == h.w /\ Awaits /\ ~host.wSent /\ WReady
BHandshake(h) == h.b /\ wr.st = "RESP"

(* Mutant: the latch of the data channel is not cleared with the other. *)
NextWrKeepsData(h) ==
  LET aw == wr.awLatched \/ AwHandshake(h)
      w == wr.wLatched \/ WHandshake(h)
  IN  CASE wr.st = "IDLE" ->
             [st |-> IF aw /\ w THEN "BUSY" ELSE "IDLE",
              awLatched |-> aw /\ ~w, wLatched |-> w,
              addr |-> IF AwHandshake(h) THEN Head(host.todo).reg ELSE wr.addr,
              data |-> IF WHandshake(h) THEN Head(host.todo).val ELSE wr.data]
        [] wr.st = "BUSY" -> [wr EXCEPT !.st = "RESP"]
        [] wr.st = "RESP" -> [wr EXCEPT !.st = IF BHandshake(h) THEN "IDLE" ELSE "RESP"]

(* Write path: both channels are latched independently; when both arrived the
   register is written in W_BUSY and answered in W_RESP. *)
NextWr(h) ==
  LET aw == wr.awLatched \/ AwHandshake(h)
      w == wr.wLatched \/ WHandshake(h)
  IN  CASE wr.st = "IDLE" ->
             [st |-> IF aw /\ w THEN "BUSY" ELSE "IDLE",
              awLatched |-> aw /\ ~w, wLatched |-> w /\ ~aw,
              addr |-> IF AwHandshake(h) THEN Head(host.todo).reg ELSE wr.addr,
              data |-> IF WHandshake(h) THEN Head(host.todo).val ELSE wr.data]
        [] wr.st = "BUSY" -> [wr EXCEPT !.st = "RESP"]
        [] wr.st = "RESP" -> [wr EXCEPT !.st = IF BHandshake(h) THEN "IDLE" ELSE "RESP"]

StartPulse == reg["CTRL"].num = 1
Writing(r) == wr.st = "BUSY" /\ wr.addr = r

(* Mutant: START stays set. *)
NextRegKeepsStart ==
  [r \in Register |-> IF Writing(r) THEN wr.data ELSE reg[r]]

(* The register write; START clears itself in the cycle after it was set. *)
NextReg ==
  [r \in Register |-> IF Writing(r) THEN wr.data
                      ELSE IF r = "CTRL" THEN Number(0) ELSE reg[r]]

(* Mutant: the word goes where the address register will point. *)
NextMemEarly(busy) ==
  IF Writing("INSTR_DATA") /\ ~busy
  THEN [mem EXCEPT ![(reg["INSTR_ADDR"].num + 1) % INSTR_DEPTH] = wr.data.instr]
  ELSE mem

(* instr_wr_en, gated with !busy in accelerator.sv: a write under way while
   the accelerator is busy is answered but dropped. *)
NextMem(busy) ==
  IF Writing("INSTR_DATA") /\ ~busy
  THEN [mem EXCEPT ![reg["INSTR_ADDR"].num % INSTR_DEPTH] = wr.data.instr]
  ELSE mem

(* Read path; the host reads STATUS while a program runs. *)
ArHandshake(h) == h.ar /\ host.phase = "run" /\ rd.st = "IDLE"
RHandshake(h) == h.r /\ rd.st = "DATA"
NextRd(h) ==
  [st |-> IF ArHandshake(h) THEN "DATA" ELSE IF RHandshake(h) THEN "IDLE" ELSE rd.st]

(* The first LEN words of the memory: what the window can fetch. *)
Visible(memory, len) == [k \in 1..len |-> memory[k - 1]]

(* The host after a cycle in which it raised h and saw status.  A host that
   polls takes the first STATUS without BUSY for the end of the run (the
   documented sequence); the other one watches the done wire (the
   testbenches). *)
NextHost(h, status, polls) ==
  LET over == host.over \/ status.done
      last == Len(host.todo) = 1
      seesEnd == IF polls THEN RHandshake(h) /\ ~status.busy ELSE over
  IN  IF host.phase = "write"
      THEN IF BHandshake(h)
           THEN [host EXCEPT !.todo = Tail(@), !.awSent = FALSE, !.wSent = FALSE,
                             !.phase = IF last THEN "run" ELSE "write",
                             !.over = over,
                             !.view[Head(host.todo).reg] = Head(host.todo).val]
           ELSE [host EXCEPT !.awSent = @ \/ AwHandshake(h),
                             !.wSent = @ \/ WHandshake(h), !.over = over]
      ELSE IF host.phase = "run"
      THEN [host EXCEPT !.over = over, !.phase = IF seesEnd THEN "free" ELSE "run"]
      ELSE host
-----------------------------------------------------------------------------
(* Between two writes every register holds the value of the last write to it,
   whatever order address and data arrived in and however long each of them
   and the responses took (CTRL clears itself). *)
RegistersAsWritten ==
  wr.st = "IDLE" /\ ~host.awSent /\ ~host.wSent =>
    \A r \in Register \ {"CTRL"} : reg[r] = host.view[r]
=============================================================================
