---------------------------- MODULE HostedProofs ----------------------------
(***************************************************************************)
(* Proofs about the accelerator behind its registers, for every value of   *)
(* the constants: what the host writes is what the registers, and then the *)
(* instruction window, hold; and driven through the registers the core     *)
(* takes no step that Accelerator does not take.                           *)
(***************************************************************************)
EXTENDS HostedAccelerator, AcceleratorProofs, Inductions

Value == [num: Nat, instr: Instruction]
RegisterWrite == [reg: Register, val: Value]

SlaveType ==
  /\ wr \in [st: {"IDLE", "BUSY", "RESP"}, awLatched: BOOLEAN, wLatched: BOOLEAN,
             addr: Register, data: Value]
  /\ reg \in [Register -> Value]
  /\ mem \in [0..INSTR_DEPTH - 1 -> Instruction]
  /\ host \in [todo: Seq(RegisterWrite), awSent: BOOLEAN, wSent: BOOLEAN,
               prog: Seq(Instruction), phase: {"free", "write", "run"},
               over: BOOLEAN, view: [Register -> Value]]

-----------------------------------------------------------------------------
(* The script of a program, write by write. *)
ScriptLen(p) == 2 * Len(p) + 6

LEMMA ConfigurationWrites ==
  /\ Configuration \in Seq(RegisterWrite) /\ Len(Configuration) = 4
  /\ \A n \in Nat : Write("PROG_LEN", Number(n)) \in RegisterWrite
  /\ \A n \in Nat : Write("INSTR_ADDR", Number(n)) \in RegisterWrite
  /\ \A i \in Instruction : Write("INSTR_DATA", Word(i)) \in RegisterWrite
  /\ Write("CTRL", Number(1)) \in RegisterWrite
<1>1. \A n \in Nat : Number(n) \in Value
  BY BuilderTyped DEF Number, Value
<1>2. \A i \in Instruction : Word(i) \in Value
  BY DEF Word, Value
<1>3. \A k \in Base : CSR[k] \in Nat
  BY IsaAssumption
<1>4. /\ BASE_ACT \in Base /\ BASE_OUT \in Base
      /\ BASE_WGT \in Base /\ BASE_BIAS \in Base
  BY DEF Base, BASE_ACT, BASE_OUT, BASE_WGT, BASE_BIAS
<1>5. \A r \in Register, v \in Value : Write(r, v) \in RegisterWrite
  BY DEF Write, RegisterWrite
<1>6. {"SRC_ADDR", "DST_ADDR", "WEIGHT_ADDR", "BIAS_ADDR", "CTRL", "INSTR_ADDR",
       "INSTR_DATA", "PROG_LEN"} \subseteq Register
  BY DEF Register, Config
<1> DEFINE a == Write("SRC_ADDR", Number(CSR[BASE_ACT]))
           b == Write("DST_ADDR", Number(CSR[BASE_OUT]))
           c == Write("WEIGHT_ADDR", Number(CSR[BASE_WGT]))
           d == Write("BIAS_ADDR", Number(CSR[BASE_BIAS]))
<1>7. a \in RegisterWrite /\ b \in RegisterWrite /\ c \in RegisterWrite /\ d \in RegisterWrite
  BY <1>1, <1>3, <1>4, <1>5, <1>6
<1>8. Configuration = <<a, b, c, d>>
  BY DEF Configuration
<1> HIDE DEF a, b, c, d
<1>9. Configuration \in Seq(RegisterWrite) /\ Len(Configuration) = 4
  BY <1>7, <1>8
<1> QED
  BY <1>1, <1>2, <1>5, <1>6, <1>9

LEMMA ScriptWrites ==
  ASSUME NEW p \in Seq(Instruction)
  PROVE  /\ Script(p) \in Seq(RegisterWrite) /\ Len(Script(p)) = ScriptLen(p)
         /\ \A j \in 1..Len(p) :
              /\ Script(p)[2 * j - 1] = Write("INSTR_ADDR", Number(j - 1))
              /\ Script(p)[2 * j] = Write("INSTR_DATA", Word(p[j]))
         /\ Script(p)[2 * Len(p) + 1] = Write("PROG_LEN", Number(Len(p)))
         /\ Script(p)[2 * Len(p) + 2] = Write("SRC_ADDR", Number(CSR[BASE_ACT]))
         /\ Script(p)[2 * Len(p) + 3] = Write("DST_ADDR", Number(CSR[BASE_OUT]))
         /\ Script(p)[2 * Len(p) + 4] = Write("WEIGHT_ADDR", Number(CSR[BASE_WGT]))
         /\ Script(p)[2 * Len(p) + 5] = Write("BIAS_ADDR", Number(CSR[BASE_BIAS]))
         /\ Script(p)[ScriptLen(p)] = Write("CTRL", Number(1))
<1> DEFINE n == Len(p)
           e(k) == IF k % 2 = 1 THEN Write("INSTR_ADDR", Number(k \div 2))
                   ELSE Write("INSTR_DATA", Word(p[k \div 2]))
           w == [k \in 1..2 * n |-> e(k)]
           l == <<Write("PROG_LEN", Number(n))>>
           s == <<Write("CTRL", Number(1))>>
<1>1. n \in Nat /\ \A j \in 1..n : p[j] \in Instruction
  OBVIOUS
<1>2. \A k \in 1..2 * n :
        /\ k \div 2 \in Nat
        /\ k % 2 # 1 => k \div 2 \in 1..n
  BY <1>1
<1>3. \A k \in 1..2 * n : w[k] \in RegisterWrite
  BY <1>1, <1>2, ConfigurationWrites
<1> HIDE DEF e
<1>4. w \in Seq(RegisterWrite) /\ Len(w) = 2 * n
  BY <1>1, <1>3
<1>5. l \in Seq(RegisterWrite) /\ Len(l) = 1 /\ l[1] = Write("PROG_LEN", Number(n))
  BY <1>1, ConfigurationWrites
<1>6. s \in Seq(RegisterWrite) /\ Len(s) = 1 /\ s[1] = Write("CTRL", Number(1))
  BY ConfigurationWrites
<1>7. Script(p) = ((w \o l) \o Configuration) \o s
  BY DEF Script, e
<1>8. \A j \in 1..n : /\ w[2 * j - 1] = Write("INSTR_ADDR", Number(j - 1))
                      /\ w[2 * j] = Write("INSTR_DATA", Word(p[j]))
  <2>1. TAKE j \in 1..n
  <2>2. /\ 2 * j - 1 \in 1..2 * n /\ 2 * j \in 1..2 * n
        /\ (2 * j - 1) % 2 = 1 /\ (2 * j) % 2 = 0
        /\ (2 * j - 1) \div 2 = j - 1 /\ (2 * j) \div 2 = j
    BY <1>1
  <2> QED
    BY <2>2 DEF e
<1>9. /\ Configuration[1] = Write("SRC_ADDR", Number(CSR[BASE_ACT]))
      /\ Configuration[2] = Write("DST_ADDR", Number(CSR[BASE_OUT]))
      /\ Configuration[3] = Write("WEIGHT_ADDR", Number(CSR[BASE_WGT]))
      /\ Configuration[4] = Write("BIAS_ADDR", Number(CSR[BASE_BIAS]))
  BY DEF Configuration
<1> HIDE DEF w, l, s, n
<1> DEFINE wl == w \o l
           wlc == wl \o Configuration
<1>10. /\ wl \in Seq(RegisterWrite) /\ Len(wl) = 2 * n + 1
       /\ \A i \in 1..2 * n : wl[i] = w[i]
       /\ wl[2 * n + 1] = l[1]
  <2>1. 1 \in 1..Len(l)
    BY <1>5
  <2>2. /\ wl \in Seq(RegisterWrite) /\ Len(wl) = Len(w) + Len(l)
        /\ \A i \in 1..Len(w) : wl[i] = w[i]
        /\ \A i \in 1..Len(l) : wl[Len(w) + i] = l[i]
    <3>1. w \in Seq(RegisterWrite) /\ l \in Seq(RegisterWrite)
      BY <1>4, <1>5
    <3> QED
      BY ONLY <3>1, Concatenated DEF IsConcat
  <2> QED
    BY <1>1, <1>4, <1>5, <2>1, <2>2
<1> HIDE DEF wl
<1>11. /\ wlc \in Seq(RegisterWrite) /\ Len(wlc) = 2 * n + 5
       /\ \A i \in 1..2 * n + 1 : wlc[i] = wl[i]
       /\ \A i \in 1..4 : wlc[2 * n + 1 + i] = Configuration[i]
  <2>1. Configuration \in Seq(RegisterWrite) /\ Len(Configuration) = 4
    BY ConfigurationWrites
  <2>2. 2 * n + 1 + 4 = 2 * n + 5
    BY <1>1
  <2>3. /\ wlc \in Seq(RegisterWrite) /\ Len(wlc) = Len(wl) + Len(Configuration)
        /\ \A i \in 1..Len(wl) : wlc[i] = wl[i]
        /\ \A i \in 1..Len(Configuration) : wlc[Len(wl) + i] = Configuration[i]
    <3>1. wl \in Seq(RegisterWrite) /\ Configuration \in Seq(RegisterWrite)
      BY <1>10, <2>1
    <3> QED
      BY ONLY <3>1, Concatenated DEF IsConcat
  <2> QED
    BY <1>1, <1>10, <2>1, <2>2, <2>3
<1> HIDE DEF wlc
<1>12. /\ Script(p) \in Seq(RegisterWrite) /\ Len(Script(p)) = 2 * n + 6
       /\ \A i \in 1..2 * n + 5 : Script(p)[i] = wlc[i]
       /\ Script(p)[2 * n + 6] = s[1]
  <2>1. Script(p) = wlc \o s
    BY <1>7 DEF wlc, wl
  <2>2. 2 * n + 5 + 1 = 2 * n + 6 /\ 1 \in 1..Len(s)
    BY <1>1, <1>6
  <2>3. /\ Script(p) \in Seq(RegisterWrite) /\ Len(Script(p)) = Len(wlc) + Len(s)
        /\ \A i \in 1..Len(wlc) : Script(p)[i] = wlc[i]
        /\ \A i \in 1..Len(s) : Script(p)[Len(wlc) + i] = s[i]
    <3>1. wlc \in Seq(RegisterWrite) /\ s \in Seq(RegisterWrite)
      BY <1>6, <1>11
    <3> QED
      BY ONLY <2>1, <3>1, Concatenated DEF IsConcat
  <2> QED
    BY <1>1, <1>6, <1>11, <2>2, <2>3
<1>13. \A j \in 1..n : /\ Script(p)[2 * j - 1] = w[2 * j - 1]
                       /\ Script(p)[2 * j] = w[2 * j]
  <2>1. TAKE j \in 1..n
  <2>2. /\ 2 * j - 1 \in 1..2 * n /\ 2 * j \in 1..2 * n
        /\ 2 * j - 1 \in 1..2 * n + 1 /\ 2 * j \in 1..2 * n + 1
        /\ 2 * j - 1 \in 1..2 * n + 5 /\ 2 * j \in 1..2 * n + 5
    BY <1>1
  <2> QED
    BY <1>10, <1>11, <1>12, <2>2
<1>14. Script(p)[2 * n + 1] = l[1]
  <2>1. 2 * n + 1 \in 1..2 * n + 1 /\ 2 * n + 1 \in 1..2 * n + 5
    BY <1>1
  <2> QED
    BY <1>10, <1>11, <1>12, <2>1
<1>15. /\ Script(p)[2 * n + 2] = Configuration[1]
       /\ Script(p)[2 * n + 3] = Configuration[2]
       /\ Script(p)[2 * n + 4] = Configuration[3]
       /\ Script(p)[2 * n + 5] = Configuration[4]
  <2>1. \A i \in 1..4 : 2 * n + 1 + i \in 1..2 * n + 5
    BY <1>1
  <2>2. \A i \in 1..4 : Script(p)[2 * n + 1 + i] = Configuration[i]
    BY <1>11, <1>12, <2>1
  <2>3. /\ 2 * n + 1 + 1 = 2 * n + 2 /\ 2 * n + 1 + 2 = 2 * n + 3
        /\ 2 * n + 1 + 3 = 2 * n + 4 /\ 2 * n + 1 + 4 = 2 * n + 5
    BY <1>1
  <2>4. 1 \in 1..4 /\ 2 \in 1..4 /\ 3 \in 1..4 /\ 4 \in 1..4
    OBVIOUS
  <2> QED
    BY <2>2, <2>3, <2>4
<1> QED
  BY <1>5, <1>6, <1>8, <1>9, <1>12, <1>13, <1>14, <1>15 DEF ScriptLen, n

-----------------------------------------------------------------------------
(* The slave and the host in one clock cycle. *)
BusCycle(h) ==
  /\ wr' = NextWr(h)
  /\ reg' = NextReg
  /\ mem' = NextMem(Busy)
  /\ host' = NextHost(h, Status, POLLS)

(* The write the host is busy with. *)
LEMMA FirstWrite ==
  ASSUME SlaveType, host.todo # <<>>
  PROVE  /\ Head(host.todo) \in RegisterWrite /\ Head(host.todo) = host.todo[1]
         /\ Head(host.todo).reg \in Register /\ Head(host.todo).val \in Value
         /\ Len(host.todo) \in Nat \ {0}
         /\ Tail(host.todo) \in Seq(RegisterWrite)
         /\ Len(Tail(host.todo)) = Len(host.todo) - 1
         /\ \A i \in 1..Len(Tail(host.todo)) : Tail(host.todo)[i] = host.todo[i + 1]
<1>1. host.todo \in Seq(RegisterWrite)
  BY DEF SlaveType
<1>2. /\ Head(host.todo) \in RegisterWrite
      /\ Tail(host.todo) \in Seq(RegisterWrite)
      /\ Len(Tail(host.todo)) = Len(host.todo) - 1
      /\ \A i \in 1..Len(Tail(host.todo)) : Tail(host.todo)[i] = host.todo[i + 1]
  BY <1>1, HeadTailProperties
<1>3. Len(host.todo) \in Nat \ {0}
  BY <1>1, EmptySeq
<1>4. Head(host.todo) = host.todo[1]
  BY <1>1, <1>3
<1>5. \A w \in RegisterWrite : w.reg \in Register /\ w.val \in Value
  BY DEF RegisterWrite
<1> QED
  BY <1>2, <1>3, <1>4, <1>5

(* What a cycle does to the write path, register by register. *)
LEMMA PathMoves ==
  ASSUME SlaveType, NEW h \in Bus, wr' = NextWr(h)
  PROVE  LET aw == wr.awLatched \/ AwHandshake(h)
             w == wr.wLatched \/ WHandshake(h)
         IN  /\ wr'.st = CASE wr.st = "IDLE" -> IF aw /\ w THEN "BUSY" ELSE "IDLE"
                            [] wr.st = "BUSY" -> "RESP"
                            [] wr.st = "RESP" -> IF BHandshake(h) THEN "IDLE" ELSE "RESP"
             /\ wr'.awLatched <=> IF wr.st = "IDLE" THEN aw /\ ~w ELSE wr.awLatched
             /\ wr'.wLatched <=> IF wr.st = "IDLE" THEN w /\ ~aw ELSE wr.wLatched
             /\ wr'.addr = IF AwHandshake(h) THEN Head(host.todo).reg ELSE wr.addr
             /\ wr'.data = IF WHandshake(h) THEN Head(host.todo).val ELSE wr.data
             /\ wr' \in [st: {"IDLE", "BUSY", "RESP"}, awLatched: BOOLEAN,
                         wLatched: BOOLEAN, addr: Register, data: Value]
<1> DEFINE aw == wr.awLatched \/ AwHandshake(h)
           w == wr.wLatched \/ WHandshake(h)
           a == IF AwHandshake(h) THEN Head(host.todo).reg ELSE wr.addr
           d == IF WHandshake(h) THEN Head(host.todo).val ELSE wr.data
<1>1. wr \in [st: {"IDLE", "BUSY", "RESP"}, awLatched: BOOLEAN, wLatched: BOOLEAN,
              addr: Register, data: Value]
  BY DEF SlaveType
<1>2. a \in Register /\ d \in Value
  BY <1>1, FirstWrite DEF AwHandshake, WHandshake, Awaits
<1>3. wr.st # "IDLE" => ~AwHandshake(h) /\ ~WHandshake(h)
  BY DEF AwHandshake, WHandshake, AwReady, WReady
<1>4. CASE wr.st = "IDLE"
  <2> DEFINE st == IF aw /\ w THEN "BUSY" ELSE "IDLE"
             al == aw /\ ~w
             wl == w /\ ~aw
  <2>1. wr' = [st |-> st, awLatched |-> al, wLatched |-> wl, addr |-> a, data |-> d]
    BY <1>4 DEF NextWr
  <2>2. al \in BOOLEAN /\ wl \in BOOLEAN /\ st \in {"IDLE", "BUSY"}
    OBVIOUS
  <2> HIDE DEF st, al, wl, a, d
  <2>3. /\ wr'.st = st /\ wr'.awLatched = al /\ wr'.wLatched = wl
        /\ wr'.addr = a /\ wr'.data = d
    BY <2>1
  <2>4. wr' \in [st: {"IDLE", "BUSY", "RESP"}, awLatched: BOOLEAN,
                wLatched: BOOLEAN, addr: Register, data: Value]
    BY <1>2, <2>1, <2>2
  <2>5. (wr'.awLatched <=> aw /\ ~w) /\ (wr'.wLatched <=> w /\ ~aw)
    BY <2>3 DEF al, wl
  <2> QED
    BY <1>4, <2>3, <2>4, <2>5 DEF st, a, d
<1>5. CASE wr.st = "BUSY"
  <2>1. wr' = [wr EXCEPT !.st = "RESP"]
    BY <1>5 DEF NextWr
  <2> QED
    BY <1>1, <1>3, <1>5, <2>1
<1>6. CASE wr.st = "RESP"
  <2>1. wr' = [wr EXCEPT !.st = IF BHandshake(h) THEN "IDLE" ELSE "RESP"]
    BY <1>6 DEF NextWr
  <2> QED
    BY <1>1, <1>3, <1>6, <2>1
<1> QED
  BY <1>1, <1>4, <1>5, <1>6

(* What it does to the host. *)
Answered(h) == host.phase = "write" /\ BHandshake(h)

SeesEnd(h) == IF POLLS THEN RHandshake(h) /\ ~Status.busy
              ELSE host.over \/ Status.done

LEMMA HostMoves ==
  ASSUME SlaveType, host.phase = "write" => host.todo # <<>>, NEW h \in Bus,
         host' = NextHost(h, Status, POLLS)
  PROVE  /\ host'.todo = IF Answered(h) THEN Tail(host.todo) ELSE host.todo
         /\ host'.awSent <=> IF host.phase # "write" THEN host.awSent
                             ELSE ~BHandshake(h) /\ (host.awSent \/ AwHandshake(h))
         /\ host'.wSent <=> IF host.phase # "write" THEN host.wSent
                            ELSE ~BHandshake(h) /\ (host.wSent \/ WHandshake(h))
         /\ host'.phase = IF host.phase = "write"
                          THEN IF BHandshake(h) /\ Len(host.todo) = 1 THEN "run"
                               ELSE "write"
                          ELSE IF host.phase = "run" /\ ~SeesEnd(h) THEN "run"
                          ELSE "free"
         /\ host'.over <=> host.over \/ (host.phase # "free" /\ Status.done)
         /\ host'.prog = host.prog
         /\ host'.view = IF Answered(h)
                         THEN [host.view EXCEPT ![Head(host.todo).reg] = Head(host.todo).val]
                         ELSE host.view
         /\ host' \in [todo: Seq(RegisterWrite), awSent: BOOLEAN, wSent: BOOLEAN,
                       prog: Seq(Instruction), phase: {"free", "write", "run"},
                       over: BOOLEAN, view: [Register -> Value]]
<1> DEFINE T == [todo: Seq(RegisterWrite), awSent: BOOLEAN, wSent: BOOLEAN,
                 prog: Seq(Instruction), phase: {"free", "write", "run"},
                 over: BOOLEAN, view: [Register -> Value]]
           over == host.over \/ Status.done
           aw == host.awSent \/ AwHandshake(h)
           w == host.wSent \/ WHandshake(h)
<1>1. host \in T
  BY DEF SlaveType
<1>2. over \in BOOLEAN /\ aw \in BOOLEAN /\ w \in BOOLEAN
  OBVIOUS
<1>3. CASE host.phase = "write" /\ BHandshake(h)
  <2> DEFINE next == IF Len(host.todo) = 1 THEN "run" ELSE "write"
             r == Head(host.todo).reg
             v == Head(host.todo).val
  <2>1. host' = [host EXCEPT !.todo = Tail(@), !.awSent = FALSE, !.wSent = FALSE,
                             !.phase = next, !.over = over, !.view[r] = v]
    BY <1>3 DEF NextHost
  <2>2. r \in Register /\ v \in Value /\ Tail(host.todo) \in Seq(RegisterWrite)
    BY <1>3, FirstWrite
  <2>3. next \in {"run", "write"}
    OBVIOUS
  <2> HIDE DEF over, next, r, v
  <2>4. /\ host'.todo = Tail(host.todo) /\ host'.awSent = FALSE /\ host'.wSent = FALSE
        /\ host'.phase = next /\ host'.over = over /\ host'.prog = host.prog
        /\ host'.view = [host.view EXCEPT ![r] = v]
    BY <1>1, <2>1
  <2>5. host' \in T
    <3>1. [host.view EXCEPT ![r] = v] \in [Register -> Value]
      BY <1>1, <2>2
    <3>2. host' = [host EXCEPT !.todo = Tail(@), !.awSent = FALSE, !.wSent = FALSE,
                               !.phase = next, !.over = over,
                               !.view = [host.view EXCEPT ![r] = v]]
      BY <1>1, <2>1
    <3> QED
      BY <1>1, <1>2, <2>2, <2>3, <3>1, <3>2
  <2> QED
    BY <1>3, <2>4, <2>5 DEF Answered, next, r, v, over
<1>4. CASE host.phase = "write" /\ ~BHandshake(h)
  <2>1. host' = [host EXCEPT !.awSent = aw, !.wSent = w, !.over = over]
    BY <1>4 DEF NextHost
  <2> HIDE DEF over, aw, w
  <2>2. /\ host'.todo = host.todo /\ host'.awSent = aw /\ host'.wSent = w
        /\ host'.phase = host.phase /\ host'.over = over /\ host'.prog = host.prog
        /\ host'.view = host.view /\ host' \in T
    BY <1>1, <1>2, <2>1
  <2> QED
    BY <1>4, <2>2 DEF Answered, aw, w, over
<1>5. CASE host.phase = "run"
  <2> DEFINE next == IF SeesEnd(h) THEN "free" ELSE "run"
  <2>1. host' = [host EXCEPT !.over = over, !.phase = next]
    BY <1>5 DEF NextHost, SeesEnd
  <2>2. next \in {"free", "run"}
    OBVIOUS
  <2> HIDE DEF next
  <2>3. /\ host'.todo = host.todo /\ host'.awSent = host.awSent
        /\ host'.wSent = host.wSent /\ host'.phase = next
        /\ host'.over = over /\ host'.prog = host.prog
        /\ host'.view = host.view /\ host' \in T
    BY <1>1, <1>2, <2>1, <2>2
  <2> QED
    BY <1>5, <2>3 DEF Answered, next
<1>6. CASE host.phase = "free"
  <2>1. host' = host
    BY <1>6 DEF NextHost
  <2> QED
    BY <1>1, <1>6, <2>1 DEF Answered
<1> QED
  BY <1>1, <1>3, <1>4, <1>5, <1>6

LEMMA RegisterMoves ==
  ASSUME SlaveType, NEW busy \in BOOLEAN
  PROVE  /\ NextReg \in [Register -> Value]
         /\ \A r \in Register \ {"CTRL"} :
              NextReg[r] = IF Writing(r) THEN wr.data ELSE reg[r]
         /\ NextReg["CTRL"] = IF Writing("CTRL") THEN wr.data ELSE Number(0)
         /\ NextMem(busy) \in [0..INSTR_DEPTH - 1 -> Instruction]
<1>1. wr.data \in Value /\ wr.data.instr \in Instruction /\ reg \in [Register -> Value]
  BY DEF SlaveType, Value
<1>2. Number(0) \in Value
  BY BuilderTyped DEF Number, Value
<1>3. "CTRL" \in Register
  BY DEF Register
<1>4. NextReg \in [Register -> Value]
  BY <1>1, <1>2 DEF NextReg
<1>5. /\ \A r \in Register \ {"CTRL"} :
           NextReg[r] = IF Writing(r) THEN wr.data ELSE reg[r]
      /\ NextReg["CTRL"] = IF Writing("CTRL") THEN wr.data ELSE Number(0)
  BY <1>3 DEF NextReg
<1>6. NextMem(busy) \in [0..INSTR_DEPTH - 1 -> Instruction]
  BY <1>1 DEF NextMem, SlaveType
<1> QED
  BY <1>4, <1>5, <1>6

-----------------------------------------------------------------------------
(* The write path: what is latched is the write the host is busy with, and the
   registers are what the host believes them to be, but for a write that has
   been performed and not yet answered. *)
PathInv ==
  /\ SlaveType
  /\ host.phase = "write" <=> host.todo # <<>>
  /\ host.phase # "write" => ~host.awSent /\ ~host.wSent
  /\ wr.st = "IDLE" => /\ wr.awLatched <=> host.awSent
                       /\ wr.wLatched <=> host.wSent
                       /\ ~(host.awSent /\ host.wSent)
  /\ wr.st # "IDLE" => host.awSent /\ host.wSent /\ ~wr.awLatched /\ ~wr.wLatched
  /\ host.awSent => wr.addr = Head(host.todo).reg
  /\ host.wSent => wr.data = Head(host.todo).val
  /\ \A r \in Register \ {"CTRL"} :
       reg[r] = IF wr.st = "RESP" /\ r = Head(host.todo).reg
                THEN Head(host.todo).val ELSE host.view[r]

LEMMA PathInit == HostedInit => PathInv
<1> SUFFICES ASSUME SlaveInit PROVE PathInv
  BY DEF HostedInit
<1>1. NOP \in Instruction /\ DRAM_BEATS \in Nat /\ INSTR_DEPTH \in Nat
  BY BuilderTyped, IsaAssumption, FifoAssumption
<1>2. Number(DRAM_BEATS) \in Value /\ Number(0) \in Value /\ Word(NOP) \in Value
  BY <1>1 DEF Number, Word, Value
<1>3. reg \in [Register -> Value]
  BY <1>2 DEF SlaveInit
<1>4. wr = [st |-> "IDLE", awLatched |-> FALSE, wLatched |-> FALSE,
            addr |-> "CTRL", data |-> Number(0)]
  BY DEF SlaveInit
<1>5. host = [todo |-> <<>>, awSent |-> FALSE, wSent |-> FALSE, prog |-> <<>>,
              phase |-> "free", over |-> FALSE, view |-> reg]
  BY DEF SlaveInit
<1>6. mem \in [0..INSTR_DEPTH - 1 -> Instruction]
  BY <1>1 DEF SlaveInit
<1>7. "CTRL" \in Register
  BY DEF Register
<1>8. <<>> \in Seq(RegisterWrite) /\ <<>> \in Seq(Instruction)
  OBVIOUS
<1>9. SlaveType
  BY <1>2, <1>3, <1>4, <1>5, <1>6, <1>7, <1>8 DEF SlaveType
<1> QED
  BY <1>4, <1>5, <1>9 DEF PathInv

(* The host begins the next program. *)
LEMMA NextProgramMoves ==
  ASSUME SlaveType, NextProgram
  PROVE  \E p \in Programs :
           /\ CanRun(Arch, p)
           /\ p \in Seq(Instruction) /\ Len(p) \in Nat /\ Len(p) <= INSTR_DEPTH
           /\ host'.phase = "write" /\ host'.todo = Script(p) /\ host'.prog = p
           /\ host'.over = FALSE /\ host'.awSent = host.awSent
           /\ host'.wSent = host.wSent /\ host'.view = host.view
           /\ SlaveType'
<1>1. PICK p \in Programs :
        /\ CanRun(Arch, p)
        /\ host' = [host EXCEPT !.phase = "write", !.todo = Script(p), !.prog = p,
                                !.over = FALSE]
  BY DEF NextProgram
<1>2. p \in Seq(Instruction) /\ Len(p) <= INSTR_DEPTH
  BY HostAssumption
<1>3. Script(p) \in Seq(RegisterWrite)
  BY <1>2, ScriptWrites
<1>4. wr' = wr /\ reg' = reg /\ mem' = mem
  BY DEF NextProgram
<1>5. SlaveType'
  BY <1>1, <1>2, <1>3, <1>4 DEF SlaveType
<1> QED
  BY <1>1, <1>2, <1>5 DEF SlaveType

LEMMA PathStep ==
  ASSUME PathInv, [HostedNext]_hostedVars
  PROVE  PathInv'
<1>1. SlaveType
  BY DEF PathInv
<1>2. CASE NextProgram
  <2>1. PICK p \in Programs :
           /\ p \in Seq(Instruction) /\ Len(p) \in Nat
           /\ host'.phase = "write" /\ host'.todo = Script(p)
           /\ host'.awSent = host.awSent
           /\ host'.wSent = host.wSent /\ host'.view = host.view
           /\ SlaveType'
    BY <1>1, <1>2, NextProgramMoves
  <2>2. host'.todo # <<>>
    <3>1. Len(Script(p)) = 2 * Len(p) + 6
      BY <2>1, ScriptWrites DEF ScriptLen
    <3> QED
      BY <2>1, <3>1
  <2>3. host.phase = "free" /\ wr' = wr /\ reg' = reg
    BY <1>2 DEF NextProgram
  <2>4. wr.st = "IDLE" /\ ~host.awSent /\ ~host.wSent
    BY <1>1, <2>3 DEF PathInv, SlaveType
  <2> QED
    BY <2>1, <2>2, <2>3, <2>4 DEF PathInv
<1>3. ASSUME NEW h \in Bus, BusCycle(h) PROVE PathInv'
  <2> DEFINE aw == wr.awLatched \/ AwHandshake(h)
             w == wr.wLatched \/ WHandshake(h)
  <2>1. /\ wr'.st = CASE wr.st = "IDLE" -> IF aw /\ w THEN "BUSY" ELSE "IDLE"
                       [] wr.st = "BUSY" -> "RESP"
                       [] wr.st = "RESP" -> IF BHandshake(h) THEN "IDLE" ELSE "RESP"
        /\ wr'.awLatched <=> IF wr.st = "IDLE" THEN aw /\ ~w ELSE wr.awLatched
        /\ wr'.wLatched <=> IF wr.st = "IDLE" THEN w /\ ~aw ELSE wr.wLatched
        /\ wr'.addr = IF AwHandshake(h) THEN Head(host.todo).reg ELSE wr.addr
        /\ wr'.data = IF WHandshake(h) THEN Head(host.todo).val ELSE wr.data
    BY <1>1, <1>3, PathMoves DEF BusCycle
  <2>2. /\ host'.todo = IF Answered(h) THEN Tail(host.todo) ELSE host.todo
        /\ host'.awSent <=> IF host.phase # "write" THEN host.awSent
                            ELSE ~BHandshake(h) /\ (host.awSent \/ AwHandshake(h))
        /\ host'.wSent <=> IF host.phase # "write" THEN host.wSent
                           ELSE ~BHandshake(h) /\ (host.wSent \/ WHandshake(h))
        /\ host'.view = IF Answered(h)
                        THEN [host.view EXCEPT ![Head(host.todo).reg] = Head(host.todo).val]
                        ELSE host.view
    BY <1>1, <1>3, HostMoves DEF BusCycle, PathInv
  <2>3. SlaveType'
    <3>1. Busy \in BOOLEAN
      BY DEF Busy
    <3> QED
      BY <1>1, <1>3, <3>1, PathMoves, HostMoves, RegisterMoves
         DEF BusCycle, PathInv, SlaveType
  <2>4. /\ AwHandshake(h) => host.phase = "write" /\ ~host.awSent /\ wr.st = "IDLE"
        /\ WHandshake(h) => host.phase = "write" /\ ~host.wSent /\ wr.st = "IDLE"
        /\ BHandshake(h) => wr.st = "RESP" /\ host.phase = "write"
    BY DEF PathInv, AwHandshake, WHandshake, BHandshake, Awaits, AwReady, WReady
  <2>5. (host.phase = "write" <=> host.todo # <<>>)'
    <3>1. host'.phase = IF host.phase = "write"
                        THEN IF BHandshake(h) /\ Len(host.todo) = 1 THEN "run" ELSE "write"
                        ELSE IF host.phase = "run" /\ ~SeesEnd(h) THEN "run" ELSE "free"
      BY <1>1, <1>3, HostMoves DEF BusCycle, PathInv
    <3>2. CASE Answered(h)
      <4>1. /\ Len(host.todo) \in Nat \ {0}
            /\ Tail(host.todo) \in Seq(RegisterWrite)
            /\ Len(Tail(host.todo)) = Len(host.todo) - 1
        BY <1>1, <3>2, FirstWrite DEF Answered, PathInv
      <4>2. \A t \in Seq(RegisterWrite) : t # <<>> <=> Len(t) # 0
        BY EmptySeq
      <4>3. Tail(host.todo) # <<>> <=> Len(Tail(host.todo)) # 0
        BY <4>1, <4>2, Zenon
      <4>4. Tail(host.todo) # <<>> <=> Len(host.todo) # 1
        BY ONLY <4>1, <4>3
      <4> QED
        BY <2>2, <3>1, <3>2, <4>4 DEF Answered
    <3>3. CASE ~Answered(h)
      BY <2>2, <3>1, <3>3 DEF Answered, PathInv
    <3> QED
      BY <3>2, <3>3
  <2>6. (host.phase # "write" => ~host.awSent /\ ~host.wSent)'
    BY <2>2, <2>5, <1>1, <1>3, HostMoves DEF BusCycle, PathInv
  <2>7. (wr.st = "IDLE" => /\ wr.awLatched <=> host.awSent
                           /\ wr.wLatched <=> host.wSent
                           /\ ~(host.awSent /\ host.wSent))'
    BY <1>1, <2>1, <2>2, <2>4 DEF PathInv, SlaveType
  <2>8. (wr.st # "IDLE" => host.awSent /\ host.wSent /\ ~wr.awLatched /\ ~wr.wLatched)'
    BY <1>1, <2>1, <2>2, <2>4 DEF PathInv, SlaveType
  <2>9. /\ (host.awSent => wr.addr = Head(host.todo).reg)'
        /\ (host.wSent => wr.data = Head(host.todo).val)'
    BY <2>1, <2>2, <2>4 DEF PathInv, Answered
  <2>10. (\A r \in Register \ {"CTRL"} :
            reg[r] = IF wr.st = "RESP" /\ r = Head(host.todo).reg
                     THEN Head(host.todo).val ELSE host.view[r])'
    <3>1. SUFFICES ASSUME NEW r \in Register \ {"CTRL"}
                   PROVE  reg'[r] = IF wr'.st = "RESP" /\ r = Head(host'.todo).reg
                                    THEN Head(host'.todo).val ELSE host'.view[r]
      OBVIOUS
    <3>2. reg'[r] = IF Writing(r) THEN wr.data ELSE reg[r]
      BY <1>1, <1>3, RegisterMoves DEF BusCycle
    <3>3. reg[r] = IF wr.st = "RESP" /\ r = Head(host.todo).reg
                   THEN Head(host.todo).val ELSE host.view[r]
      BY DEF PathInv
    <3>4. host.view \in [Register -> Value] /\ wr.st \in {"IDLE", "BUSY", "RESP"}
      BY <1>1 DEF SlaveType
    <3>5. wr.st # "IDLE" => wr.addr = Head(host.todo).reg /\ wr.data = Head(host.todo).val
      BY DEF PathInv
    <3>6. CASE wr.st = "IDLE"
      BY <2>1, <2>2, <2>4, <3>2, <3>3, <3>6 DEF Writing, Answered
    <3>7. CASE wr.st = "BUSY"
      BY <2>1, <2>2, <2>4, <3>2, <3>3, <3>5, <3>7 DEF Writing, Answered
    <3>8. CASE wr.st = "RESP" /\ ~BHandshake(h)
      BY <2>1, <2>2, <3>2, <3>3, <3>8 DEF Writing, Answered
    <3>9. CASE wr.st = "RESP" /\ BHandshake(h)
      BY <2>1, <2>2, <2>4, <3>2, <3>3, <3>4, <3>9 DEF Writing, Answered
    <3> QED
      BY <3>4, <3>6, <3>7, <3>8, <3>9
  <2> QED
    BY <2>3, <2>5, <2>6, <2>7, <2>8, <2>9, <2>10 DEF PathInv
<1>4. CASE UNCHANGED hostedVars
  BY <1>4 DEF hostedVars, slaveVars, PathInv, SlaveType
<1> QED
  BY <1>2, <1>3, <1>4 DEF HostedNext, Clock, BusCycle

(* Between two writes every register holds what was last written to it, in
   whatever order and however late address, data and response travelled. *)
THEOREM RegistersStayAsWritten == HostedSpec => []RegistersAsWritten
<1>1. PathInv /\ [HostedNext]_hostedVars => PathInv'
  BY PathStep
<1>2. PathInv => RegistersAsWritten
  BY DEF PathInv, RegistersAsWritten
<1> QED
  BY PathInit, <1>1, <1>2, PTL DEF HostedSpec

-----------------------------------------------------------------------------
(* The core between two runs. *)
Shaped ==
  /\ arr = [pm |-> arr.pm, rdv |-> arr.rdv, row |-> arr.row, wgt |-> arr.wgt,
            val |-> arr.val]
  /\ vec = [left |-> vec.left, val |-> vec.val]
  /\ bram = [wgt |-> bram.wgt, wgtBus |-> bram.wgtBus, wtRdValid |-> bram.wtRdValid,
             act |-> bram.act, bias |-> bram.bias, acc |-> bram.acc,
             out |-> bram.out, outBus |-> bram.outBus]

CoreInv == EngineInv /\ EndsAtRest /\ Shaped

LEMMA CoreInit == Init => CoreInv
<1>1. Init => Shaped
  BY DEF Init, Shaped
<1> QED
  BY <1>1, EngineInvInit, RestInit DEF CoreInv

LEMMA CoreStep ==
  ASSUME CoreInv, [Next]_vars
  PROVE  CoreInv'
<1>1. EngineInv' /\ EndsAtRest'
  BY EngineInvStep, RestStep DEF CoreInv
<1>2. Shaped'
  <2>1. CASE CoreStands
    BY <2>1 DEF CoreStands, CoreInv, Shaped
  <2>2. ASSUME NEW g \in Go, NEW i \in Instruction, CoreCycles(i, g)
        PROVE  Shaped'
    <3>1. arr' = NextArr(i, g) /\ vec' = NextVec(i) /\ bram' = NextBram(i, g)
      BY <2>2 DEF CoreCycles, Datapath
    <3>2. arr' = [pm |-> arr'.pm, rdv |-> arr'.rdv, row |-> arr'.row,
                  wgt |-> arr'.wgt, val |-> arr'.val]
      BY <3>1 DEF NextArr
    <3>3. vec' = [left |-> vec'.left, val |-> vec'.val]
      <4>1. vec = [left |-> vec.left, val |-> vec.val]
        BY DEF CoreInv, Shaped
      <4>2. \A n : [vec EXCEPT !.left = n] = [left |-> n, val |-> vec.val]
        BY <4>1
      <4> QED
        BY <3>1, <4>2 DEF NextVec
    <3>4. bram' = [wgt |-> bram'.wgt, wgtBus |-> bram'.wgtBus,
                   wtRdValid |-> bram'.wtRdValid, act |-> bram'.act,
                   bias |-> bram'.bias, acc |-> bram'.acc,
                   out |-> bram'.out, outBus |-> bram'.outBus]
      BY <3>1 DEF NextBram
    <3> QED
      BY <3>2, <3>3, <3>4 DEF Shaped
  <2> QED
    BY <2>1, <2>2, CoreSteps DEF CoreInv, EngineInv
<1> QED
  BY <1>1, <1>2 DEF CoreInv

(* Between two runs nothing is offered, the accelerator is not busy, and no
   completion is under way. *)
LEMMA QuietCore ==
  ASSUME CoreInv, sb.accel = "IDLE"
  PROVE  /\ \A k \in Slot : ~Selected(sb, Words, k)
         /\ OnTheWires = NOP /\ ~Status.done
         /\ Busy <=> StartPulse
         /\ sb.rd # "BUSY" /\ sb.wr # "BUSY"
         /\ ~ReadPulse /\ ~ArrayPulse /\ ~VectorPulse /\ ~wrm.done /\ ~bram.wtRdValid
         /\ \A s1 : NextScoreboard(sb, s1, Events) = s1
<1>1. \A k \in Slot : ~Selected(sb, Words, k)
  BY DEF Selected
<1>2. ~Issuing /\ OnTheWires = NOP /\ ~Status.done
  BY <1>1 DEF Issuing, OnTheWires, Status
<1>3. ~ReadPulse /\ ~ArrayPulse /\ ~VectorPulse /\ ~wrm.done /\ ~bram.wtRdValid
  BY DEF CoreInv, EndsAtRest, ReadPulse, ArrayPulse, VectorPulse
<1>4. /\ sb.rd # "BUSY" /\ sb.wr # "BUSY" /\ sb.array # "BUSY" /\ sb.vector # "BUSY"
  BY <1>3 DEF CoreInv, EngineInv, EnginesTracked, EndsAtRest, TypeOK, EngineType
<1>5. /\ ~Events.rdDone /\ ~Events.wtValid /\ ~Events.arrayDone
      /\ ~Events.wrDone /\ ~Events.vectorDone
  BY <1>3 DEF Events
<1>6. \A s1 : NextScoreboard(sb, s1, Events) = s1
  BY <1>5, Zenon DEF NextScoreboard, When
<1> QED
  BY <1>1, <1>2, <1>3, <1>4, <1>6 DEF Busy

(* A cycle between two runs leaves the core as it is. *)
LEMMA QuietCycle ==
  ASSUME CoreInv, sb.accel = "IDLE", NEW g \in Go, Datapath(NOP, g), Book(NOP, g)
  PROVE  UNCHANGED <<bk, rdm, wrm, arr, vec, bram, dram>>
<1>1. NOP.op = "NOP"
  BY DEF NOP, Blank
<1>2. /\ rdm.st = "IDLE" /\ wrm.st = "IDLE" /\ ~wrm.done /\ ~arr.rdv
      /\ arr.row = <<>> /\ (arr.pm = "DONE" <=> bk.arrayDoneD)
      /\ arr.pm # "RUNNING" /\ vec.left = 0 /\ ~bram.wtRdValid
  BY DEF CoreInv, EndsAtRest
<1>3. EngineType /\ bk \in BookkeepingType
  BY DEF CoreInv, EngineInv, TypeOK
<1>4. /\ sb.rd # "BUSY" /\ sb.wr # "BUSY" /\ ~ReadPulse /\ ~ArrayPulse /\ ~VectorPulse
  BY QuietCore
<1>5. ~LdBeat(g) /\ ~StBeat(g) /\ ~RdBeat(g) /\ ~WrBeat(g)
  BY <1>2, <1>4 DEF LdBeat, StBeat, RdBeat, WrBeat
<1>6. rdm' = rdm
  BY <1>1, <1>2 DEF Datapath, NextRdm, LoadOp
<1>7. wrm' = wrm
  <2>1. wrm' = [wrm EXCEPT !.done = FALSE]
    BY <1>1, <1>2 DEF Datapath, NextWrm
  <2>2. wrm.done = FALSE
    BY <1>2, <1>3 DEF EngineType
  <2> QED
    BY <1>3, <2>1, <2>2 DEF EngineType
<1>8. arr' = arr
  <2>1. arr' = [pm |-> arr.pm, rdv |-> FALSE, row |-> <<>>, wgt |-> arr.wgt,
                val |-> arr.val]
    BY <1>1, <1>2 DEF Datapath, NextArr
  <2>2. arr.rdv = FALSE
    BY <1>2, <1>3 DEF EngineType
  <2> QED
    BY <1>2, <2>1, <2>2 DEF CoreInv, Shaped
<1>9. vec' = vec
  <2>1. vec' = [vec EXCEPT !.left = 0]
    BY <1>1, <1>2 DEF Datapath, NextVec
  <2>2. vec = [left |-> vec.left, val |-> vec.val]
    BY DEF CoreInv, Shaped
  <2> QED
    BY <1>2, <2>1, <2>2
<1>10. bram' = bram
  <2>1. bram' = [wgt |-> bram.wgt, wgtBus |-> bram.wgtBus, wtRdValid |-> FALSE,
                 act |-> bram.act, bias |-> bram.bias, acc |-> bram.acc,
                 out |-> bram.out, outBus |-> bram.outBus]
    BY <1>1, <1>4, <1>5 DEF Datapath, NextBram, WtRdEn
  <2>2. bram.wtRdValid = FALSE
    BY <1>2, <1>3 DEF EngineType
  <2> QED
    BY <2>1, <2>2 DEF CoreInv, Shaped
<1>11. dram' = dram
  BY <1>5 DEF Datapath
<1>12. bk' = bk
  <2>1. bk' = [ldCnt |-> bk.ldCnt, ldTotal |-> bk.ldTotal, ldBase |-> bk.ldBase,
               stCnt |-> bk.stCnt, stTotal |-> bk.stTotal, stBase |-> bk.stBase,
               mmAddr |-> bk.mmAddr, vecAddr |-> bk.vecAddr,
               arrayDoneD |-> arr.pm = "DONE"]
    BY <1>1, <1>5 DEF Book, NextBookkeeping, LoadOp
  <2>2. (arr.pm = "DONE") = bk.arrayDoneD
    BY <1>2, <1>3 DEF BookkeepingType
  <2>3. bk = [ldCnt |-> bk.ldCnt, ldTotal |-> bk.ldTotal, ldBase |-> bk.ldBase,
              stCnt |-> bk.stCnt, stTotal |-> bk.stTotal, stBase |-> bk.stBase,
              mmAddr |-> bk.mmAddr, vecAddr |-> bk.vecAddr,
              arrayDoneD |-> bk.arrayDoneD]
    BY <1>3 DEF BookkeepingType
  <2> QED
    BY <2>1, <2>2, <2>3
<1> QED
  BY <1>6, <1>7, <1>8, <1>9, <1>10, <1>11, <1>12

-----------------------------------------------------------------------------
(* The writes of a script, by position. *)
LEMMA WriteKinds ==
  ASSUME NEW p \in Seq(Instruction), NEW k \in 1..ScriptLen(p)
  PROVE  \/ \E j \in 1..Len(p) :
              k = 2 * j - 1 /\ Script(p)[k] = Write("INSTR_ADDR", Number(j - 1))
         \/ \E j \in 1..Len(p) :
              k = 2 * j /\ Script(p)[k] = Write("INSTR_DATA", Word(p[j]))
         \/ k = 2 * Len(p) + 1 /\ Script(p)[k] = Write("PROG_LEN", Number(Len(p)))
         \/ k = 2 * Len(p) + 2 /\ Script(p)[k] = Write("SRC_ADDR", Number(CSR[BASE_ACT]))
         \/ k = 2 * Len(p) + 3 /\ Script(p)[k] = Write("DST_ADDR", Number(CSR[BASE_OUT]))
         \/ k = 2 * Len(p) + 4 /\ Script(p)[k] = Write("WEIGHT_ADDR", Number(CSR[BASE_WGT]))
         \/ k = 2 * Len(p) + 5 /\ Script(p)[k] = Write("BIAS_ADDR", Number(CSR[BASE_BIAS]))
         \/ k = ScriptLen(p) /\ Script(p)[k] = Write("CTRL", Number(1))
<1> DEFINE n == Len(p)
<1>1. n \in Nat
  OBVIOUS
<1>2. ScriptLen(p) = 2 * n + 6
  BY DEF ScriptLen
<1> HIDE DEF n
<1>3. \/ \E j \in 1..n : k = 2 * j - 1 \/ k = 2 * j
      \/ k = 2 * n + 1 \/ k = 2 * n + 2 \/ k = 2 * n + 3 \/ k = 2 * n + 4
      \/ k = 2 * n + 5 \/ k = ScriptLen(p)
  <2>1. k \in 1..2 * n + 6
    BY <1>2
  <2>2. CASE k <= 2 * n
    <3>1. (k + 1) \div 2 \in 1..n /\ (k = 2 * ((k + 1) \div 2) - 1 \/ k = 2 * ((k + 1) \div 2))
      BY <1>1, <2>1, <2>2
    <3> QED
      BY <3>1
  <2>3. CASE ~(k <= 2 * n)
    BY <1>1, <1>2, <2>1, <2>3
  <2> QED
    BY <2>2, <2>3
<1> QED
  BY <1>3, ScriptWrites DEF n

(* What the first n writes of the script of program p achieve: memory m,
   registers r and what the window fetches from, o. *)
ArrivedIn(n, p, m, r, o) ==
  /\ \A j \in 1..Len(p) : 2 * j <= n => m[j - 1] = p[j]
  /\ \A j \in 1..Len(p) : n = 2 * j - 1 => r["INSTR_ADDR"].num = j - 1
  /\ n > 2 * Len(p) => r["PROG_LEN"].num = Len(p) /\ o = p
  /\ n > 2 * Len(p) + 1 => r["SRC_ADDR"].num = CSR[BASE_ACT]
  /\ n > 2 * Len(p) + 2 => r["DST_ADDR"].num = CSR[BASE_OUT]
  /\ n > 2 * Len(p) + 3 => r["WEIGHT_ADDR"].num = CSR[BASE_WGT]
  /\ n > 2 * Len(p) + 4 => r["BIAS_ADDR"].num = CSR[BASE_BIAS]

Arrived(n) == ArrivedIn(n, host.prog, mem, reg, rom)

(* Write number k of the script of program p puts d into register a. *)
IsWrite(k, p, a, d) ==
  LET n == Len(p)
  IN  \/ \E j \in 1..n : k = 2 * j - 1 /\ a = "INSTR_ADDR" /\ d = Number(j - 1)
      \/ \E j \in 1..n : k = 2 * j /\ a = "INSTR_DATA" /\ d = Word(p[j])
      \/ k = 2 * n + 1 /\ a = "PROG_LEN" /\ d = Number(n)
      \/ k = 2 * n + 2 /\ a = "SRC_ADDR" /\ d = Number(CSR[BASE_ACT])
      \/ k = 2 * n + 3 /\ a = "DST_ADDR" /\ d = Number(CSR[BASE_OUT])
      \/ k = 2 * n + 4 /\ a = "WEIGHT_ADDR" /\ d = Number(CSR[BASE_WGT])
      \/ k = 2 * n + 5 /\ a = "BIAS_ADDR" /\ d = Number(CSR[BASE_BIAS])
      \/ k = 2 * n + 6 /\ a = "CTRL" /\ d = Number(1)

(* The writes performed, whether answered or not. *)
Written == ScriptLen(host.prog) - Len(host.todo) + (IF wr.st = "RESP" THEN 1 ELSE 0)

Writes == host.phase = "write"

(* How far the host has come with its script, and what the core does
   meanwhile: it rests until CTRL is written, and runs the program that was
   written until its END. *)
ScriptInv ==
  Writes => /\ host.prog \in Programs
            /\ Len(host.todo) \in 1..ScriptLen(host.prog)
            /\ \A i \in 1..Len(host.todo) :
                 host.todo[i] = Script(host.prog)[ScriptLen(host.prog) - Len(host.todo) + i]
            /\ Arrived(Written)

RestingInv ==
  Writes /\ Written < ScriptLen(host.prog) =>
    /\ sb.accel = "IDLE" /\ ~StartPulse /\ ~host.over
    /\ Written <= 2 * Len(host.prog) =>
         ~loaded /\ runs < MAX_RUNS /\ CanRun(Arch, host.prog)
    /\ Written > 2 * Len(host.prog) => loaded

StartingInv ==
  /\ StartPulse => /\ Writes /\ wr.st = "RESP" /\ Written = ScriptLen(host.prog)
                   /\ loaded /\ sb.accel = "IDLE" /\ ~host.over
  /\ loaded => Writes /\ (Written < ScriptLen(host.prog) \/ StartPulse)

RunningInv ==
  /\ host.over => sb.accel = "IDLE"
  /\ host.phase = "free" => POLLS \/ sb.accel = "IDLE"
  /\ sb.accel = "BUSY" => Arrived(ScriptLen(host.prog))

HostInv == PathInv /\ CoreInv /\ ScriptInv /\ RestingInv /\ StartingInv /\ RunningInv

LEMMA HostInit == HostedInit => HostInv
<1> SUFFICES ASSUME HostedInit PROVE HostInv
  OBVIOUS
<1>1. PathInv /\ CoreInv
  BY PathInit, CoreInit DEF HostedInit
<1>2. host.phase = "free" /\ ~host.over
  BY DEF HostedInit, SlaveInit
<1>3. sb.accel = "IDLE" /\ ~loaded
  BY DEF HostedInit, Init, ResetScoreboard
<1>4. ~StartPulse
  BY DEF HostedInit, SlaveInit, StartPulse, Register, Number, Word
<1> QED
  BY <1>1, <1>2, <1>3, <1>4
     DEF HostInv, ScriptInv, RestingInv, StartingInv, RunningInv, Writes

-----------------------------------------------------------------------------
(* The numbers of a script that is being written. *)
LEMMA Counts ==
  ASSUME PathInv, ScriptInv, Writes
  PROVE  /\ host.prog \in Seq(Instruction) /\ Len(host.prog) \in Nat
         /\ Len(host.prog) <= INSTR_DEPTH
         /\ ScriptLen(host.prog) = 2 * Len(host.prog) + 6
         /\ Len(host.todo) \in 1..ScriptLen(host.prog)
         /\ Written \in 0..ScriptLen(host.prog)
         /\ wr.st # "RESP" => Written = ScriptLen(host.prog) - Len(host.todo)
         /\ wr.st = "RESP" => Written = ScriptLen(host.prog) - Len(host.todo) + 1
<1>1. host.prog \in Seq(Instruction) /\ Len(host.prog) <= INSTR_DEPTH
  BY HostAssumption DEF ScriptInv
<1>2. Len(host.prog) \in Nat
  BY <1>1
<1> DEFINE n == Len(host.prog)
           t == Len(host.todo)
<1>3. ScriptLen(host.prog) = 2 * n + 6 /\ t \in 1..ScriptLen(host.prog)
  BY DEF ScriptInv, ScriptLen
<1>4. Written = ScriptLen(host.prog) - t + (IF wr.st = "RESP" THEN 1 ELSE 0)
  BY DEF Written
<1> HIDE DEF n, t
<1>5. n \in Nat
  BY <1>2 DEF n
<1>6. /\ Written \in 0..ScriptLen(host.prog)
      /\ wr.st # "RESP" => Written = ScriptLen(host.prog) - t
      /\ wr.st = "RESP" => Written = ScriptLen(host.prog) - t + 1
  BY <1>3, <1>4, <1>5
<1> QED
  BY <1>1, <1>2, <1>3, <1>6 DEF n, t

(* A write that is about to be performed is the next one of the script, and
   the core rests. *)
LEMMA Performing ==
  ASSUME HostInv, wr.st = "BUSY"
  PROVE  /\ Writes /\ Written < ScriptLen(host.prog) /\ Written + 1 \in 1..ScriptLen(host.prog)
         /\ wr.addr = Script(host.prog)[Written + 1].reg
         /\ wr.data = Script(host.prog)[Written + 1].val
         /\ sb.accel = "IDLE" /\ ~StartPulse /\ ~host.over
<1>1. Writes
  BY DEF HostInv, PathInv, Writes
<1>2. /\ Len(host.prog) \in Nat /\ ScriptLen(host.prog) = 2 * Len(host.prog) + 6
      /\ Len(host.todo) \in 1..ScriptLen(host.prog)
      /\ Written = ScriptLen(host.prog) - Len(host.todo)
  BY <1>1, Counts DEF HostInv
<1>3. Written < ScriptLen(host.prog) /\ Written + 1 \in 1..ScriptLen(host.prog)
  <2> DEFINE n == Len(host.prog)
             m == ScriptLen(host.prog)
             t == Len(host.todo)
             w == Written
  <2> HIDE DEF n, m, t, w
  <2>1. n \in Nat /\ m = 2 * n + 6 /\ t \in 1..m /\ w = m - t
    BY <1>2 DEF n, m, t, w
  <2>2. w < m /\ w + 1 \in 1..m
    BY <2>1
  <2> QED
    BY <2>2 DEF m, w
<1>4. host.todo # <<>>
  BY <1>1 DEF HostInv, PathInv, Writes
<1>5. Head(host.todo) = host.todo[1]
  BY <1>4, FirstWrite DEF HostInv, PathInv
<1>6. host.todo[1] = Script(host.prog)[Written + 1]
  <2>1. 1 \in 1..Len(host.todo)
    BY <1>2
  <2> QED
    BY <1>1, <1>2, <2>1 DEF HostInv, ScriptInv
<1>7. wr.addr = Head(host.todo).reg /\ wr.data = Head(host.todo).val
  BY DEF HostInv, PathInv
<1> QED
  BY <1>1, <1>3, <1>5, <1>6, <1>7 DEF HostInv, RestingInv

(* The register that is being written tells how far the script is. *)
LEMMA WritingTells ==
  ASSUME HostInv, wr.st = "BUSY"
  PROVE  IsWrite(Written + 1, host.prog, wr.addr, wr.data)
<1> DEFINE k == Written + 1
           w == Script(host.prog)[k]
<1>1. k \in 1..ScriptLen(host.prog) /\ wr.addr = w.reg /\ wr.data = w.val
  BY Performing
<1>2. host.prog \in Seq(Instruction)
  BY DEF HostInv, PathInv, SlaveType
<1>3. \A r, v : Write(r, v).reg = r /\ Write(r, v).val = v
  BY DEF Write
<1> DEFINE n == Len(host.prog)
<1> HIDE DEF k
<1>4. \/ \E j \in 1..n : k = 2 * j - 1 /\ w = Write("INSTR_ADDR", Number(j - 1))
      \/ \E j \in 1..n : k = 2 * j /\ w = Write("INSTR_DATA", Word(host.prog[j]))
      \/ k = 2 * n + 1 /\ w = Write("PROG_LEN", Number(n))
      \/ k = 2 * n + 2 /\ w = Write("SRC_ADDR", Number(CSR[BASE_ACT]))
      \/ k = 2 * n + 3 /\ w = Write("DST_ADDR", Number(CSR[BASE_OUT]))
      \/ k = 2 * n + 4 /\ w = Write("WEIGHT_ADDR", Number(CSR[BASE_WGT]))
      \/ k = 2 * n + 5 /\ w = Write("BIAS_ADDR", Number(CSR[BASE_BIAS]))
      \/ k = 2 * n + 6 /\ w = Write("CTRL", Number(1))
  BY <1>1, <1>2, WriteKinds DEF ScriptLen
<1> HIDE DEF w, n
<1>5. \/ \E j \in 1..n : k = 2 * j - 1 /\ wr.addr = "INSTR_ADDR" /\ wr.data = Number(j - 1)
      \/ \E j \in 1..n : k = 2 * j /\ wr.addr = "INSTR_DATA" /\ wr.data = Word(host.prog[j])
      \/ k = 2 * n + 1 /\ wr.addr = "PROG_LEN" /\ wr.data = Number(n)
      \/ k = 2 * n + 2 /\ wr.addr = "SRC_ADDR" /\ wr.data = Number(CSR[BASE_ACT])
      \/ k = 2 * n + 3 /\ wr.addr = "DST_ADDR" /\ wr.data = Number(CSR[BASE_OUT])
      \/ k = 2 * n + 4 /\ wr.addr = "WEIGHT_ADDR" /\ wr.data = Number(CSR[BASE_WGT])
      \/ k = 2 * n + 5 /\ wr.addr = "BIAS_ADDR" /\ wr.data = Number(CSR[BASE_BIAS])
      \/ k = 2 * n + 6 /\ wr.addr = "CTRL" /\ wr.data = Number(1)
  BY <1>1, <1>3, <1>4
<1> QED
  BY <1>5 DEF k, n, IsWrite

(* The program is in place when its length is written. *)
LEMMA ProgramIn ==
  ASSUME HostInv, wr.st = "BUSY", wr.addr = "PROG_LEN"
  PROVE  /\ Written = 2 * Len(host.prog)
         /\ Visible(mem, wr.data.num) = host.prog
<1>1. /\ host.prog \in Seq(Instruction) /\ Len(host.prog) \in Nat
      /\ Writes /\ Written \in 0..ScriptLen(host.prog)
      /\ ScriptLen(host.prog) = 2 * Len(host.prog) + 6
  BY Performing, Counts DEF HostInv
<1>2. Written + 1 = 2 * Len(host.prog) + 1 /\ wr.data = Number(Len(host.prog))
  BY WritingTells DEF IsWrite
<1>3. Written = 2 * Len(host.prog)
  <2> DEFINE n == Len(host.prog)
             w == Written
  <2> HIDE DEF n, w
  <2>1. n \in Nat /\ w \in 0..2 * n + 6 /\ w + 1 = 2 * n + 1
    BY <1>1, <1>2 DEF n, w
  <2>2. w = 2 * n
    BY <2>1
  <2> QED
    BY <2>2 DEF n, w
<1>4. wr.data.num = Len(host.prog)
  BY <1>2 DEF Number
<1>5. \A j \in 1..Len(host.prog) : mem[j - 1] = host.prog[j]
  <2>1. TAKE j \in 1..Len(host.prog)
  <2>2. 2 * j <= 2 * Len(host.prog)
    BY <1>1
  <2> QED
    BY <1>1, <1>3, <2>2 DEF HostInv, ScriptInv, Arrived, ArrivedIn
<1>6. host.prog = [j \in 1..Len(host.prog) |-> host.prog[j]]
  BY <1>1
<1> QED
  BY <1>3, <1>4, <1>5, <1>6 DEF Visible

(* What the core does in a cycle of the composition: it starts the run, takes
   the program, or goes on, which between two runs means that it stands. *)
Goes == \E g \in Go : Cycle(g)
Stands == UNCHANGED vars

LEMMA CoreMoves ==
  ASSUME HostInv, NEW g \in Go, CoreCycle(g)
  PROVE  \/ StartPulse /\ Start(g)
         \/ ~StartPulse /\ Writing("PROG_LEN") /\ LoadProgram(host.prog)
         \/ ~StartPulse /\ ~Writing("PROG_LEN") /\ Goes
            /\ (sb.accel = "IDLE" => Stands)
<1>1. CoreInv
  BY DEF HostInv
<1>2. CASE StartPulse
  <2>1. StartCycle(g)
    BY <1>2 DEF CoreCycle
  <2>2. loaded /\ sb.accel = "IDLE"
    BY <1>2 DEF HostInv, StartingInv
  <2>3. OnTheWires = NOP /\ IssueEffect(sb, NOP) = sb
    BY <1>1, <2>2, QuietCore, NothingIssued
  <2> QED
    BY <1>2, <2>1, <2>2, <2>3 DEF StartCycle, Start
<1>3. CASE ~StartPulse /\ Writing("PROG_LEN")
  <2>1. ArrivalCycle(g)
    BY <1>3 DEF CoreCycle
  <2>2. wr.st = "BUSY" /\ wr.addr = "PROG_LEN"
    BY <1>3 DEF Writing
  <2>3. /\ Writes /\ Written < ScriptLen(host.prog) /\ sb.accel = "IDLE"
        /\ Written = 2 * Len(host.prog) /\ Visible(mem, wr.data.num) = host.prog
        /\ Len(host.prog) \in Nat
    BY <2>2, Performing, ProgramIn, Counts DEF HostInv
  <2>4. ~loaded /\ runs < MAX_RUNS /\ CanRun(Arch, host.prog)
    BY <2>3 DEF HostInv, RestingInv
  <2>5. /\ OnTheWires = NOP /\ IssueEffect(sb, NOP) = sb
        /\ NextScoreboard(sb, sb, Events) = sb
    BY <1>1, <2>3, QuietCore, NothingIssued
  <2>6. UNCHANGED <<sb, bk, rdm, wrm, arr, vec, bram, dram>>
    BY <1>1, <2>1, <2>3, <2>5, QuietCycle DEF ArrivalCycle
  <2>7. LoadProgram(host.prog)
    BY <2>1, <2>3, <2>4, <2>6 DEF ArrivalCycle, LoadProgram
  <2> QED
    BY <1>3, <2>7
<1>4. CASE ~StartPulse /\ ~Writing("PROG_LEN")
  <2>1. Cycle(g)
    BY <1>4 DEF CoreCycle
  <2>2. ASSUME sb.accel = "IDLE" PROVE Stands
    <3>1. NoIssue(g)
      BY <1>1, <2>1, <2>2, QuietCore DEF Cycle, Issue
    <3>2. /\ Datapath(NOP, g) /\ Book(NOP, g) /\ FifoHold
          /\ sb' = NextScoreboard(sb, sb, Events) /\ UNCHANGED <<loaded, runs, snap>>
      BY <3>1 DEF NoIssue
    <3>3. UNCHANGED <<bk, rdm, wrm, arr, vec, bram, dram>>
      BY <1>1, <2>2, <3>2, QuietCycle
    <3>4. sb' = sb
      BY <1>1, <2>2, <3>2, QuietCore
    <3> QED
      BY <3>2, <3>3, <3>4 DEF Stands, vars, FifoHold, fifoVars
  <2> QED
    BY <1>4, <2>1, <2>2 DEF Goes
<1> QED
  BY <1>2, <1>3, <1>4

(* Driven through the registers, the core takes only steps of Accelerator. *)
LEMMA DrivesStep ==
  ASSUME HostInv, [HostedNext]_hostedVars
  PROVE  [Next]_vars
<1>1. CASE NextProgram
  BY <1>1 DEF NextProgram
<1>2. ASSUME NEW g \in Go, CoreCycle(g) PROVE [Next]_vars
  <2>1. Writing("PROG_LEN") => host.prog \in Programs
    BY Performing DEF Writing, HostInv, ScriptInv
  <2> QED
    BY <1>2, <2>1, CoreMoves DEF Next, Goes
<1>3. CASE UNCHANGED hostedVars
  BY <1>3 DEF hostedVars
<1> QED
  BY <1>1, <1>2, <1>3 DEF HostedNext, Clock

-----------------------------------------------------------------------------
(* The progress of the script. *)

(* The done wire says that the core goes idle. *)
LEMMA DoneMeansIdle ==
  ASSUME CoreInv, Goes, Status.done
  PROVE  sb'.accel = "IDLE"
<1>1. Issuing /\ OnTheWires.op = "END"
  BY DEF Status
<1> DEFINE k == CHOOSE j \in Slot : Selected(sb, Words, j)
<1>2. k \in Slot /\ Selected(sb, Words, k) /\ Words[k].op = "END"
  BY <1>1 DEF Issuing, OnTheWires
<1> HIDE DEF k
<1>3. PICK g \in Go : Cycle(g)
  BY DEF Goes
<1>4. ~NoIssue(g)
  BY <1>2 DEF NoIssue
<1>5. PICK j \in Slot : /\ Selected(sb, Words, j)
                        /\ sb' = NextScoreboard(sb, IssueEffect(sb, Words[j]), Events)
  BY <1>3, <1>4 DEF Cycle, Issue
<1>6. j = k
  <2>1. j \in Int /\ k \in Int /\ (j < k => j \in 1..k - 1) /\ (k < j => k \in 1..j - 1)
    BY <1>2, FifoAssumption DEF Slot
  <2>2. /\ \A i \in 1..k - 1 : ~Eligible(sb, Words, i)
        /\ \A i \in 1..j - 1 : ~Eligible(sb, Words, i)
        /\ Eligible(sb, Words, k) /\ Eligible(sb, Words, j)
    BY <1>2, <1>5 DEF Selected
  <2>3. ~(j < k) /\ ~(k < j)
    BY <2>1, <2>2
  <2> QED
    BY <2>1, <2>3
<1>7. Words[k] \in Instruction /\ sb \in ScoreboardType
  BY <1>2, WordsTyped DEF CoreInv, EngineInv, TypeOK
<1> QED
  BY <1>2, <1>5, <1>6, <1>7, Edges

(* What no step of the core but LoadProgram changes. *)
LEMMA GoesFrame ==
  ASSUME Goes
  PROVE  rom' = rom /\ loaded' = loaded /\ runs' = runs
BY DEF Goes, Cycle, NoIssue, Issue, FifoHold, FifoPop, fifoVars

LEMMA StartFrame ==
  ASSUME NEW g \in Go, Start(g)
  PROVE  rom' = rom /\ loaded' = FALSE
BY DEF Start, FifoRestart

(* A cycle that performs no register write. *)
LEMMA OtherCycle ==
  ASSUME HostInv, NEW g \in Go, NEW h \in Bus, Clock(g, h), wr.st # "BUSY"
  PROVE  ScriptInv' /\ RestingInv' /\ StartingInv' /\ RunningInv'
<1>1. SlaveType /\ CoreInv /\ PathInv
  BY DEF HostInv, PathInv
<1>2. /\ wr' = NextWr(h) /\ reg' = NextReg /\ mem' = NextMem(Busy)
      /\ host' = NextHost(h, Status, POLLS) /\ CoreCycle(g)
  BY DEF Clock
<1>3. \A r \in Register : ~Writing(r)
  BY DEF Writing
<1>4. mem' = mem
  BY <1>2, <1>3 DEF NextMem, Register
<1>5. (\A r \in Register \ {"CTRL"} : reg'[r] = reg[r]) /\ ~StartPulse'
  <2>1. "CTRL" \in Register
    BY DEF Register
  <2>2. (\A r \in Register \ {"CTRL"} : reg'[r] = reg[r]) /\ reg'["CTRL"] = Number(0)
    BY <1>1, <1>2, <1>3, <2>1, RegisterMoves
  <2> QED
    BY <2>2 DEF StartPulse, Number
<1>6. /\ host'.todo = IF Answered(h) THEN Tail(host.todo) ELSE host.todo
      /\ host'.phase = IF host.phase = "write"
                       THEN IF BHandshake(h) /\ Len(host.todo) = 1 THEN "run" ELSE "write"
                       ELSE IF host.phase = "run" /\ ~SeesEnd(h) THEN "run" ELSE "free"
      /\ host'.over <=> host.over \/ (host.phase # "free" /\ Status.done)
      /\ host'.prog = host.prog
  BY <1>1, <1>2, HostMoves DEF PathInv
<1>7. /\ \/ StartPulse /\ Start(g)
         \/ ~StartPulse /\ Goes /\ (sb.accel = "IDLE" => Stands)
      /\ rom' = rom
      /\ loaded' = (loaded /\ ~StartPulse)
  <2>1. ~Writing("PROG_LEN") /\ loaded \in BOOLEAN
    BY DEF Writing, HostInv, CoreInv, EngineInv, TypeOK
  <2>2. \/ StartPulse /\ Start(g)
        \/ ~StartPulse /\ Goes /\ (sb.accel = "IDLE" => Stands)
    BY <1>2, <2>1, CoreMoves
  <2> QED
    BY <2>1, <2>2, GoesFrame, StartFrame
<1>8. \A n : Arrived(n) => ArrivedIn(n, host'.prog, mem', reg', rom')
  <2>1. /\ reg'["INSTR_ADDR"] = reg["INSTR_ADDR"] /\ reg'["PROG_LEN"] = reg["PROG_LEN"]
        /\ reg'["SRC_ADDR"] = reg["SRC_ADDR"] /\ reg'["DST_ADDR"] = reg["DST_ADDR"]
        /\ reg'["WEIGHT_ADDR"] = reg["WEIGHT_ADDR"] /\ reg'["BIAS_ADDR"] = reg["BIAS_ADDR"]
    BY <1>5 DEF Register, Config
  <2> QED
    BY <1>4, <1>6, <1>7, <2>1 DEF Arrived, ArrivedIn
(* The script is as far as it was. *)
<1>9. Writes' => Writes /\ Written' = Written /\ ScriptInv'
  <2> SUFFICES ASSUME Writes' PROVE Writes /\ Written' = Written /\ ScriptInv'
    OBVIOUS
  <2>1. Writes /\ ~(BHandshake(h) /\ Len(host.todo) = 1)
    BY <1>6 DEF Writes
  <2>2. /\ Len(host.todo) \in 1..ScriptLen(host.prog) /\ ScriptLen(host.prog) \in Nat
        /\ host.todo # <<>>
        /\ \A i \in 1..Len(host.todo) :
             host.todo[i] = Script(host.prog)[ScriptLen(host.prog) - Len(host.todo) + i]
    BY <2>1, Counts DEF HostInv, ScriptInv, PathInv, Writes
  <2>3. wr'.st = IF wr.st = "RESP" THEN IF BHandshake(h) THEN "IDLE" ELSE "RESP"
                 ELSE IF wr'.st = "BUSY" THEN "BUSY" ELSE "IDLE"
    BY <1>1, <1>2, PathMoves DEF SlaveType
  <2>4. /\ Written' = Written
        /\ Len(host'.todo) \in 1..ScriptLen(host.prog)
        /\ \A i \in 1..Len(host'.todo) :
             host'.todo[i] = Script(host.prog)[ScriptLen(host.prog) - Len(host'.todo) + i]
    <3> DEFINE m == ScriptLen(host.prog)
               t == Len(host.todo)
               f(i) == Script(host.prog)[i]
    <3>1. m \in Nat /\ t \in 1..m /\ \A i \in 1..t : host.todo[i] = f(m - t + i)
      BY <2>2
    <3>2. /\ Written = m - t + (IF wr.st = "RESP" THEN 1 ELSE 0)
          /\ Written' = m - Len(host'.todo) + (IF wr'.st = "RESP" THEN 1 ELSE 0)
      BY <1>6 DEF Written
    <3>3. CASE BHandshake(h)
      <4>1. Answered(h) /\ wr.st = "RESP" /\ wr'.st = "IDLE"
        BY <2>1, <2>3, <3>3 DEF Answered, Writes, BHandshake
      <4>2. /\ host'.todo = Tail(host.todo) /\ Len(host'.todo) = t - 1
            /\ \A i \in 1..Len(host'.todo) : host'.todo[i] = host.todo[i + 1]
        BY <1>1, <1>6, <2>2, <4>1, FirstWrite
      <4>3. t # 1
        BY <2>1, <3>3
      <4> DEFINE w == Written
                 w2 == Written'
                 t2 == Len(host'.todo)
      <4> HIDE DEF m, t, f, w, w2, t2
      <4>4. Written' = Written /\ t - 1 \in 1..m
        <5>1. w = m - t + 1 /\ w2 = m - t2 + 0 /\ t2 = t - 1
          BY <3>2, <4>1, <4>2 DEF w, w2, t2
        <5>2. w2 = w /\ t - 1 \in 1..m
          BY <3>1, <4>3, <5>1
        <5> QED
          BY <5>2 DEF w, w2
      <4>5. ASSUME NEW i \in 1..t - 1 PROVE host.todo[i + 1] = f(m - (t - 1) + i)
        <5>1. i + 1 \in 1..t /\ m - t + (i + 1) = m - (t - 1) + i
          BY <3>1
        <5> QED
          BY <3>1, <5>1
      <4>6. \A i \in 1..Len(host'.todo) : host'.todo[i] = f(m - Len(host'.todo) + i)
        BY <4>2, <4>5
      <4> QED
        BY <4>2, <4>4, <4>6 DEF m, f
    <3>4. CASE ~BHandshake(h)
      <4>1. host'.todo = host.todo /\ (wr'.st = "RESP" <=> wr.st = "RESP")
        BY <1>6, <2>3, <3>4 DEF Answered
      <4> QED
        BY <2>2, <3>2, <4>1
    <3> QED
      BY <3>3, <3>4
  <2>5. ArrivedIn(Written, host'.prog, mem', reg', rom') /\ host.prog \in Programs
    BY <1>8, <2>1 DEF HostInv, ScriptInv
  <2> QED
    BY <1>6, <2>1, <2>4, <2>5 DEF ScriptInv, Arrived
<1>10. ScriptInv'
  BY <1>9 DEF ScriptInv
<1>11. RestingInv'
  <2> SUFFICES ASSUME Writes', Written' < ScriptLen(host'.prog)
               PROVE  /\ sb'.accel = "IDLE" /\ ~StartPulse' /\ ~host'.over
                      /\ Written' <= 2 * Len(host'.prog) =>
                           ~loaded' /\ runs' < MAX_RUNS /\ CanRun(Arch', host'.prog)
                      /\ Written' > 2 * Len(host'.prog) => loaded'
    BY DEF RestingInv
  <2>1. Writes /\ Written' = Written /\ Written < ScriptLen(host.prog)
    BY <1>6, <1>9
  <2>2. /\ sb.accel = "IDLE" /\ ~StartPulse /\ ~host.over
        /\ Written <= 2 * Len(host.prog) =>
             ~loaded /\ runs < MAX_RUNS /\ CanRun(Arch, host.prog)
        /\ Written > 2 * Len(host.prog) => loaded
    BY <2>1 DEF HostInv, RestingInv
  <2>3. UNCHANGED vars /\ ~Status.done
    BY <1>1, <1>7, <2>2, QuietCore DEF Stands
  <2>4. Arch' = Arch /\ sb' = sb /\ loaded' = loaded /\ runs' = runs
    BY <2>3 DEF vars, Arch
  <2> QED
    BY <1>5, <1>6, <2>1, <2>2, <2>3, <2>4
<1>12. StartingInv'
  <2> SUFFICES ASSUME loaded' PROVE Writes' /\ Written' < ScriptLen(host'.prog)
    BY <1>5 DEF StartingInv
  <2>1. loaded /\ ~StartPulse /\ Writes /\ Written < ScriptLen(host.prog)
    BY <1>7 DEF HostInv, StartingInv
  <2>2. ~(wr.st = "RESP" /\ Len(host.todo) = 1)
    <3> SUFFICES ASSUME wr.st = "RESP" PROVE Len(host.todo) # 1
      OBVIOUS
    <3> DEFINE m == ScriptLen(host.prog)
               t == Len(host.todo)
               w == Written
    <3> HIDE DEF m, t, w
    <3> DEFINE n == Len(host.prog)
    <3> HIDE DEF n
    <3>1. n \in Nat /\ m = 2 * n + 6 /\ t \in 1..m /\ w = m - t + 1 /\ w < m
      BY <2>1, Counts DEF HostInv, m, t, w, n
    <3>2. t # 1
      BY <3>1
    <3> QED
      BY <3>2 DEF t
  <2>3. Writes'
    BY <1>6, <2>1, <2>2 DEF Writes, BHandshake
  <2> QED
    BY <1>6, <1>9, <2>1, <2>3
<1>13. host'.over => sb'.accel = "IDLE"
  <2>1. CASE host.over
    <3>1. sb.accel = "IDLE" /\ ~StartPulse
      BY <2>1 DEF HostInv, StartingInv, RunningInv
    <3> QED
      BY <1>7, <3>1 DEF Stands, vars
  <2>2. CASE Status.done
    <3>1. ~StartPulse
      BY <1>1, <2>2, QuietCore DEF HostInv, StartingInv
    <3> QED
      BY <1>1, <1>7, <2>2, <3>1, DoneMeansIdle
  <2> QED
    BY <1>6, <2>1, <2>2
<1>14. host'.phase = "free" => POLLS \/ sb'.accel = "IDLE"
  <2> SUFFICES ASSUME host'.phase = "free", ~POLLS PROVE sb'.accel = "IDLE"
    OBVIOUS
  <2>1. host.phase \in {"free", "run"} /\ (host.phase = "run" => SeesEnd(h))
    BY <1>1, <1>6 DEF SlaveType
  <2>2. CASE host.phase = "run"
    BY <1>6, <1>13, <2>1, <2>2 DEF SeesEnd
  <2>3. CASE host.phase = "free"
    <3>1. sb.accel = "IDLE" /\ ~StartPulse
      BY <2>3 DEF HostInv, StartingInv, RunningInv, Writes
    <3> QED
      BY <1>7, <3>1 DEF Stands, vars
  <2> QED
    BY <2>1, <2>2, <2>3
<1>15. sb'.accel = "BUSY" => Arrived(ScriptLen(host.prog))'
  <2> SUFFICES ASSUME sb'.accel = "BUSY"
               PROVE  ArrivedIn(ScriptLen(host.prog), host'.prog, mem', reg', rom')
    BY <1>6 DEF Arrived
  <2>1. Arrived(ScriptLen(host.prog))
    <3>1. CASE StartPulse
      BY <3>1 DEF HostInv, StartingInv, ScriptInv
    <3>2. CASE ~StartPulse
      <4>1. sb.accel = "BUSY"
        BY <1>1, <1>7, <3>2
           DEF Stands, vars, CoreInv, EngineInv, TypeOK, ScoreboardType, EngState
      <4> QED
        BY <4>1 DEF HostInv, RunningInv
    <3> QED
      BY <3>1, <3>2
  <2> QED
    BY <1>8, <2>1
<1>16. RunningInv'
  BY <1>13, <1>14, <1>15 DEF RunningInv
<1> QED
  BY <1>10, <1>11, <1>12, <1>16

(* Register a takes d; the memory takes word j with write 2 * j; the window's
   program is replaced with the write of PROG_LEN. *)
RegisterTakes(a, d, r, r2) ==
  \A x \in Register \ {"CTRL"} : r2[x] = IF a = x THEN d ELSE r[x]
MemoryTakes(k, p, a, m, m2) ==
  \A j \in 1..Len(p) : m2[j - 1] = IF a = "INSTR_DATA" /\ k = 2 * j THEN p[j] ELSE m[j - 1]
WindowTakes(p, a, o, o2) == o2 = IF a = "PROG_LEN" THEN p ELSE o

(* One more write: register a receives d, which is write number w + 1 of the
   script of program p. *)
LEMMA OneMoreWrite ==
  ASSUME NEW p \in Seq(Instruction), NEW w \in Nat, NEW k, k = w + 1, NEW a, NEW d,
         NEW m, NEW r, NEW o, NEW m2, NEW r2, NEW o2,
         ArrivedIn(w, p, m, r, o), IsWrite(k, p, a, d), RegisterTakes(a, d, r, r2),
         MemoryTakes(k, p, a, m, m2), WindowTakes(p, a, o, o2)
  PROVE  ArrivedIn(k, p, m2, r2, o2)
<1> DEFINE n == Len(p)
<1>1. n \in Nat
  OBVIOUS
<1>2. \A x : Number(x).num = x
  BY DEF Number
<1>3. \A x \in {"INSTR_ADDR", "PROG_LEN", "SRC_ADDR", "DST_ADDR", "WEIGHT_ADDR", "BIAS_ADDR"} :
        r2[x] = IF a = x THEN d ELSE r[x]
  BY DEF RegisterTakes, Register, Config
<1>4. /\ \A j \in 1..n : 2 * j <= w => m[j - 1] = p[j]
      /\ w > 2 * n => r["PROG_LEN"].num = n /\ o = p
      /\ w > 2 * n + 1 => r["SRC_ADDR"].num = CSR[BASE_ACT]
      /\ w > 2 * n + 2 => r["DST_ADDR"].num = CSR[BASE_OUT]
      /\ w > 2 * n + 3 => r["WEIGHT_ADDR"].num = CSR[BASE_WGT]
      /\ w > 2 * n + 4 => r["BIAS_ADDR"].num = CSR[BASE_BIAS]
  BY DEF ArrivedIn
<1>5. \/ \E j \in 1..n : w + 1 = 2 * j - 1 /\ a = "INSTR_ADDR" /\ d = Number(j - 1)
      \/ \E j \in 1..n : w + 1 = 2 * j /\ a = "INSTR_DATA"
      \/ w + 1 = 2 * n + 1 /\ a = "PROG_LEN" /\ d = Number(n)
      \/ w + 1 = 2 * n + 2 /\ a = "SRC_ADDR" /\ d = Number(CSR[BASE_ACT])
      \/ w + 1 = 2 * n + 3 /\ a = "DST_ADDR" /\ d = Number(CSR[BASE_OUT])
      \/ w + 1 = 2 * n + 4 /\ a = "WEIGHT_ADDR" /\ d = Number(CSR[BASE_WGT])
      \/ w + 1 = 2 * n + 5 /\ a = "BIAS_ADDR" /\ d = Number(CSR[BASE_BIAS])
      \/ w + 1 = 2 * n + 6 /\ a = "CTRL"
  BY DEF IsWrite
<1>6. \A j \in 1..n : m2[j - 1] = IF a = "INSTR_DATA" /\ w + 1 = 2 * j THEN p[j] ELSE m[j - 1]
  BY DEF MemoryTakes
<1> HIDE DEF n
<1>14. o2 = IF a = "PROG_LEN" THEN p ELSE o
  BY DEF WindowTakes
<1>7. ASSUME NEW j \in 1..n, 2 * j <= w + 1 PROVE m2[j - 1] = p[j]
  <2>1. CASE 2 * j <= w
    BY <1>1, <1>4, <1>6, <2>1
  <2>2. CASE ~(2 * j <= w)
    <3>1. w + 1 = 2 * j
      BY <1>1, <1>7, <2>2
    <3>2. a = "INSTR_DATA"
      BY <1>1, <1>5, <3>1
    <3> QED
      BY <1>6, <3>1, <3>2
  <2> QED
    BY <2>1, <2>2
<1>8. ASSUME NEW j \in 1..n, w + 1 = 2 * j - 1 PROVE r2["INSTR_ADDR"].num = j - 1
  <2>1. PICK i \in 1..n : w + 1 = 2 * i - 1 /\ a = "INSTR_ADDR" /\ d = Number(i - 1)
    BY <1>1, <1>5, <1>8
  <2>2. i = j
    BY <1>1, <1>8, <2>1
  <2> QED
    BY <1>2, <1>3, <2>1, <2>2
<1>9. ASSUME w + 1 > 2 * n PROVE r2["PROG_LEN"].num = n /\ o2 = p
  <2>1. CASE w > 2 * n
    <3>1. a # "PROG_LEN"
      BY <1>1, <1>5, <2>1
    <3> QED
      BY <1>3, <1>4, <1>14, <2>1, <3>1
  <2>2. CASE ~(w > 2 * n)
    <3>1. a = "PROG_LEN" /\ d = Number(n)
      BY <1>1, <1>5, <1>9, <2>2
    <3> QED
      BY <1>2, <1>3, <1>14, <3>1
  <2> QED
    BY <2>1, <2>2
<1>10. ASSUME w + 1 > 2 * n + 1 PROVE r2["SRC_ADDR"].num = CSR[BASE_ACT]
  <2>1. w > 2 * n + 1 => a # "SRC_ADDR"
    BY <1>1, <1>5
  <2>2. ~(w > 2 * n + 1) => a = "SRC_ADDR" /\ d = Number(CSR[BASE_ACT])
    BY <1>1, <1>5, <1>10
  <2> QED
    BY <1>2, <1>3, <1>4, <2>1, <2>2
<1>11. ASSUME w + 1 > 2 * n + 2 PROVE r2["DST_ADDR"].num = CSR[BASE_OUT]
  <2>1. w > 2 * n + 2 => a # "DST_ADDR"
    BY <1>1, <1>5
  <2>2. ~(w > 2 * n + 2) => a = "DST_ADDR" /\ d = Number(CSR[BASE_OUT])
    BY <1>1, <1>5, <1>11
  <2> QED
    BY <1>2, <1>3, <1>4, <2>1, <2>2
<1>12. ASSUME w + 1 > 2 * n + 3 PROVE r2["WEIGHT_ADDR"].num = CSR[BASE_WGT]
  <2>1. w > 2 * n + 3 => a # "WEIGHT_ADDR"
    BY <1>1, <1>5
  <2>2. ~(w > 2 * n + 3) => a = "WEIGHT_ADDR" /\ d = Number(CSR[BASE_WGT])
    BY <1>1, <1>5, <1>12
  <2> QED
    BY <1>2, <1>3, <1>4, <2>1, <2>2
<1>13. ASSUME w + 1 > 2 * n + 4 PROVE r2["BIAS_ADDR"].num = CSR[BASE_BIAS]
  <2>1. w > 2 * n + 4 => a # "BIAS_ADDR"
    BY <1>1, <1>5
  <2>2. ~(w > 2 * n + 4) => a = "BIAS_ADDR" /\ d = Number(CSR[BASE_BIAS])
    BY <1>1, <1>5, <1>13
  <2> QED
    BY <1>2, <1>3, <1>4, <2>1, <2>2
<1> QED
  BY <1>7, <1>8, <1>9, <1>10, <1>11, <1>12, <1>13 DEF ArrivedIn, n

(* A cycle that performs a register write. *)
LEMMA BusyCycle ==
  ASSUME HostInv, NEW g \in Go, NEW h \in Bus, Clock(g, h), wr.st = "BUSY"
  PROVE  ScriptInv' /\ RestingInv' /\ StartingInv' /\ RunningInv'
<1> DEFINE n == Len(host.prog)
           m == ScriptLen(host.prog)
           w == Written
<1>1. SlaveType /\ CoreInv /\ PathInv
  BY DEF HostInv, PathInv
<1>2. /\ wr' = NextWr(h) /\ reg' = NextReg /\ mem' = NextMem(Busy)
      /\ host' = NextHost(h, Status, POLLS) /\ CoreCycle(g)
  BY DEF Clock
<1>3. /\ Writes /\ sb.accel = "IDLE" /\ ~StartPulse /\ ~host.over
      /\ host.prog \in Seq(Instruction)
  BY Performing DEF HostInv, PathInv, SlaveType
<1>4. /\ n \in Nat /\ m = 2 * n + 6 /\ w \in 0..m /\ w < m /\ n <= INSTR_DEPTH
  BY <1>3, Performing, Counts DEF HostInv
<1>5. ~Busy /\ ~Status.done
  BY <1>1, <1>3, QuietCore
<1>6. /\ host'.todo = host.todo /\ host'.phase = "write" /\ host'.prog = host.prog
      /\ ~host'.over
  <2>1. ~BHandshake(h)
    BY DEF BHandshake
  <2> QED
    BY <1>1, <1>2, <1>3, <1>5, <2>1, HostMoves DEF PathInv, Writes, Answered
<1>7. wr'.st = "RESP"
  BY <1>1, <1>2, PathMoves
<1>8. Written' = w + 1 /\ Writes'
  <2> DEFINE t == Len(host.todo)
             w2 == Written'
  <2>1. w = m - t /\ t \in 1..m
    BY <1>3, Counts DEF HostInv
  <2>2. w2 = m - t + 1
    BY <1>6, <1>7 DEF Written
  <2> HIDE DEF m, n, t, w, w2
  <2>3. w2 = w + 1
    BY <1>4, <2>1, <2>2
  <2> QED
    BY <1>6, <2>3 DEF w2, Writes
<1>9. IsWrite(w + 1, host.prog, wr.addr, wr.data)
  BY WritingTells
<1>10. /\ \A j \in 1..n : 2 * j <= w => mem[j - 1] = host.prog[j]
       /\ \A j \in 1..n : w = 2 * j - 1 => reg["INSTR_ADDR"].num = j - 1
       /\ ArrivedIn(w, host.prog, mem, reg, rom)
  BY <1>3 DEF HostInv, ScriptInv, Arrived, ArrivedIn
<1> HIDE DEF n, m, w
(* How far the script was, by the register that is written. *)
<1>11. /\ wr.addr = "PROG_LEN" <=> w = 2 * n
       /\ wr.addr = "CTRL" <=> w + 1 = m
       /\ wr.addr = "CTRL" => wr.data = Number(1)
       /\ wr.addr = "INSTR_DATA" => \E j \in 1..n : /\ w + 1 = 2 * j
                                                     /\ wr.data = Word(host.prog[j])
       /\ \A j \in 1..n : w + 1 = 2 * j => wr.addr = "INSTR_DATA"
  <2>1. \/ \E j \in 1..n : w + 1 = 2 * j - 1 /\ wr.addr = "INSTR_ADDR"
        \/ \E j \in 1..n : /\ w + 1 = 2 * j /\ wr.addr = "INSTR_DATA"
                           /\ wr.data = Word(host.prog[j])
        \/ w + 1 = 2 * n + 1 /\ wr.addr = "PROG_LEN"
        \/ w + 1 = 2 * n + 2 /\ wr.addr = "SRC_ADDR"
        \/ w + 1 = 2 * n + 3 /\ wr.addr = "DST_ADDR"
        \/ w + 1 = 2 * n + 4 /\ wr.addr = "WEIGHT_ADDR"
        \/ w + 1 = 2 * n + 5 /\ wr.addr = "BIAS_ADDR"
        \/ w + 1 = 2 * n + 6 /\ wr.addr = "CTRL" /\ wr.data = Number(1)
    BY <1>9 DEF IsWrite, n
  <2> QED
    BY <1>4, <2>1
<1>12. \A j \in 1..n : mem'[j - 1] = IF wr.addr = "INSTR_DATA" /\ w + 1 = 2 * j
                                     THEN host.prog[j] ELSE mem[j - 1]
  <2>1. CASE wr.addr = "INSTR_DATA"
    <3>1. PICK j \in 1..n : w + 1 = 2 * j /\ wr.data = Word(host.prog[j])
      BY <1>11, <2>1
    <3>2. w = 2 * j - 1
      BY <1>4, <3>1
    <3>3. reg["INSTR_ADDR"].num % INSTR_DEPTH = j - 1
      <4>1. j - 1 \in 0..INSTR_DEPTH - 1 /\ INSTR_DEPTH \in Nat \ {0}
        BY <1>4, FifoAssumption
      <4>2. \A x \in 0..INSTR_DEPTH - 1 : x % INSTR_DEPTH = x
        BY <4>1
      <4> QED
        BY <1>10, <3>2, <4>1, <4>2
    <3>4. mem' = [mem EXCEPT ![j - 1] = host.prog[j]]
      <4>1. NextMem(Busy) = [mem EXCEPT ![reg["INSTR_ADDR"].num % INSTR_DEPTH]
                                          = wr.data.instr]
        BY <1>5, <2>1 DEF NextMem, Writing
      <4>2. wr.data.instr = host.prog[j]
        BY <3>1 DEF Word
      <4> QED
        BY <1>2, <3>3, <4>1, <4>2
    <3>5. \A i \in 1..n : i - 1 \in 0..INSTR_DEPTH - 1 /\ (w + 1 = 2 * i <=> i = j)
                          /\ (i - 1 = j - 1 <=> i = j)
      BY <1>4, <3>1, FifoAssumption
    <3>6. mem \in [0..INSTR_DEPTH - 1 -> Instruction]
      BY <1>1 DEF SlaveType
    <3> QED
      BY <2>1, <3>4, <3>5, <3>6
  <2>2. CASE wr.addr # "INSTR_DATA"
    BY <1>2, <2>2 DEF NextMem, Writing
  <2> QED
    BY <2>1, <2>2
<1>13. /\ \A x \in Register \ {"CTRL"} : reg'[x] = IF wr.addr = x THEN wr.data ELSE reg[x]
       /\ reg'["CTRL"] = IF wr.addr = "CTRL" THEN wr.data ELSE Number(0)
  BY <1>1, <1>2, RegisterMoves DEF Writing
<1>14. StartPulse' <=> wr.addr = "CTRL"
  BY <1>11, <1>13 DEF StartPulse, Number
<1>15. /\ rom' = IF wr.addr = "PROG_LEN" THEN host.prog ELSE rom
       /\ loaded' <=> loaded \/ wr.addr = "PROG_LEN"
       /\ sb' = sb
       /\ wr.addr # "PROG_LEN" => Stands
  <2>1. CASE wr.addr = "PROG_LEN"
    <3>1. LoadProgram(host.prog)
      BY <1>2, <1>3, <2>1, CoreMoves DEF Writing
    <3> QED
      BY <2>1, <3>1 DEF LoadProgram, FifoProgram
  <2>2. CASE wr.addr # "PROG_LEN"
    <3>1. Stands
      BY <1>2, <1>3, <2>2, CoreMoves DEF Writing
    <3> QED
      BY <2>2, <3>1 DEF Stands, vars, fifoVars
  <2> QED
    BY <2>1, <2>2
<1>16. ArrivedIn(w + 1, host.prog, mem', reg', rom')
  <2> DEFINE k == w + 1
  <2>1. /\ host.prog \in Seq(Instruction) /\ w \in Nat /\ k = w + 1
        /\ IsWrite(k, host.prog, wr.addr, wr.data)
    BY <1>3, <1>4, <1>9
  <2>2. MemoryTakes(k, host.prog, wr.addr, mem, mem')
    BY <1>12 DEF n, MemoryTakes
  <2>3. RegisterTakes(wr.addr, wr.data, reg, reg')
    BY <1>13 DEF RegisterTakes
  <2>4. WindowTakes(host.prog, wr.addr, rom, rom')
    BY <1>15 DEF WindowTakes
  <2> HIDE DEF k
  <2>5. ArrivedIn(k, host.prog, mem', reg', rom')
    BY <1>10, <2>1, <2>2, <2>3, <2>4, OneMoreWrite
  <2> QED
    BY <2>5 DEF k
<1>17. ScriptInv'
  <2>1. Arrived(Written)'
    BY <1>6, <1>8, <1>16 DEF Arrived
  <2>2. /\ host'.prog \in Programs
        /\ Len(host'.todo) \in 1..ScriptLen(host'.prog)
        /\ \A i \in 1..Len(host'.todo) :
             host'.todo[i] = Script(host'.prog)[ScriptLen(host'.prog) - Len(host'.todo) + i]
    BY <1>3, <1>6 DEF HostInv, ScriptInv
  <2> QED
    BY <2>1, <2>2 DEF ScriptInv
<1>18. /\ w <= 2 * n => ~loaded /\ runs < MAX_RUNS /\ CanRun(Arch, host.prog)
       /\ w > 2 * n => loaded
  BY <1>3, <1>4 DEF HostInv, RestingInv, n, m, w
<1>19. RestingInv'
  <2> SUFFICES ASSUME w + 1 < m
               PROVE  /\ sb'.accel = "IDLE" /\ ~StartPulse' /\ ~host'.over
                      /\ w + 1 <= 2 * n =>
                           ~loaded' /\ runs' < MAX_RUNS /\ CanRun(Arch', host.prog)
                      /\ w + 1 > 2 * n => loaded'
    BY <1>6, <1>8 DEF RestingInv, n, m
  <2>1. wr.addr # "CTRL"
    BY <1>4, <1>11
  <2>2. ASSUME w + 1 <= 2 * n
        PROVE  ~loaded' /\ runs' < MAX_RUNS /\ CanRun(Arch', host.prog)
    <3>1. w <= 2 * n /\ wr.addr # "PROG_LEN"
      BY <1>4, <1>11, <2>2
    <3>2. Stands
      BY <1>15, <3>1
    <3>3. Arch' = Arch /\ loaded' = loaded /\ runs' = runs
      BY <3>2 DEF Stands, vars, Arch
    <3> QED
      BY <1>18, <3>1, <3>3
  <2>3. ASSUME w + 1 > 2 * n PROVE loaded'
    <3>1. w > 2 * n \/ w = 2 * n
      BY <1>4, <2>3
    <3> QED
      BY <1>11, <1>15, <1>18, <3>1
  <2> QED
    BY <1>3, <1>6, <1>14, <1>15, <2>1, <2>2, <2>3
<1>20. StartingInv'
  <2>1. ASSUME StartPulse'
        PROVE  w + 1 = m /\ loaded'
    <3>1. w + 1 = m
      BY <1>11, <1>14, <2>1
    <3>2. w > 2 * n
      BY <1>4, <3>1
    <3> QED
      BY <1>15, <1>18, <3>1, <3>2
  <2>2. w + 1 < m \/ StartPulse'
    <3>1. w + 1 < m \/ w + 1 = m
      BY <1>4
    <3> QED
      BY <1>11, <1>14, <3>1
  <2> QED
    BY <1>3, <1>6, <1>7, <1>8, <1>15, <2>1, <2>2 DEF StartingInv, m
<1>21. RunningInv'
  BY <1>3, <1>6, <1>15 DEF RunningInv
<1> QED
  BY <1>17, <1>19, <1>20, <1>21

(* The host begins its next program. *)
LEMMA ProgramBegins ==
  ASSUME HostInv, NextProgram
  PROVE  ScriptInv' /\ RestingInv' /\ StartingInv' /\ RunningInv'
<1>1. SlaveType /\ PathInv
  BY DEF HostInv, PathInv
<1>2. PICK p \in Programs :
        /\ CanRun(Arch, p)
        /\ p \in Seq(Instruction) /\ Len(p) \in Nat
        /\ host'.phase = "write" /\ host'.todo = Script(p) /\ host'.prog = p
        /\ host'.over = FALSE
  BY <1>1, NextProgramMoves
<1>3. /\ host.phase = "free" /\ runs < MAX_RUNS /\ (POLLS => sb.accel = "IDLE")
      /\ UNCHANGED vars /\ UNCHANGED <<wr, reg, mem>>
  BY DEF NextProgram
<1>4. sb.accel = "IDLE" /\ ~StartPulse /\ ~loaded
  BY <1>3 DEF HostInv, StartingInv, RunningInv, Writes
<1>5. wr.st = "IDLE"
  BY <1>1, <1>3 DEF PathInv, SlaveType
<1>6. Len(Script(p)) = ScriptLen(p) /\ ScriptLen(p) = 2 * Len(p) + 6
  BY <1>2, ScriptWrites DEF ScriptLen
<1>7. Written' = 0 /\ Writes' /\ ScriptLen(p) \in Nat \ {0} /\ ~(0 > 2 * Len(p))
  <2>1. Written' = ScriptLen(p) - ScriptLen(p) + 0
    BY <1>2, <1>3, <1>5, <1>6 DEF Written
  <2> QED
    BY <1>2, <1>6, <2>1 DEF Writes
<1>8. ScriptInv'
  <2>1. ArrivedIn(0, p, mem', reg', rom')
    <3> DEFINE n == Len(p)
    <3>1. n \in Nat
      BY <1>2
    <3> HIDE DEF n
    <3>2. /\ \A j \in 1..n : ~(2 * j <= 0) /\ 0 # 2 * j - 1
          /\ ~(0 > 2 * n) /\ ~(0 > 2 * n + 1) /\ ~(0 > 2 * n + 2)
          /\ ~(0 > 2 * n + 3) /\ ~(0 > 2 * n + 4)
      BY <3>1
    <3> QED
      BY <3>2 DEF ArrivedIn, n
  <2>2. Arrived(Written)'
    BY <1>2, <1>7, <2>1 DEF Arrived
  <2>3. \A i \in 1..Len(Script(p)) : ScriptLen(p) - Len(Script(p)) + i = i
    BY <1>6, <1>7
  <2> QED
    BY <1>2, <1>6, <1>7, <2>2, <2>3 DEF ScriptInv
<1>9. RestingInv'
  <2>1. Arch' = Arch /\ sb' = sb /\ loaded' = loaded /\ runs' = runs
    BY <1>3 DEF vars, Arch
  <2>2. ~StartPulse'
    BY <1>3, <1>4 DEF StartPulse
  <2> QED
    BY <1>2, <1>3, <1>4, <1>7, <2>1, <2>2 DEF RestingInv
<1>10. StartingInv' /\ RunningInv'
  BY <1>2, <1>3, <1>4 DEF StartingInv, RunningInv, StartPulse, vars
<1> QED
  BY <1>8, <1>9, <1>10

LEMMA HostStep ==
  ASSUME HostInv, [HostedNext]_hostedVars
  PROVE  HostInv'
<1>1. PathInv'
  BY PathStep DEF HostInv
<1>2. CoreInv'
  BY DrivesStep, CoreStep DEF HostInv
<1>3. ScriptInv' /\ RestingInv' /\ StartingInv' /\ RunningInv'
  <2>1. CASE NextProgram
    BY <2>1, ProgramBegins
  <2>2. ASSUME NEW g \in Go, NEW h \in Bus, Clock(g, h)
        PROVE  ScriptInv' /\ RestingInv' /\ StartingInv' /\ RunningInv'
    BY <2>2, BusyCycle, OtherCycle
  <2>3. CASE UNCHANGED hostedVars
    <3>1. Written' = Written /\ Writes' = Writes /\ StartPulse' = StartPulse /\ Arch' = Arch
      BY <2>3 DEF hostedVars, vars, slaveVars, Written, Writes, StartPulse, Arch
    <3>2. \A n : ArrivedIn(n, host'.prog, mem', reg', rom')
                 <=> ArrivedIn(n, host.prog, mem, reg, rom)
      BY <2>3 DEF hostedVars, vars, fifoVars, slaveVars
    <3>3. ScriptInv'
      BY <2>3, <3>1, <3>2 DEF hostedVars, slaveVars, HostInv, ScriptInv, Arrived
    <3>4. RestingInv'
      BY <2>3, <3>1 DEF hostedVars, vars, slaveVars, HostInv, RestingInv
    <3>5. StartingInv'
      BY <2>3, <3>1 DEF hostedVars, vars, slaveVars, HostInv, StartingInv
    <3>6. RunningInv'
      BY <2>3, <3>2 DEF hostedVars, vars, slaveVars, HostInv, RunningInv, Arrived
    <3> QED
      BY <3>3, <3>4, <3>5, <3>6
  <2> QED
    BY <2>1, <2>2, <2>3 DEF HostedNext
<1> QED
  BY <1>1, <1>2, <1>3 DEF HostInv

LEMMA HostInvHolds == HostedSpec => []HostInv
<1>1. HostInv /\ [HostedNext]_hostedVars => HostInv'
  BY HostStep
<1> QED
  BY HostInit, <1>1, PTL DEF HostedSpec

(* Driven through the registers, the core behaves as Accelerator does: every
   program arrives whole, with the machine at rest, and every write of START
   starts one run. *)
THEOREM RegistersDriveAccelerator == HostedSpec => DrivesAccelerator
<1>1. HostedInit => Init
  BY DEF HostedInit
<1>2. HostInv /\ [HostedNext]_hostedVars => [Next]_vars
  BY DrivesStep
<1> QED
  BY HostInvHolds, <1>1, <1>2, PTL DEF HostedSpec, DrivesAccelerator, Spec

(* From the start of a run to its end, instruction memory and window hold the
   program the host wrote, and the base registers what it configured. *)
THEOREM ProgramStaysInPlace == HostedSpec => []ProgramInPlace
<1>1. HostInv => ProgramInPlace
  <2> SUFFICES ASSUME HostInv, StartPulse \/ sb.accel = "BUSY"
               PROVE  /\ Visible(mem, reg["PROG_LEN"].num) = host.prog /\ rom = host.prog
                      /\ \A k \in Base : reg[BaseRegister[k]].num = CSR[k]
    BY DEF ProgramInPlace
  <2>1. Arrived(ScriptLen(host.prog))
    BY DEF HostInv, ScriptInv, StartingInv, RunningInv
  <2> DEFINE n == Len(host.prog)
             m == ScriptLen(host.prog)
  <2>2. host.prog \in Seq(Instruction)
    BY DEF HostInv, PathInv, SlaveType
  <2>3. n \in Nat /\ m = 2 * n + 6
    BY <2>2 DEF ScriptLen
  <2>4. /\ \A j \in 1..n : 2 * j <= m => mem[j - 1] = host.prog[j]
        /\ m > 2 * n => reg["PROG_LEN"].num = n /\ rom = host.prog
        /\ m > 2 * n + 1 => reg["SRC_ADDR"].num = CSR[BASE_ACT]
        /\ m > 2 * n + 2 => reg["DST_ADDR"].num = CSR[BASE_OUT]
        /\ m > 2 * n + 3 => reg["WEIGHT_ADDR"].num = CSR[BASE_WGT]
        /\ m > 2 * n + 4 => reg["BIAS_ADDR"].num = CSR[BASE_BIAS]
    BY <2>1 DEF Arrived, ArrivedIn
  <2>5. host.prog = [j \in 1..n |-> host.prog[j]]
    BY <2>2
  <2> HIDE DEF n, m
  <2>6. /\ \A j \in 1..n : mem[j - 1] = host.prog[j]
        /\ reg["PROG_LEN"].num = n /\ rom = host.prog
        /\ reg["SRC_ADDR"].num = CSR[BASE_ACT] /\ reg["DST_ADDR"].num = CSR[BASE_OUT]
        /\ reg["WEIGHT_ADDR"].num = CSR[BASE_WGT] /\ reg["BIAS_ADDR"].num = CSR[BASE_BIAS]
    BY <2>3, <2>4
  <2>7. Visible(mem, reg["PROG_LEN"].num) = host.prog
    BY <2>5, <2>6 DEF Visible
  <2>8. \A k \in Base : reg[BaseRegister[k]].num = CSR[k]
    BY <2>6 DEF BaseRegister, Base, BASE_WGT, BASE_ACT, BASE_BIAS, BASE_OUT
  <2> QED
    BY <2>6, <2>7, <2>8
<1> QED
  BY HostInvHolds, <1>1, PTL

(* Once the host has seen done, no engine works until the next start. *)
THEOREM DoneStaysQuiet == HostedSpec => []DoneMeansQuiet
<1>1. HostInv => DoneMeansQuiet
  <2> SUFFICES ASSUME HostInv, host.over, ~StartPulse
               PROVE  /\ ~Busy /\ rdm.st = "IDLE" /\ wrm.st = "IDLE" /\ vec.left = 0
                      /\ arr.pm # "RUNNING"
    BY DEF DoneMeansQuiet
  <2>1. CoreInv /\ sb.accel = "IDLE"
    BY DEF HostInv, RunningInv
  <2>2. ~Busy
    BY <2>1, QuietCore
  <2> QED
    BY <2>1, <2>2 DEF CoreInv, EndsAtRest
<1> QED
  BY HostInvHolds, <1>1, PTL

(* A host that watches the done wire instead of polling BUSY is never ahead of
   the core: when it is free again the run is over. *)
THEOREM WatchingDoneIsSafe ==
  ASSUME ~POLLS
  PROVE  HostedSpec => []IdleWhenNotBusy
<1>1. HostInv => IdleWhenNotBusy
  BY DEF HostInv, RunningInv, IdleWhenNotBusy
<1> QED
  BY HostInvHolds, <1>1, PTL

(* What is proved of the core holds of it behind its registers. *)
THEOREM HostedCoreKeepsItsPromises ==
  HostedSpec => /\ []TypeOK /\ []WindowOrdered /\ []NoOvertake
                /\ []EnginesTracked /\ []BuffersOwned /\ []BurstsComplete
                /\ []EndsAtRest /\ OperandsStable
<1>1. HostedSpec => Spec
  BY RegistersDriveAccelerator DEF DrivesAccelerator
<1>2. Spec => []TypeOK /\ []WindowOrdered /\ []NoOvertake
  BY TypeCorrect, WindowStaysOrdered, NeverOvertakes
<1>3. Spec => /\ []EnginesTracked /\ []BuffersOwned /\ []BurstsComplete
              /\ []EndsAtRest /\ OperandsStable
  BY EnginesStayTracked, BuffersStayOwned, BurstsAreComplete, RunsEndAtRest,
     OperandsStayStable
<1> QED
  BY <1>1, <1>2, <1>3
=============================================================================
