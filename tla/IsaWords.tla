------------------------------ MODULE IsaWords ------------------------------
(***************************************************************************)
(* Instruction words: encode and decode of isa.py.  A 32-bit word is a     *)
(* pair of halves, <<opcode|src|dst|addr, length|accum_ctrl|reserved>>.    *)
(***************************************************************************)
EXTENDS AcceleratorIsa

Opcodes == <<"NOP", "LOAD_WGT", "LOAD_ACT", "LOAD_BIAS", "MATMUL", "VECTOR",
             "STORE", "SWAP_WGT", "END", "SET_BASE">>
AccumCtrl == <<"NONE", "INIT", "ADD", "LAST">>

Code(s, x) == (CHOOSE k \in DOMAIN s : s[k] = x) - 1

(* The fields of the word.  SET_BASE spreads its immediate over the fields
   from addr down and names its base in dst. *)
Fields(i) ==
  IF i.op = "SET_BASE"
  THEN [src |-> 0, dst |-> i.base, addr |-> (i.imm \div 65536) % 256,
        len |-> (i.imm \div 256) % 256, ctrl |-> (i.imm \div 64) % 4, reserved |-> i.imm % 64]
  ELSE [src |-> i.src, dst |-> i.dst, addr |-> i.addr,
        len |-> i.len, ctrl |-> Code(AccumCtrl, i.ctrl), reserved |-> 0]

Encode(i) ==
  LET f == Fields(i)
  IN  <<Code(Opcodes, i.op) * 4096 + f.src * 1024 + f.dst * 256 + f.addr,
        f.len * 256 + f.ctrl * 64 + f.reserved>>

(* set_base_offset *)
SetBaseOffset(w) == (w[1] % 256) * 65536 + w[2]

(* Opcode() raises on a code that is not listed. *)
Decode(w) ==
  LET op == Opcodes[(w[1] \div 4096) + 1]
      dst == (w[1] \div 256) % 4
  IN  IF op = "SET_BASE" THEN SET_BASE(dst, SetBaseOffset(w))
      ELSE [Blank EXCEPT !.op = op, !.src = (w[1] \div 1024) % 4, !.dst = dst,
                         !.addr = w[1] % 256, !.len = w[2] \div 256,
                         !.ctrl = AccumCtrl[((w[2] \div 64) % 4) + 1]]
=============================================================================
