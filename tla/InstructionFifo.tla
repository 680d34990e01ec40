-------------------------- MODULE InstructionFifo ---------------------------
(***************************************************************************)
(* instruction_fifo_window: the instruction memory, its fetch pointer and  *)
(* the window of instructions the scheduler may pick from.                 *)
(*                                                                         *)
(* The hardware's window holds instruction words.  Here an entry is the    *)
(* address the word was fetched from: Fetch gives the word back, because   *)
(* the memory is rewritten only between runs (LoadProgram), and addresses  *)
(* make program order visible.  INSTR_DEPTH stands for "past the end".     *)
(***************************************************************************)
EXTENDS AcceleratorIsa

CONSTANTS
  WINDOW_SIZE,   \* INSTR_WINDOW_SIZE
  INSTR_DEPTH    \* instruction memory entries

VARIABLES
  rom,       \* the program: rom[1..prog_len]
  window,    \* addresses of the WINDOW_SIZE candidate instructions
  fetchPtr   \* next address to fetch

fifoVars == <<rom, window, fetchPtr>>

ASSUME FifoAssumption ==
  /\ WINDOW_SIZE \in Nat \ {0}
  /\ INSTR_DEPTH \in Nat
  /\ WINDOW_SIZE <= INSTR_DEPTH

Slot == 1..WINDOW_SIZE

(* Anything at or past prog_len, or past the memory, reads as OP_END. *)
Fetch(p) == IF p < Len(rom) THEN rom[p + 1] ELSE END

FifoInit ==
  /\ rom = <<>>
  /\ window = [k \in Slot |-> INSTR_DEPTH]
  /\ fetchPtr = 0

(* The host writes a program of at most INSTR_DEPTH words. *)
FifoProgram(prog) ==
  /\ rom' = prog
  /\ UNCHANGED <<window, fetchPtr>>

(* Mutant: the fetch pointer starts one word early. *)
FifoRestartEarly ==
  /\ window' = [k \in Slot |-> k - 1]
  /\ fetchPtr' = WINDOW_SIZE - 1
  /\ UNCHANGED rom

(* Mutant: a second start does not rewind the fetch pointer. *)
FifoRestartOnce ==
  /\ window' = [k \in Slot |-> k - 1]
  /\ fetchPtr' = IF fetchPtr = 0 THEN WINDOW_SIZE ELSE fetchPtr
  /\ UNCHANGED rom

FifoRestart ==
  /\ window' = [k \in Slot |-> k - 1]
  /\ fetchPtr' = WINDOW_SIZE
  /\ UNCHANGED rom

(* Mutant: the fetch pointer runs past the end of the memory. *)
FifoPopUnbounded(k) ==
  /\ window' = [j \in Slot |-> IF j = WINDOW_SIZE THEN fetchPtr
                               ELSE IF j >= k THEN window[j + 1]
                               ELSE window[j]]
  /\ fetchPtr' = fetchPtr + 1
  /\ UNCHANGED rom

(* Entries younger than slot k move up; the fetch pointer saturates. *)
FifoPop(k) ==
  /\ window' = [j \in Slot |-> IF j = WINDOW_SIZE THEN fetchPtr
                               ELSE IF j >= k THEN window[j + 1]
                               ELSE window[j]]
  /\ fetchPtr' = IF fetchPtr < INSTR_DEPTH THEN fetchPtr + 1 ELSE fetchPtr
  /\ UNCHANGED rom

FifoHold == UNCHANGED fifoVars

FifoTypeOK ==
  /\ rom \in Seq(Instruction)
  /\ Len(rom) <= INSTR_DEPTH
  /\ window \in [Slot -> 0..INSTR_DEPTH]
  /\ fetchPtr \in 0..INSTR_DEPTH

(* Instructions that left the window. *)
Issued == {p \in 0..fetchPtr - 1 : \A k \in Slot : window[k] # p}
=============================================================================
