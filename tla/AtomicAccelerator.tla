------------------------- MODULE AtomicAccelerator --------------------------
(***************************************************************************)
(* What the accelerator promises its host: the host submits a program that *)
(* is legal in the present architectural state, the program runs, and when *)
(* the run is over the state is the one the in-order machine of sim.py     *)
(* computes, whatever was reordered or overlapped on the way.              *)
(***************************************************************************)
EXTENDS InOrderMachine

VARIABLES
  arch,   \* architectural state at the last moment no run was under way
  job,    \* what became of the program submitted last
  prog    \* that program

atomicVars == <<arch, job, prog>>

Init ==
  /\ arch = PowerUp
  /\ job = "NONE"
  /\ prog = <<>>

(* Any program that is legal in the present state may be submitted. *)
Submit ==
  /\ job = "NONE"
  /\ prog' \in Seq(Instruction)
  /\ CanRun(arch, prog')
  /\ job' = "QUEUED"
  /\ UNCHANGED arch

Begin ==
  /\ job = "QUEUED"
  /\ job' = "RUNNING"
  /\ UNCHANGED <<arch, prog>>

Finish ==
  /\ job = "RUNNING"
  /\ job' = "NONE"
  /\ arch' = Outcome(arch, prog)
  /\ UNCHANGED prog

Next == Submit \/ Begin \/ Finish

Spec == Init /\ [][Next]_atomicVars
=============================================================================
