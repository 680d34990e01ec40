-------------------------- MODULE AcceleratorReset --------------------------
(***************************************************************************)
(* The accelerator under soft_reset, the CTRL bit the host may set at any  *)
(* moment.  It clears the control unit and rewinds the instruction window, *)
(* but reaches neither the AXI masters nor the systolic array nor the      *)
(* vector unit: what they are doing goes on.                               *)
(***************************************************************************)
EXTENDS Accelerator

CONSTANT MAX_RESETS   \* bound: soft_reset cycles in one behaviour

ASSUME ResetAssumption == MAX_RESETS \in Nat

VARIABLES
  resets,   \* soft_reset cycles so far
  fresh     \* history: reset while nothing was going on, nothing started since

resetVars == <<vars, resets, fresh>>

InitR == Init /\ resets = 0 /\ fresh = TRUE

(* No run in progress and every engine still. *)
AtRest ==
  /\ sb.accel = "IDLE"
  /\ rdm.st = "IDLE"
  /\ wrm.st = "IDLE" /\ ~wrm.done
  /\ ~arr.rdv /\ arr.pm # "RUNNING"
  /\ vec.left = 0

(* Mutant: array_wgt_valid survives the reset. *)
SoftResetKeepsWeights(g) ==
  /\ resets < MAX_RESETS
  /\ resets' = resets + 1
  /\ FifoRestart
  /\ sb' = [ResetScoreboard EXCEPT !.wgtValid = sb.wgtValid]
  /\ bk' = ResetBookkeeping
  /\ Datapath(OnTheWires, g)
  /\ fresh' = AtRest
  /\ UNCHANGED <<loaded, runs, snap>>

(* A cycle with soft_reset high.  The registers of control_unit are cleared
   in spite of an issue or a completion in the same cycle; the start pulses
   of the issue still reach the engines. *)
SoftReset(g) ==
  /\ resets < MAX_RESETS
  /\ resets' = resets + 1
  /\ FifoRestart
  /\ sb' = ResetScoreboard
  /\ bk' = ResetBookkeeping
  /\ Datapath(OnTheWires, g)
  /\ fresh' = AtRest
  /\ UNCHANGED <<loaded, runs, snap>>

Reset == \E g \in Go : SoftReset(g)

Proceed == Next /\ UNCHANGED resets /\ fresh' = (fresh /\ sb'.accel = "IDLE")

NextR == Proceed \/ Reset

SpecR == InitR /\ [][NextR]_resetVars

-----------------------------------------------------------------------------
(* After a soft_reset taken at rest the scoreboard is as fresh as after
   power-up until the next run starts.  This is what tiling.py's multi-run
   scheme relies on ("a fresh accelerator scoreboard state ..., which is
   exactly what a real soft_reset (or power-up) does"). *)
FreshScoreboard == fresh => sb = ResetScoreboard

(* Beats of a burst that soft_reset left under way are accepted by the load
   that is issued next (its own start pulse is lost on the busy master); at
   least they never run past that load's own beats. *)
BeatsWithinBurst == bk.ldCnt <= bk.ldTotal /\ bk.stCnt <= bk.stTotal

(* What holds of it: the reset is complete when the array's completion level
   (perf_valid, which soft_reset does not clear) is low. *)
FreshUnlessArrayDone ==
  fresh /\ arr.pm # "DONE" => sb = ResetScoreboard
=============================================================================
