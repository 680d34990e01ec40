------------------------------ MODULE MCPlanner -----------------------------
(***************************************************************************)
(* Tables of five activation tensors whose lifetimes nest, chain, overlap  *)
(* and never end; in one family an instruction has two outputs.  Sizes are *)
(* 1 and 3 bytes, one of them possibly 0, on a boundary of 2: blocks are   *)
(* of 0, 2 and 4 bytes, are split and are reused in parts.                 *)
(***************************************************************************)
EXTENDS MemoryPlanner

Producers == {<<1, 2, 3, 4, 5>>, <<1, 1, 2, 3, 3>>}

(* Only the last consumer of a tensor matters to the planner. *)
Lifetime == {1, 2, 4, NONE}
Users(p, life) == IF life = NONE THEN {} ELSE {p + life}

Activation(p, size, life) ==
  [kind |-> "ACTIVATION", region |-> "ACTIVATION", size |-> size,
   static |-> TRUE, producer |-> p, consumers |-> Users(p, life)]

MCInit ==
  /\ \E ps \in Producers, sizes \in [1..4 -> {1, 3}], zero \in {0, 2, 3},
        lives \in [1..4 -> Lifetime] :
       tensors = [i \in 1..5 |->
                    IF i = 5 THEN Activation(ps[i], 3, NONE)
                    ELSE Activation(ps[i], IF i = zero THEN 0 ELSE sizes[i], lives[i])]
  /\ PlanInit
MCSpec == MCInit /\ [][PlanNext]_planVars
=============================================================================
