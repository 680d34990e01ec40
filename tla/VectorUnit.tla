----------------------------- MODULE VectorUnit -----------------------------
(***************************************************************************)
(* The numbers of one output lane, as sim.py and vector_unit.sv compute    *)
(* them: bias, requantisation, saturation to eight bits, activation.       *)
(***************************************************************************)
EXTENDS Integers

CONSTANT SILU_LUT             \* the activation table: 0..255 -> -128..127

ASSUME VectorAssumption == SILU_LUT \in [0..255 -> -128..127]

ActType == {"NONE", "RELU", "SILU"}

Clamp8(v) == IF v > 127 THEN 127 ELSE IF v < -128 THEN -128 ELSE v

(* \div rounds down, like the arithmetic shift of a negative number. *)
Requantize(sum, mult, shift) == Clamp8((sum * mult) \div 2^shift)

Activate(r, act) ==
  CASE act = "NONE" -> r
    [] act = "RELU" -> IF r < 0 THEN 0 ELSE r
    [] act = "SILU" -> SILU_LUT[r % 256]

Lane(acc, bias, vec) == Activate(Requantize(acc + bias, vec.mult, vec.shift), vec.act)
=============================================================================
