--------------------------- MODULE MCGemmCompiler ---------------------------
(***************************************************************************)
(* A 2 x 2 array; sizes up to two row tiles, three tiles of K and two of N *)
(* with full and ragged edges.  One data set stays within eight bits, the  *)
(* other saturates in both directions.                                     *)
(***************************************************************************)
EXTENDS TiledGemm

SmallSizes == [M : {1, 3}, K : {1, 2, 3, 6}, N : {1, 2, 3}]
MCCsr == [k \in Base |-> 0]

(* Any table will do: the model's own is injective and not monotonic. *)
MCSilu == [x \in 0..255 |-> ((x * 77 + 5) % 256) - 128]

MatrixOf(Val(_, _)) == [r \in 0..5 |-> [c \in 0..5 |-> Val(r, c)]]
Exact ==
  [A |-> MatrixOf(LAMBDA r, c : ((3 * r + 5 * c) % 7) - 2),
   B |-> MatrixOf(LAMBDA r, c : ((2 * r + 3 * c) % 5) - 1),
   bias |-> [c \in 0..5 |-> c - 1], vec |-> [mult |-> 1, shift |-> 0, act |-> "NONE"]]
Saturating ==
  [A |-> MatrixOf(LAMBDA r, c : ((r + 2 * c) % 3) - 1),
   B |-> MatrixOf(LAMBDA r, c : 127 - 50 * ((r + c) % 5)),
   bias |-> [c \in 0..5 |-> 60 * c - 90], vec |-> [mult |-> 3, shift |-> 1, act |-> "RELU"]]
Activated == [Saturating EXCEPT !.vec.act = "SILU"]
MCData == {Exact, Saturating, Activated}
=============================================================================
