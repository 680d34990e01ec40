------------------------------- MODULE MCReset ------------------------------
(* The small accelerator of MCAccelerator, with soft_reset. *)
EXTENDS AcceleratorReset

SmallCSR == [k \in Base |-> CASE k = BASE_WGT  -> 0
                              [] k = BASE_ACT  -> 4
                              [] k = BASE_BIAS -> 8
                              [] k = BASE_OUT  -> 10]

(* One output row; weights and a bias without a MATMUL. *)
Row0 ==
  <<LOAD_ACT(0, 0, 0), LOAD_WGT(0, 1), LOAD_BIAS(0, 0), SWAP_WGT,
    MATMUL(0, 0, "NONE"), VECTOR(0, 0), STORE(0, 0, 0)>>
LoadsOnly == <<LOAD_WGT(0, 1), LOAD_ACT(1, 0, 1), SET_BASE(BASE_ACT, 1), SWAP_WGT>>

ResetPrograms == {Row0, LoadsOnly}
=============================================================================
