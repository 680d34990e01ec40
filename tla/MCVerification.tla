--------------------------- MODULE MCVerification ---------------------------
(***************************************************************************)
(* A program of three instructions, one with two outputs; the order of the *)
(* ids is not the order of execution, and in half of the tables the names  *)
(* /a and _a share a reference file.                                       *)
(***************************************************************************)
EXTENDS Verification

T(id, name, producer, dtype, known) ==
  [id |-> id, name |-> name, producer |-> producer, dtype |-> dtype, shapeKnown |-> known]

Program == <<[in |-> <<"i">>, out |-> <<"t0", "t2">>],
             [in |-> <<"t0">>, out |-> <<"t3">>],
             [in |-> <<"t2", "t3">>, out |-> <<"t1">>]>>
Table(name, dtype, known) ==
  <<T("i", <<"x">>, 0, "float32", TRUE),
    T("t0", <<"/", "a">>, 1, "float32", TRUE), T("t1", <<"d">>, 3, dtype, TRUE),
    T("t2", name, 1, "int64", TRUE), T("t3", <<"/", "c">>, 2, "float32", known)>>

ModelStart ==
  /\ program = Program
  /\ table \in {Table(name, d, k) : name \in {<<"/", "b">>, <<"_", "a">>},
                                  d \in {"float32", "float16"}, k \in BOOLEAN}
  /\ faulty \in SUBSET {1, 2, 3}

MCInit == ModelStart /\ Start
MCSpec == MCInit /\ [][Next]_vars /\ Fairness
=============================================================================
