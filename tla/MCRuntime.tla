------------------------------ MODULE MCRuntime -----------------------------
(***************************************************************************)
(* Models to compile and run: lifetimes nest and chain, so that memory is  *)
(* reused in whole and in part.                                            *)
(***************************************************************************)
EXTENDS Runtime, MCCompiler

(* Two initializers and a constant of different sizes, a node
   with two outputs, then three nodes that each read one or two of the tensors
   before them, so that lifetimes nest and chain and memory is reused. *)
Reads(before, out) ==
  {N("Conv", <<m>>, <<out>>) : m \in before}
    \cup {N("Conv", <<s[1], s[2]>>, <<out>>) :
            s \in {t \in before \X before : t[1] # t[2]}}

RunGraphs ==
  {[Graph(<<"x">>, <<"w", "v">>, outs,
          <<N("Constant", <<>>, <<"k">>), N("Conv", <<"x", "w", "v">>, <<"a">>),
            N("Conv", <<"a">>, <<"b", "c">>), p, q, r>>) EXCEPT !.bytes = size] :
     size \in {Bytes0, Bytes1}, outs \in {<<"f">>, <<"f", "c">>},
     p \in {N("Conv", <<m, "k">>, <<"d">>) : m \in {"x", "a", "b", "c"}}
             \cup {N("Slice", <<"c", "k">>, <<"d">>)},
     q \in Reads({"a", "c", "d"}, "e"), r \in Reads({"b", "d", "e"}, "f")}

(* An instruction in the middle that no kernel takes, as its kernel does not
   know the attributes or the type, or there is none. *)
Middle(op) == Graph(<<"x">>, <<"w">>, <<"c">>,
                    <<N("Shape", <<"x">>, <<"d">>), N("Conv", <<"d", "x", "w">>, <<"a">>),
                      N(op, <<"a">>, <<"b">>), N("Conv", <<"b", "d">>, <<"c">>)>>)
StoppingGraphs ==
  {Middle("NMS"), Middle("Ellipsis")}
    \cup {[Middle("Clip") EXCEPT !.dtype[n] = "int64"] : n \in {"a", "b"}}

(* Models that onnxruntime does not run on one array of float32: compiling one
   without parameters and open shapes does not need it to. *)
UnrunGraphs ==
  {Graph(<<"x", "e">>, <<"w">>, <<"a">>, <<N("Conv", <<"x", "e", "w">>, <<"a">>)>>),
   [Middle("Conv") EXCEPT !.dtype["x"] = "int64"],
   Graph(<<>>, <<"w">>, <<"a">>, <<N("Conv", <<"w">>, <<"a">>)>>)}

(* The hypotheses of the theorems of CompilerProofs and RuntimeProofs hold of
   these graphs. *)
ASSUME RunModelsPassTheChecker ==
  /\ \A g \in RunGraphs \cup StoppingGraphs \cup UnrunGraphs :
       OnnxModel(g) /\ \A n \in Name : Sized(g, n)
  /\ \A g \in RunGraphs \cup StoppingGraphs : Runs(g)
  /\ \A g \in UnrunGraphs : ~Runs(g)

RunInit == graph \in RunGraphs \cup StoppingGraphs \cup UnrunGraphs /\ Init
RunSpec == RunInit /\ [][Next]_allVars /\ Fairness
=============================================================================
