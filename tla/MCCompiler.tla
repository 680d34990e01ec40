----------------------------- MODULE MCCompiler -----------------------------
(***************************************************************************)
(* Models to compile.  x is the input, w and v are initializers, k *)
(* is the output of a Constant node and a, b, ... are computed.            *)
(***************************************************************************)
EXTENDS Compiler, KahnSort

Names == {"x", "w", "v", "k", "a", "b", "c", "d", "e", "f"}

N(op, in, out) == [op |-> op, in |-> in, out |-> out]
Bytes0 == [n \in Names |-> CASE n \in {"x", "b", "e"} -> 1
                             [] n \in {"w", "k", "a", "c"} -> 3
                             [] OTHER -> 2]
Bytes1 == [n \in Names |-> IF n \in {"a", "e", "v"} THEN 1 ELSE 4 - Bytes0[n]]
AllStatic == [n \in Names |-> "static"]
AllFloat == [n \in Names |-> "float32"]

Graph(inputs, inits, outputs, nodes) ==
  [inputs |-> inputs, inits |-> inits, outputs |-> outputs, nodes |-> nodes,
   bytes |-> Bytes0, shape |-> AllStatic, dtype |-> AllFloat, coincide |-> {},
   unreadable |-> {}]
-----------------------------------------------------------------------------
(* Three nodes of every class, each reading anything before it; inference
   leaves the shape of the second open. *)
Reading(before, out) ==
  {N("Conv", <<m>>, <<out>>) : m \in before}
    \cup {N("Conv", <<m, n>>, <<out>>) : m, n \in before}
    \cup {N("Slice", <<m, n>>, <<out>>) : m, n \in before}
    \cup {N("Shape", <<m>>, <<out>>) : m \in before}
First == {N("Conv", <<"x", "w">>, <<"a">>), N("Shape", <<"x">>, <<"a">>),
          N("Constant", <<>>, <<"a">>), N("Slice", <<"x", "w">>, <<"a">>)}

SmallGraphs ==
  {[Graph(<<"x">>, <<"w">>, outs, <<p, q, r>>) EXCEPT !.shape["b"] = "dynamic"] :
     outs \in {<<"c">>, <<"b", "c">>},
     p \in First, q \in Reading({"x", "w", "a"}, "b"), r \in Reading({"w", "a", "b"}, "c")}

(* Graphs at the edges: what is refused, and what the passes treat specially
   (absent optional inputs and outputs, an initializer that is also listed as
   an input, an initializer or an input that is also an output). *)
OddGraphs ==
  {Graph(<<"x">>, <<>>, <<"a">>, <<N("Unknown", <<"x">>, <<"a">>)>>),
   Graph(<<"x">>, <<>>, <<"b">>, <<N("Conv", <<"a">>, <<"b">>), N("Conv", <<"x">>, <<"a">>)>>),
   Graph(<<"x">>, <<>>, <<"a">>, <<N("Conv", <<"a">>, <<"a">>)>>),
   Graph(<<"x", "d">>, <<"w">>, <<"b">>,
         <<N("Conv", <<"x", "d">>, <<"a">>), N("Slice", <<"a", "w">>, <<"b">>)>>),
   [Graph(<<"x", "d">>, <<>>, <<"b">>,
          <<N("Conv", <<"x", "d">>, <<"a">>), N("Conv", <<"a">>, <<"b">>)>>)
      EXCEPT !.shape["a"] = "dynamic"],
   Graph(<<"x", "w">>, <<"w", "v">>, <<"c">>,
         <<N("Conv", <<"x", "w", "v">>, <<"a", ABSENT>>),
           N("Slice", <<"a", ABSENT, "w">>, <<"b">>), N("Conv", <<"b">>, <<"c">>)>>),
   Graph(<<"x">>, <<"w">>, <<"a", "w">>, <<N("Conv", <<"x">>, <<"a">>)>>),
   Graph(<<"x">>, <<"w">>, <<"a", "w">>, <<N("Conv", <<"x", "w">>, <<"a">>)>>),
   Graph(<<"x">>, <<>>, <<"a", "x">>, <<N("Conv", <<"x">>, <<"a">>)>>),
   Graph(<<"x">>, <<>>, <<"a", "k">>,
         <<N("Constant", <<>>, <<"k">>), N("Conv", <<"x", "k">>, <<"a">>)>>)}

(* Tensors of types and shapes that the extractor cannot size, parameters and
   constants among them, and what it takes for a scalar. *)
Chain(inits, nodes) ==
  Graph(<<"x">>, inits, <<"c">>,
        nodes \o <<N("Conv", <<"x", "v", "k">>, <<"a">>), N("Conv", <<"a">>, <<"b">>),
                    N("Conv", <<"b">>, <<"c">>)>>)
WithConstant == Chain(<<"v">>, <<N("Constant", <<>>, <<"k">>)>>)
WithInitializers == Chain(<<"k", "v">>, <<>>)
UnsizedGraphs ==
  {[WithConstant EXCEPT !.dtype[n] = "unknown", !.shape[n] = s] :
     n \in {"v", "k", "a", "b", "c"}, s \in ShapeClass}
    \cup {[WithConstant EXCEPT !.dtype[n] = t, !.shape[n] = s] :
            n \in {"k", "b"}, t \in {"float32", "int64"}, s \in {"unranked", "missing"}}
    \cup {[g EXCEPT !.dtype["k"] = "unknown"] : g \in {WithConstant, WithInitializers}}
    \cup {[WithConstant EXCEPT !.unreadable = {"k"}, !.dtype[n] = "unknown"] : n \in {"v", "a"}}
    \cup {[Graph(<<"x">>, <<"w">>, <<"b">>,
                 <<N("Conv", <<"x">>, <<"a">>), N(op, <<"a", "w">>, <<"b">>)>>)
             EXCEPT !.dtype["x"] = "int64"] : op \in {"Conv", "Slice"}}

(* A parameter computed from pixels whose value is the same for the two random
   inputs (a threshold that neither exceeds, the length of a list that is full
   in both). *)
CoincidingGraph ==
  [Graph(<<"x">>, <<"w">>, <<"c">>,
         <<N("Conv", <<"x">>, <<"a">>), N("Conv", <<"a", "w">>, <<"b">>),
           N("Slice", <<"x", "b">>, <<"c">>)>>) EXCEPT !.coincide = {"b"}]

(* Three nodes wired in any way: later nodes, cycles, the same tensor twice;
   in one family the first node has two outputs. *)
Anything == {<<"x">>, <<"a">>, <<"c">>} \cup ({"a", "b", "c"} \X {"a", "b", "d"})
LooseGraphs ==
  {Graph(<<"x">>, <<>>, <<"c">>,
         <<N("Conv", p, first), N("Conv", q, <<"b">>), N("Conv", r, <<"c">>)>>) :
     p \in Anything, q \in Anything, r \in Anything, first \in {<<"a">>, <<"a", "d">>}}

Models == SmallGraphs \cup OddGraphs \cup UnsizedGraphs \cup LooseGraphs \cup {CoincidingGraph}
ASSUME ModelsPassTheChecker == \A g \in Models : OnnxModel(g)

CompileInit ==
  /\ graph \in Models
  /\ CompilerStart
CompileSpec == CompileInit /\ CompilerBehavior

(* A chain in which shape inference says nothing about one tensor, as when it
   fails and LoadedModel carries on, and another has a static shape and a type
   that has no entry in the table of element sizes. *)
UnresolvedSpec ==
  /\ graph = [WithConstant EXCEPT !.shape["a"] = "missing", !.dtype["b"] = "unknown"]
  /\ CompilerSpec
=============================================================================
