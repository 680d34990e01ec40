------------------------------ MODULE KahnSort ------------------------------
(***************************************************************************)
(* topological_sort of extractor/graph.py: Kahn's algorithm over the nodes *)
(* of an ONNX graph in any stored order.  s is the state of its loop: the  *)
(* in-degrees, the queue and the order so far.                             *)
(***************************************************************************)
EXTENDS Extractor

Adj(g, i) == {j \in DOMAIN g.nodes : i \in Dependencies(g, j)}

(* Mutant: a node waits once for every input that is computed. *)
IndegreePerRead(g, i) ==
  Cardinality({k \in DOMAIN g.nodes[i].in : ProducersOf(g, g.nodes[i].in[k]) # {}})

(* A node waits once for a producer however often it reads it. *)
Indegree(g, i) == Cardinality(Dependencies(g, i))

SortStart(g) ==
  [indegree |-> [i \in DOMAIN g.nodes |-> Indegree(g, i)],
   queue |-> Ascending({i \in DOMAIN g.nodes : Indegree(g, i) = 0}),
   order |-> <<>>]

(* One round of the loop; the successors that become free join the queue. *)
PopLeft(g, s) ==
  IF s.queue = <<>> THEN s
  ELSE LET i == Head(s.queue)
       IN  [indegree |-> [j \in DOMAIN s.indegree |->
                            IF j \in Adj(g, i) THEN s.indegree[j] - 1 ELSE s.indegree[j]],
            queue |-> Tail(s.queue) \o Ascending({j \in Adj(g, i) : s.indegree[j] = 1}),
            order |-> Append(s.order, i)]

(* The order the loop ends with; a shorter one than the graph is an error. *)
SortedOrder(g) ==
  LET after[k \in 0..Len(g.nodes)] ==
        IF k = 0 THEN SortStart(g) ELSE PopLeft(g, after[k - 1])
  IN  after[Len(g.nodes)].order
SortRejects(g) == Len(SortedOrder(g)) < Len(g.nodes)
-----------------------------------------------------------------------------
(* What the sort is measured against: a graph is cyclic when it has a set of
   nodes each of which waits for another one of the set. *)
Cyclic(g) ==
  \E S \in (SUBSET DOMAIN g.nodes) \ {{}} : \A i \in S : Dependencies(g, i) \cap S # {}

(* It emits no node twice and none before what it depends on, it rejects
   exactly the cyclic graphs, and it never rejects a stored order that the
   compiler's own check accepts. *)
SortsExactly(g) ==
  LET order == SortedOrder(g)
  IN  /\ \A j, k \in DOMAIN order : j # k => order[j] # order[k]
      /\ \A k \in DOMAIN order : Dependencies(g, order[k]) \subseteq {order[j] : j \in 1..k - 1}
      /\ SortRejects(g) <=> Cyclic(g)
      /\ StoredOrderValid(g) => ~SortRejects(g)

(* topological_sort, "an independent cross-check of the graph's structure",
   agrees with the order check that extract runs instead: on every graph it
   emits dependencies first and nothing twice, and fails on cycles only. *)
SortAgrees == stage = "order" => SortsExactly(graph)
=============================================================================
