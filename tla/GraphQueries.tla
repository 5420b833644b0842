---------------------------- MODULE GraphQueries ----------------------------
(***************************************************************************)
(* Graphs, shortest-path queries and their answers (grafo/src/graph.rs),   *)
(* and the reference definition of the answer.                             *)
(*                                                                         *)
(* A node is its index.  Costs are exact up to MaxCost and infinite        *)
(* beyond; the rounding of f64 is left out.                                *)
(***************************************************************************)
EXTENDS Integers, Sequences, FiniteSets, FiniteSetsExt

CONSTANTS
    MaxCost,  \* the largest finite cost (f64::MAX)
    Query     \* the queries asked: graph, from, to, accepted

Infinite == MaxCost + 1
Cost     == 0..Infinite

Plus(c, w) == IF c + w > MaxCost THEN Infinite ELSE c + w

Nodes(g) == DOMAIN g.out

(* index is node_index, out[u] the edges of the node u in the order of the *)
(* arrays; accepted holds the nodes whose attributes the filter accepts.   *)
ASSUME QueryAssumption ==
    /\ MaxCost \in Nat
    /\ \A q \in Query :
          /\ q.graph.out \in Seq(Seq([to : Nodes(q.graph), weight : 0..MaxCost]))
          /\ q.graph.index \in [DOMAIN q.graph.index -> Nodes(q.graph)]

Option(S) == {{}} \cup {{x} : x \in S}

Answer == [kind : {"unknown", "none", "overflow", "panic"}]
          \cup [kind : {"cost"}, cost : 0..MaxCost]

Unknown       == [kind |-> "unknown"]
None          == [kind |-> "none"]
Panic         == [kind |-> "panic"]
CostAnswer(c) == IF c = Infinite THEN [kind |-> "overflow"]
                                 ELSE [kind |-> "cost", cost |-> c]

-----------------------------------------------------------------------------
Known(q)    == {q.from, q.to} \subseteq DOMAIN q.graph.index
Source(q)   == q.graph.index[q.from]
Target(q)   == q.graph.index[q.to]
Admitted(q) == {Source(q), Target(q)} \subseteq q.accepted

(* A query that needs a search. *)
Searchable(q) == Known(q) /\ Admitted(q) /\ Source(q) # Target(q)

(* The answer to another query, found before any search. *)
Immediate(q) == IF ~Known(q) THEN Unknown
                ELSE IF ~Admitted(q) THEN None
                ELSE CostAnswer(0)

-----------------------------------------------------------------------------
(* The routes from the source over accepted nodes, as pairs <<node, cost>>: *)
(* the least set that has the source and is closed under edges.            *)
Ends(q) == Nodes(q.graph) \X Cost

Follows(q, ends) ==
    \A p \in ends : \A i \in 1..Len(q.graph.out[p[1]]) :
        LET edge == q.graph.out[p[1]][i]
        IN  edge.to \in q.accepted => <<edge.to, Plus(p[2], edge.weight)>> \in ends

Routes(q) ==
    LET closed == {S \in SUBSET Ends(q) : <<Source(q), 0>> \in S /\ Follows(q, S)}
    IN  {p \in Ends(q) : \A S \in closed : p \in S}

CostsOf(q) == {p[2] : p \in {r \in Routes(q) : r[1] = Target(q)}}

Expected(q) == IF ~Searchable(q) THEN Immediate(q)
               ELSE IF CostsOf(q) = {} THEN None
               ELSE CostAnswer(Min(CostsOf(q)))

=============================================================================
