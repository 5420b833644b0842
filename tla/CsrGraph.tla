------------------------------ MODULE CsrGraph ------------------------------
(***************************************************************************)
(* The construction of a graph in compressed rows (grafo/src/graph.rs,     *)
(* new_with_attrs): the checks, and the four passes over one array of      *)
(* offsets that serves as counter, as cursor and as the result.            *)
(*                                                                         *)
(* Positions count from 1: the row of the node u is                        *)
(* offsets[u] + 1 .. offsets[u + 1].  The attributes of a node are its     *)
(* label.                                                                  *)
(***************************************************************************)
EXTENDS Integers, Sequences, FiniteSets, FiniteSetsExt

CONSTANTS
    Input,        \* the inputs: nodes, a sequence of labels, and edges
    MaxCost,      \* the largest finite weight
    MaxCount,     \* the largest number of nodes and of edges (u32::MAX)
    ParThreshold  \* from how many edges on they are checked in parallel

(* A weight below zero stands for any that is negative, infinite or NaN. *)
ASSUME InputAssumption ==
    \A n \in Input :
        /\ n.nodes \in Seq({n.nodes[i] : i \in DOMAIN n.nodes})
        /\ n.edges \in Seq({n.edges[i] : i \in DOMAIN n.edges})
        /\ \A i \in DOMAIN n.edges : n.edges[i].weight \in -1..MaxCost

ASSUME BoundsAssumption == MaxCost \in Nat /\ MaxCount \in Nat

VARIABLES
    input, stage,
    ids, index,        \* node_ids and node_index
    placed,            \* how many edges have their place
    offsets, targets, weights,
    error              \* why the construction failed

built == <<ids, index, offsets, targets, weights>>
csrVars == <<input, stage, built, placed, error>>

CsrInit ==
    /\ input \in Input /\ stage = "labels"
    /\ ids = <<>> /\ index = [l \in {} |-> 0]
    /\ placed = 0 /\ offsets = <<>> /\ targets = <<>> /\ weights = <<>>
    /\ error = {}

-----------------------------------------------------------------------------
Fail(e) ==
    /\ stage' = "failed" /\ error' = {e}
    /\ UNCHANGED <<input, built, placed>>

(* The counts are checked before anything else. *)
TooLarge == Len(input.nodes) > MaxCount \/ Len(input.edges) > MaxCount

RefuseSize == stage = "labels" /\ ids = <<>> /\ TooLarge /\ Fail("too_large")

NextLabel == input.nodes[Len(ids) + 1]

(* Mutant of AddNode: a label given again takes the new index. *)
AddNodeAgain ==
    /\ stage = "labels" /\ ~TooLarge
    /\ Len(ids) < Len(input.nodes)
    /\ ids' = Append(ids, NextLabel)
    /\ index' = [l \in DOMAIN index \cup {NextLabel} |->
                    IF l = NextLabel THEN Len(ids) + 1 ELSE index[l]]
    /\ UNCHANGED <<input, stage, placed, offsets, targets, weights, error>>

AddNode ==
    /\ stage = "labels" /\ ~TooLarge
    /\ Len(ids) < Len(input.nodes)
    /\ NextLabel \notin DOMAIN index
    /\ ids' = Append(ids, NextLabel)
    /\ index' = [l \in DOMAIN index \cup {NextLabel} |->
                    IF l = NextLabel THEN Len(ids) + 1 ELSE index[l]]
    /\ UNCHANGED <<input, stage, placed, offsets, targets, weights, error>>

RefuseDuplicate ==
    /\ stage = "labels" /\ ~TooLarge
    /\ Len(ids) < Len(input.nodes)
    /\ NextLabel \in DOMAIN index
    /\ Fail("duplicate")

(* What is wrong with an edge: its source, its target, or its weight. *)
Faults(e) == IF e.from \notin DOMAIN index THEN {<<"unknown", e.from>>}
             ELSE IF e.to \notin DOMAIN index THEN {<<"unknown", e.to>>}
             ELSE IF e.weight < 0 THEN {<<"weight", e.from>>} ELSE {}

Faulty == {i \in DOMAIN input.edges : Faults(input.edges[i]) # {}}

(* The first faulty edge is reported, in parallel any. *)
RefuseEdge ==
    /\ stage = "labels" /\ ~TooLarge /\ Len(ids) = Len(input.nodes)
    /\ \E i \in Faulty : \E f \in Faults(input.edges[i]) :
          /\ Len(input.edges) < ParThreshold => i = Min(Faulty)
          /\ Fail(f)

From(i) == index[input.edges[i].from]

CountEdges ==
    /\ stage = "labels" /\ ~TooLarge /\ Len(ids) = Len(input.nodes) /\ Faulty = {}
    /\ stage' = "counted"
    /\ offsets' = [u \in 1..(Len(ids) + 1) |->
                      Cardinality({i \in DOMAIN input.edges : From(i) = u})]
    /\ targets' = [i \in DOMAIN input.edges |-> 0]
    /\ weights' = [i \in DOMAIN input.edges |-> 0]
    /\ UNCHANGED <<input, ids, index, placed, error>>

(* Mutant of SumOffsets: the sum includes the count of the node itself. *)
SumOffsetsInclusive ==
    /\ stage = "counted"
    /\ stage' = "placing"
    /\ offsets' = LET sum[u \in DOMAIN offsets] ==
                          IF u = 1 THEN offsets[u] ELSE sum[u - 1] + offsets[u]
                  IN  sum
    /\ UNCHANGED <<input, ids, index, placed, error, targets, weights>>

(* Each offset becomes the sum of the counts before it. *)
SumOffsets ==
    /\ stage = "counted"
    /\ stage' = "placing"
    /\ offsets' = LET sum[u \in DOMAIN offsets] ==
                          IF u = 1 THEN 0 ELSE sum[u - 1] + offsets[u - 1]
                  IN  sum
    /\ UNCHANGED <<input, ids, index, placed, targets, weights, error>>

(* The offset of the source is a cursor: it moves past what is placed. *)
PlaceEdge ==
    /\ stage = "placing" /\ placed < Len(input.edges)
    /\ LET edge == input.edges[placed + 1]
           u    == index[edge.from]
       IN  /\ targets' = [targets EXCEPT ![offsets[u] + 1] = index[edge.to]]
           /\ weights' = [weights EXCEPT ![offsets[u] + 1] = edge.weight]
           /\ offsets' = [offsets EXCEPT ![u] = @ + 1]
    /\ placed' = placed + 1
    /\ UNCHANGED <<input, stage, ids, index, error>>

(* Mutant of ShiftOffsets: the cursors are taken for the offsets. *)
ShiftNothing ==
    /\ stage = "placing" /\ placed = Len(input.edges)
    /\ stage' = "built"
    /\ UNCHANGED <<input, built, placed, error>>

(* Every cursor stands at the start of the next row: shift them by one. *)
ShiftOffsets ==
    /\ stage = "placing" /\ placed = Len(input.edges)
    /\ stage' = "built"
    /\ offsets' = [u \in DOMAIN offsets |-> IF u = 1 THEN 0 ELSE offsets[u - 1]]
    /\ UNCHANGED <<input, ids, index, targets, weights, placed, error>>

Construct == \/ RefuseSize \/ AddNode \/ RefuseDuplicate \/ RefuseEdge
             \/ CountEdges \/ SumOffsets \/ PlaceEdge \/ ShiftOffsets

-----------------------------------------------------------------------------
(* The row of a node, as the searches read it. *)
Row(u) == [i \in 1..(offsets[u + 1] - offsets[u]) |->
              [to |-> targets[offsets[u] + i], weight |-> weights[offsets[u] + i]]]

NodeOf(n) == [l \in {n.nodes[i] : i \in DOMAIN n.nodes} |->
                  CHOOSE i \in DOMAIN n.nodes : n.nodes[i] = l]

(* The edges of the node u among the first k that are given, in order. *)
ArcsFrom(n, u) ==
    LET first[k \in 0..Len(n.edges)] ==
            IF k = 0 THEN <<>>
            ELSE IF NodeOf(n)[n.edges[k].from] = u
                 THEN Append(first[k - 1], [to     |-> NodeOf(n)[n.edges[k].to],
                                            weight |-> n.edges[k].weight])
                 ELSE first[k - 1]
    IN  first

(* What the rows should be: the edges of each node in the order given. *)
Intended(n) ==
    [index |-> NodeOf(n),
     out   |-> [u \in DOMAIN n.nodes |-> ArcsFrom(n, u)[Len(n.edges)]]]

(* A construction that succeeds yields exactly the edges given, row by row *)
(* in the order given, although counts, cursors and offsets share an array *)
(* (new_with_attrs, "shift right by one to restore").                      *)
RowsAreExact ==
    stage = "built" => /\ index = Intended(input).index
                       /\ [u \in DOMAIN ids |-> Row(u)] = Intended(input).out

Valid(n) ==
    /\ Len(n.nodes) <= MaxCount /\ Len(n.edges) <= MaxCount
    /\ \A i, j \in DOMAIN n.nodes : n.nodes[i] = n.nodes[j] => i = j
    /\ \A i \in DOMAIN n.edges : /\ \E j \in DOMAIN n.nodes : n.nodes[j] = n.edges[i].from
                                 /\ \E j \in DOMAIN n.nodes : n.nodes[j] = n.edges[i].to
                                 /\ n.edges[i].weight >= 0

(* A graph is built from valid input and from no other (GraphError).       *)
RefusesExactlyInvalid ==
    /\ stage = "built" => Valid(input)
    /\ stage = "failed" => ~Valid(input)

=============================================================================
