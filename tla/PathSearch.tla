----------------------------- MODULE PathSearch -----------------------------
(***************************************************************************)
(* The search that returns the path (grafo/src/graph.rs,                   *)
(* shortest_path_filtered, dijkstra_path, reconstruct_path and             *)
(* resolve_labels) on a graph in compressed rows, after its construction.  *)
(***************************************************************************)
EXTENDS CsrGraph

CONSTANT Question   \* the queries: from, to and the set of accepted labels

VARIABLES
    question,       \* the query asked last
    phase,          \* "searching", "retracing" or "answered"
    dist, prev,     \* -1: unseen; 0: no predecessor (u32::MAX)
    heap, at, next,
    path,           \* what has been retraced, from the target backwards
    answer

searchVars == <<question, phase, dist, prev, heap, at, next, path, answer>>
vars       == <<csrVars, searchVars>>

Infinite   == MaxCost + 1
Plus(c, w) == IF c + w > MaxCost THEN Infinite ELSE c + w

Init ==
    /\ CsrInit
    /\ question = {} /\ phase = "answered" /\ answer = {}
    /\ dist = <<>> /\ prev = <<>> /\ heap = {} /\ at = {} /\ next = 1 /\ path = <<>>

-----------------------------------------------------------------------------
Known(q)    == {q.from, q.to} \subseteq DOMAIN index
Accepted(q) == {u \in DOMAIN ids : ids[u] \in q.accepted}
Admitted(q) == {q.from, q.to} \subseteq q.accepted

Ask(q) == stage = "built" /\ phase = "answered" /\ question' = {q}

Answer(a) == phase' = "answered" /\ answer' = {a}

Immediate(q) == IF ~Known(q) THEN [kind |-> "unknown"]
                ELSE IF ~Admitted(q) THEN [kind |-> "none"]
                ELSE [kind |-> "path", cost |-> 0, labels |-> <<q.from>>]

AskImmediate ==
    \E q \in Question :
        /\ Ask(q)
        /\ ~Known(q) \/ ~Admitted(q) \/ q.from = q.to
        /\ Answer(Immediate(q))
        /\ UNCHANGED <<csrVars, dist, prev, heap, at, next, path>>

AskSearch ==
    \E q \in Question :
        /\ Ask(q)
        /\ Known(q) /\ Admitted(q) /\ q.from # q.to
        /\ phase' = "searching" /\ answer' = {}
        /\ dist' = [u \in DOMAIN ids |-> IF u = index[q.from] THEN 0 ELSE -1]
        /\ prev' = [u \in DOMAIN ids |-> 0]
        /\ heap' = {<<0, index[q.from]>>}
        /\ at' = {} /\ next' = 1 /\ path' = <<>>
        /\ UNCHANGED csrVars

-----------------------------------------------------------------------------
(* The least cost first, of equal costs the greatest node. *)
Popped(e) ==
    /\ phase = "searching" /\ at = {} /\ e \in heap
    /\ \A f \in heap : e[1] < f[1] \/ (e[1] = f[1] /\ e[2] >= f[2])
    /\ heap' = heap \ {e}
    /\ UNCHANGED <<csrVars, question, dist, prev>>

PopStale ==
    /\ \E e \in heap : Popped(e) /\ e[1] > dist[e[2]]
    /\ UNCHANGED <<phase, at, next, path, answer>>

(* The loop may end in two ways; the distance of the target decides.       *)
Conclude(q) ==
    LET c == dist[index[q.to]]
    IN  IF c = -1 THEN Answer([kind |-> "none"]) /\ UNCHANGED path
        ELSE IF c = Infinite THEN Answer([kind |-> "overflow"]) /\ UNCHANGED path
        ELSE phase' = "retracing" /\ path' = <<index[q.to]>> /\ UNCHANGED answer

PopTarget ==
    /\ \E q \in question, e \in heap :
          /\ Popped(e) /\ e[1] <= dist[e[2]] /\ e[2] = index[q.to]
          /\ Conclude(q)
    /\ UNCHANGED <<at, next>>

PopNode ==
    /\ \E q \in question, e \in heap :
          /\ Popped(e) /\ e[1] <= dist[e[2]] /\ e[2] # index[q.to]
          /\ at' = {e} /\ next' = 1
    /\ UNCHANGED <<phase, path, answer>>

Exhausted ==
    /\ phase = "searching" /\ at = {} /\ heap = {}
    /\ \E q \in question : Conclude(q)
    /\ UNCHANGED <<csrVars, question, dist, prev, heap, at, next>>

(* The edges of the node that is expanded are offsets[u] + 1, ... *)
Following(e) ==
    /\ phase = "searching" /\ at = {e}
    /\ offsets[e[2]] + next <= offsets[e[2] + 1]
    /\ next' = next + 1
    /\ UNCHANGED <<csrVars, question, phase, at, path, answer>>

Neighbour(e) == targets[offsets[e[2]] + next]
Reached(e)   == Plus(e[1], weights[offsets[e[2]] + next])

Improves(q, e) ==
    /\ Neighbour(e) \in Accepted(q)
    /\ dist[Neighbour(e)] < 0 \/ Reached(e) < dist[Neighbour(e)]

SkipEdge ==
    /\ \E q \in question, e \in at : Following(e) /\ ~Improves(q, e)
    /\ UNCHANGED <<dist, prev, heap>>

(* Mutants of Relax: the filter is not asked; the first predecessor of a   *)
(* node is kept; an equal cost counts as an improvement.                   *)
RelaxUnfiltered ==
    \E q \in question, e \in at :
        /\ Following(e)
        /\ dist[Neighbour(e)] < 0 \/ Reached(e) < dist[Neighbour(e)]
        /\ dist' = [dist EXCEPT ![Neighbour(e)] = Reached(e)]
        /\ prev' = [prev EXCEPT ![Neighbour(e)] = e[2]]
        /\ heap' = heap \cup {<<Reached(e), Neighbour(e)>>}

RelaxKeepingPrev ==
    \E q \in question, e \in at :
        /\ Following(e) /\ Improves(q, e)
        /\ dist' = [dist EXCEPT ![Neighbour(e)] = Reached(e)]
        /\ prev' = [prev EXCEPT ![Neighbour(e)] = IF @ = 0 THEN e[2] ELSE @]
        /\ heap' = heap \cup {<<Reached(e), Neighbour(e)>>}

RelaxOnEqual ==
    \E q \in question, e \in at :
        /\ Following(e)
        /\ Improves(q, e) \/ Reached(e) = dist[Neighbour(e)]
        /\ dist' = [dist EXCEPT ![Neighbour(e)] = Reached(e)]
        /\ prev' = [prev EXCEPT ![Neighbour(e)] = e[2]]
        /\ heap' = heap \cup {<<Reached(e), Neighbour(e)>>}

Relax ==
    \E q \in question, e \in at :
        /\ Following(e) /\ Improves(q, e)
        /\ dist' = [dist EXCEPT ![Neighbour(e)] = Reached(e)]
        /\ prev' = [prev EXCEPT ![Neighbour(e)] = e[2]]
        /\ heap' = heap \cup {<<Reached(e), Neighbour(e)>>}

Expanded ==
    /\ \E e \in at : offsets[e[2]] + next > offsets[e[2] + 1]
    /\ phase = "searching"
    /\ at' = {}
    /\ UNCHANGED <<csrVars, question, phase, dist, prev, heap, next, path, answer>>

(* The path is followed backwards until a node has no predecessor. *)
Retrace ==
    /\ phase = "retracing"
    /\ prev[Head(path)] # 0
    /\ path' = <<prev[Head(path)]>> \o path
    /\ UNCHANGED <<csrVars, question, phase, dist, prev, heap, at, next, answer>>

Retraced ==
    /\ phase = "retracing"
    /\ prev[Head(path)] = 0
    /\ \E q \in question :
          Answer([kind |-> "path", cost |-> dist[index[q.to]],
                  labels |-> [i \in DOMAIN path |-> ids[path[i]]]])
    /\ UNCHANGED <<csrVars, question, dist, prev, heap, at, next, path>>

-----------------------------------------------------------------------------
Step == \/ PopStale \/ PopTarget \/ PopNode \/ Exhausted
        \/ SkipEdge \/ Relax \/ Expanded \/ Retrace \/ Retraced

(* What does not construct a graph leaves it alone. *)
Next == \/ Construct /\ UNCHANGED searchVars
        \/ AskImmediate \/ AskSearch \/ Step
        \/ stage = "failed" /\ UNCHANGED vars

Spec     == Init /\ [][Next]_vars
FairSpec == /\ Spec
            /\ WF_vars(Construct /\ UNCHANGED searchVars)
            /\ WF_vars(Step)

-----------------------------------------------------------------------------
(* The arrays have their types; distances, predecessors and heap entries   *)
(* are those of nodes of the graph.                                        *)
TypeOK ==
    /\ input \in Input
    /\ stage \in {"labels", "counted", "placing", "built", "failed"}
    /\ index \in [DOMAIN index -> DOMAIN ids]
    /\ placed \in 0..Len(input.edges)
    /\ \A u \in DOMAIN offsets : offsets[u] \in 0..Len(input.edges)
    /\ \A i \in DOMAIN targets : targets[i] \in 0..Len(ids) /\ weights[i] \in 0..MaxCost
    /\ phase \in {"searching", "retracing", "answered"}
    /\ \A u \in DOMAIN dist : dist[u] \in -1..Infinite /\ prev[u] \in 0..Len(ids)
    /\ \A e \in heap \cup at : e \in (0..Infinite) \X DOMAIN dist
    /\ \A i \in DOMAIN path : path[i] \in DOMAIN ids

-----------------------------------------------------------------------------
(* The query as Dijkstra sees it. *)
AskedOf(n, q) ==
    [graph |-> Intended(n), from |-> q.from, to |-> q.to,
     accepted |-> {u \in DOMAIN n.nodes : n.nodes[u] \in q.accepted}]

Queries == {AskedOf(n, q) : n \in {m \in Input : Valid(m)}, q \in Question}

CostOnly(a) == IF a.kind = "path" THEN [kind |-> "cost", cost |-> a.cost] ELSE a

(* The state as the search for the cost has it. *)
Asked == {AskedOf(input, q) : q \in question}
Seen  == [u \in {v \in DOMAIN dist : dist[v] >= 0} |-> dist[u]]
Told  == IF phase = "retracing"
         THEN {[kind |-> "cost", cost |-> dist[index[q.to]]] : q \in question}
         ELSE {CostOnly(a) : a \in answer}

OneShot == INSTANCE Dijkstra
           WITH Query <- Queries, query <- Asked, dist <- Seen, answer <- Told

(* The search with predecessors behaves like the search for the cost, on   *)
(* the edges that were given to the construction (dijkstra_path).          *)
ImplementsOneShot == OneShot!Spec

WeightsBetween(l, m) ==
    {input.edges[i].weight : i \in {j \in DOMAIN input.edges :
                                       input.edges[j].from = l /\ input.edges[j].to = m}}

(* What it costs to visit the nodes of s one after the other. *)
CostAlong(s) ==
    LET upTo[k \in 0..(Len(s) - 1)] ==
            IF k = 0 THEN 0 ELSE upTo[k - 1] + Min(WeightsBetween(s[k], s[k + 1]))
    IN  upTo[Len(s) - 1]

(* From the source to the target along edges of the graph, over accepted   *)
(* nodes, no node twice, at the cost that is given.                        *)
IsRoute(q, a) ==
    /\ a.labels[1] = q.from /\ a.labels[Len(a.labels)] = q.to
    /\ \A i \in DOMAIN a.labels : a.labels[i] \in q.accepted
    /\ \A i, j \in DOMAIN a.labels : a.labels[i] = a.labels[j] => i = j
    /\ \A i \in 1..(Len(a.labels) - 1) : WeightsBetween(a.labels[i], a.labels[i + 1]) # {}
    /\ a.cost = CostAlong(a.labels)

(* A path that is returned is a route, and no route costs less; an answer  *)
(* without a path is right (shortest_path).                                *)
PathIsCheapest ==
    \A q \in question, a \in answer :
        /\ CostOnly(a) = OneShot!Expected(AskedOf(input, q))
        /\ a.kind = "path" => IsRoute(q, a)

(* Every query is answered: neither the search nor the way back along the  *)
(* predecessors goes round a cycle of cost zero (reconstruct_path).        *)
EveryQueryIsAnswered == phase # "answered" ~> phase = "answered"

=============================================================================
