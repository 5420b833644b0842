------------------------------ MODULE Dijkstra ------------------------------
(***************************************************************************)
(* The cost of a cheapest path (grafo/src/graph.rs, dijkstra_cost and      *)
(* shortest_path_filtered_cost): one query after the other, each with      *)
(* distances of its own.  The searches with a reused workspace and with    *)
(* predecessors promise to behave like this one.                           *)
(*                                                                         *)
(* The heap holds no entry twice, because a node is pushed with a smaller  *)
(* cost each time: it is a set.                                            *)
(***************************************************************************)
EXTENDS GraphQueries

VARIABLES
    query,   \* the query asked last
    dist,    \* the discovered nodes with their distances
    heap,    \* pairs of a cost and a node
    at,      \* the entry popped last, while its node is expanded
    next,    \* the position of the next edge to follow
    answer   \* the answer to the query, if there is one

vars == <<query, dist, heap, at, next, answer>>

Init ==
    /\ query = {} /\ answer = {}
    /\ dist = [u \in {} |-> 0] /\ heap = {} /\ at = {} /\ next = 1

-----------------------------------------------------------------------------
(* A query may be asked when the last one has been answered. *)
Ask(q) ==
    /\ query = {} \/ answer # {}
    /\ query' = {q}

AskImmediate ==
    \E q \in Query :
        /\ Ask(q) /\ ~Searchable(q)
        /\ answer' = {Immediate(q)}
        /\ UNCHANGED <<dist, heap, at, next>>

(* The filter is the caller's and may panic, on an endpoint as well. *)
AskPanics ==
    \E q \in Query :
        /\ Ask(q) /\ Known(q)
        /\ answer' = {Panic}
        /\ UNCHANGED <<dist, heap, at, next>>

AskSearch ==
    \E q \in Query :
        /\ Ask(q) /\ Searchable(q)
        /\ dist' = [u \in {Source(q)} |-> 0]
        /\ heap' = {<<0, Source(q)>>}
        /\ at' = {} /\ next' = 1 /\ answer' = {}

-----------------------------------------------------------------------------
Searching == answer = {}

(* The least cost first, of equal costs the greatest node. *)
IsTop(e) ==
    /\ e \in heap
    /\ \A f \in heap : e[1] < f[1] \/ (e[1] = f[1] /\ e[2] >= f[2])

Popped(e) == Searching /\ at = {} /\ IsTop(e) /\ heap' = heap \ {e}

PopStale ==
    \E q \in query, e \in heap :
        /\ Popped(e)
        /\ e[1] > dist[e[2]]
        /\ UNCHANGED <<query, dist, at, next, answer>>

PopTarget ==
    \E q \in query, e \in heap :
        /\ Popped(e)
        /\ e[1] <= dist[e[2]]
        /\ e[2] = Target(q)
        /\ answer' = {CostAnswer(e[1])}
        /\ UNCHANGED <<query, dist, at, next>>

PopNode ==
    \E q \in query, e \in heap :
        /\ Popped(e)
        /\ e[1] <= dist[e[2]]
        /\ e[2] # Target(q)
        /\ at' = {e} /\ next' = 1
        /\ UNCHANGED <<query, dist, answer>>

Exhausted ==
    /\ query # {} /\ Searching /\ at = {} /\ heap = {}
    /\ answer' = {None}
    /\ UNCHANGED <<query, dist, heap, at, next>>

(* The next edge of the node that is expanded. *)
Following(q, e) == Searching /\ at = {e} /\ next <= Len(q.graph.out[e[2]])
Edge(q, e)      == q.graph.out[e[2]][next]
Reached(q, e)   == Plus(e[1], Edge(q, e).weight)

Improves(v, c) == v \in DOMAIN dist => c < dist[v]

SkipEdge ==
    \E q \in query, e \in at :
        /\ Following(q, e)
        /\ \/ Edge(q, e).to \notin q.accepted
           \/ ~Improves(Edge(q, e).to, Reached(q, e))
        /\ next' = next + 1
        /\ UNCHANGED <<query, dist, heap, at, answer>>

Relax ==
    \E q \in query, e \in at :
        /\ Following(q, e)
        /\ Edge(q, e).to \in q.accepted
        /\ Improves(Edge(q, e).to, Reached(q, e))
        /\ dist' = [u \in DOMAIN dist \cup {Edge(q, e).to} |->
                       IF u = Edge(q, e).to THEN Reached(q, e) ELSE dist[u]]
        /\ heap' = heap \cup {<<Reached(q, e), Edge(q, e).to>>}
        /\ next' = next + 1
        /\ UNCHANGED <<query, at, answer>>

FilterPanics ==
    \E q \in query, e \in at :
        /\ Following(q, e)
        /\ answer' = {Panic}
        /\ UNCHANGED <<query, dist, heap, at, next>>

Expanded ==
    \E q \in query, e \in at :
        /\ Searching /\ next > Len(q.graph.out[e[2]])
        /\ at' = {}
        /\ UNCHANGED <<query, dist, heap, next, answer>>

-----------------------------------------------------------------------------
Asking == AskImmediate \/ AskPanics \/ AskSearch

Step == \/ PopStale \/ PopTarget \/ PopNode \/ Exhausted
        \/ SkipEdge \/ Relax \/ FilterPanics \/ Expanded

Next == Asking \/ Step

Spec     == Init /\ [][Next]_vars
FairSpec == Spec /\ WF_vars(Step)

-----------------------------------------------------------------------------
(* Every answer, unless the filter panicked, is the least cost of all      *)
(* routes over accepted nodes (dijkstra_cost, "returns the minimum cost to *)
(* reach dst from src, None if unreachable, or CostOverflow if only        *)
(* overflowing routes exist").                                             *)
AnswerIsShortest == \A q \in query, a \in answer : a = Panic \/ a = Expected(q)

=============================================================================
