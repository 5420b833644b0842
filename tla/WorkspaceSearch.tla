-------------------------- MODULE WorkspaceSearch --------------------------
(***************************************************************************)
(* The search that reuses its buffers (grafo/src/workspace.rs and          *)
(* graph.rs, dijkstra_cost_with_workspace).  A distance counts only if its *)
(* stamp is the generation of this search; instead of being cleared the    *)
(* buffers get a new generation, and the generation wraps around.          *)
(***************************************************************************)
EXTENDS GraphQueries

CONSTANT MaxGeneration  \* the largest generation (u32::MAX)

ASSUME GenerationAssumption == MaxGeneration \in Nat \ {0}

VARIABLES
    query,       \* as in Dijkstra
    distances, stamps, generation, heap,   \* the fields of SearchWorkspace
    at, next, answer                       \* as in Dijkstra

vars == <<query, distances, stamps, generation, heap, at, next, answer>>

workspace == <<distances, stamps, generation, heap>>

Init ==
    /\ query = {} /\ answer = {}
    /\ distances = <<>> /\ stamps = <<>> /\ generation = 0 /\ heap = {}
    /\ at = {} /\ next = 1

-----------------------------------------------------------------------------
(* Vec::resize, which only ever grows the buffers here. *)
Grown(s, n) == [i \in 1..(IF Len(s) < n THEN n ELSE Len(s)) |->
                   IF i <= Len(s) THEN s[i] ELSE 0]

(* Mutant of NextGeneration: the generation is not wrapped. *)
NextGenerationUnwrapped == generation + 1

(* The generation wraps around and skips zero, which denotes an unseen slot. *)
NextGeneration == IF generation = MaxGeneration THEN 1 ELSE generation + 1

(* Mutant of Cleared: only the slots of the graph of size n are cleared. *)
ClearedForGraph(n) ==
    [i \in DOMAIN Grown(stamps, n) |->
        IF generation = MaxGeneration /\ i <= n THEN 0 ELSE Grown(stamps, n)[i]]

(* All slots are cleared when the generation wraps around, also those that *)
(* a graph of size n has no use for.                                       *)
Cleared(n) ==
    [i \in DOMAIN Grown(stamps, n) |->
        IF generation = MaxGeneration THEN 0 ELSE Grown(stamps, n)[i]]

(* A query may be asked when the last one has been answered. *)
Ask(q) ==
    /\ query = {} \/ answer # {}
    /\ query' = {q}

(* These queries do not touch the workspace. *)
AskImmediate ==
    \E q \in Query :
        /\ Ask(q) /\ ~Searchable(q)
        /\ answer' = {Immediate(q)}
        /\ UNCHANGED <<workspace, at, next>>

AskPanics ==
    \E q \in Query :
        /\ Ask(q) /\ Known(q)
        /\ answer' = {Panic}
        /\ UNCHANGED <<workspace, at, next>>

(* Mutant of AskSearch: the heap of the last search is not cleared. *)
AskSearchKeepingHeap ==
    \E q \in Query :
        /\ Ask(q) /\ Searchable(q)
        /\ generation' = NextGeneration
        /\ distances' = [Grown(distances, Len(q.graph.out)) EXCEPT ![Source(q)] = 0]
        /\ stamps' = [Cleared(Len(q.graph.out)) EXCEPT ![Source(q)] = NextGeneration]
        /\ heap' = heap \cup {<<0, Source(q)>>}
        /\ at' = {} /\ next' = 1 /\ answer' = {}

AskSearch ==
    \E q \in Query :
        /\ Ask(q) /\ Searchable(q)
        /\ generation' = NextGeneration
        /\ distances' = [Grown(distances, Len(q.graph.out)) EXCEPT ![Source(q)] = 0]
        /\ stamps' = [Cleared(Len(q.graph.out)) EXCEPT ![Source(q)] = NextGeneration]
        /\ heap' = {<<0, Source(q)>>}
        /\ at' = {} /\ next' = 1 /\ answer' = {}

-----------------------------------------------------------------------------
Searching == answer = {}

(* The least cost first, of equal costs the greatest node. *)
IsTop(e) ==
    /\ e \in heap
    /\ \A f \in heap : e[1] < f[1] \/ (e[1] = f[1] /\ e[2] >= f[2])

Popped(e) ==
    /\ Searching /\ at = {} /\ IsTop(e) /\ heap' = heap \ {e}
    /\ UNCHANGED <<distances, stamps, generation>>

(* No stamp is read here: what is in the heap was stamped in this search. *)
PopStale ==
    \E q \in query, e \in heap :
        /\ Popped(e)
        /\ e[1] > distances[e[2]]
        /\ UNCHANGED <<query, at, next, answer>>

PopTarget ==
    \E q \in query, e \in heap :
        /\ Popped(e)
        /\ e[1] <= distances[e[2]]
        /\ e[2] = Target(q)
        /\ answer' = {CostAnswer(e[1])}
        /\ UNCHANGED <<query, at, next>>

PopNode ==
    \E q \in query, e \in heap :
        /\ Popped(e)
        /\ e[1] <= distances[e[2]]
        /\ e[2] # Target(q)
        /\ at' = {e} /\ next' = 1
        /\ UNCHANGED <<query, answer>>

Exhausted ==
    /\ query # {} /\ Searching /\ at = {} /\ heap = {}
    /\ answer' = {None}
    /\ UNCHANGED <<query, workspace, at, next>>

(* The next edge of the node that is expanded. *)
Following(q, e) == Searching /\ at = {e} /\ next <= Len(q.graph.out[e[2]])
Edge(q, e)      == q.graph.out[e[2]][next]
Reached(q, e)   == Plus(e[1], Edge(q, e).weight)

Improves(v, c) == stamps[v] # generation \/ c < distances[v]

SkipEdge ==
    \E q \in query, e \in at :
        /\ Following(q, e)
        /\ \/ Edge(q, e).to \notin q.accepted
           \/ ~Improves(Edge(q, e).to, Reached(q, e))
        /\ next' = next + 1
        /\ UNCHANGED <<query, workspace, at, answer>>

Relax ==
    \E q \in query, e \in at :
        /\ Following(q, e)
        /\ Edge(q, e).to \in q.accepted
        /\ Improves(Edge(q, e).to, Reached(q, e))
        /\ distances' = [distances EXCEPT ![Edge(q, e).to] = Reached(q, e)]
        /\ stamps' = [stamps EXCEPT ![Edge(q, e).to] = generation]
        /\ heap' = heap \cup {<<Reached(q, e), Edge(q, e).to>>}
        /\ next' = next + 1
        /\ UNCHANGED <<query, generation, at, answer>>

(* A panic unwinds and leaves the workspace as it is. *)
FilterPanics ==
    \E q \in query, e \in at :
        /\ Following(q, e)
        /\ answer' = {Panic}
        /\ UNCHANGED <<query, workspace, at, next>>

Expanded ==
    \E q \in query, e \in at :
        /\ Searching /\ next > Len(q.graph.out[e[2]])
        /\ at' = {}
        /\ UNCHANGED <<query, workspace, next, answer>>

-----------------------------------------------------------------------------
Asking == AskImmediate \/ AskPanics \/ AskSearch

Step == \/ PopStale \/ PopTarget \/ PopNode \/ Exhausted
        \/ SkipEdge \/ Relax \/ FilterPanics \/ Expanded

Next == Asking \/ Step

Spec == Init /\ [][Next]_vars

-----------------------------------------------------------------------------
(* Every field has its type, and every node of the graph that is searched  *)
(* has a slot in both buffers.                                             *)
TypeOK ==
    /\ query \in Option(Query)
    /\ distances \in Seq(Cost) /\ stamps \in Seq(0..MaxGeneration)
    /\ Len(distances) = Len(stamps)
    /\ generation \in 0..MaxGeneration
    /\ heap \subseteq Cost \X DOMAIN distances
    /\ at \in Option(Cost \X DOMAIN distances)
    /\ next \in Nat \ {0}
    /\ answer \in Option(Answer)
    /\ answer = {} => \A q \in query : Len(q.graph.out) <= Len(distances)

(* A stamp of the current generation was set by this search: the graph     *)
(* has the node and the filter accepts it (begin, "clear every retained    *)
(* slot, including those outside a smaller current graph").                *)
StampsAreOfThisSearch ==
    answer = {} => \A q \in query, i \in DOMAIN stamps :
        stamps[i] = generation => i \in q.accepted \cap Nodes(q.graph)

(* Whatever was searched with the workspace before, on whatever graph, and *)
(* however it ended, the answer is the cost of a cheapest route over       *)
(* accepted nodes, and an overflow only if there is none of finite cost.   *)
AnswerIsShortest ==
    \A q \in query, a \in answer : a = Panic \/ a = Expected(q)

(* "Query outcomes match one-shot methods": the search with the workspace  *)
(* behaves like the one whose distances are made anew for every query.     *)
OneShot == INSTANCE Dijkstra
           WITH dist <- [i \in {j \in DOMAIN stamps : stamps[j] = generation} |->
                            distances[i]]

ImplementsOneShot == OneShot!Spec

=============================================================================
