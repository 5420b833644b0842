--------------------------- MODULE PlannerSearch ---------------------------
(***************************************************************************)
(* One call of the planner (goap-planner/src/planner.rs): the breadth-     *)
(* first exploration that plan, explore and explore_for_goal share, and    *)
(* what plan makes of it.  The shortest path itself is grafo's: any        *)
(* cheapest route through the explored graph.                              *)
(*                                                                         *)
(* A state stands for its own signature.  The sorting and indexing of      *)
(* materialise are left out: the returned graph is <<discovered, edges,    *)
(* goalStates, truncated>>.                                                *)
(***************************************************************************)
EXTENDS Goap

Call == {"plan", "explore", "explore_for_goal"}

(* The cheapest action found between two states, with its cost. *)
Edge == [cost : Cost, name : Action]

PlannerError == {"StateSpaceLimitExceeded", "Graph"}

Answer == [kind : {"none", "graph"}] \cup [kind : {"error"}, error : PlannerError]
          \cup [kind : {"plan"}, steps : Seq(Action), cost : Payable]

VARIABLES
    call, initial,  \* the call and its argument
    phase,          \* "called", "exploring", "explored" or "answered"
    discovered,     \* the states seen so far (signatures)
    edges,          \* edge_map: a function from pairs of states to Edge
    goalStates,     \* goal_state_sigs
    queue,          \* the states still to expand
    expanding,      \* the state popped last, while actions are tried in it
    next,           \* the position of the next action to try
    truncated,
    answer          \* what the call returned, if it has

vars == <<call, initial, phase, discovered, edges, goalStates, queue,
          expanding, next, truncated, answer>>

graph == <<discovered, edges, goalStates>>

Init ==
    /\ call \in Call /\ initial \in State
    /\ phase = "called"
    /\ discovered = {} /\ edges = [e \in {} |-> {}] /\ goalStates = {}
    /\ queue = <<>> /\ expanding = {} /\ next = 1
    /\ truncated = FALSE /\ answer = {}

-----------------------------------------------------------------------------
(* Only plan and explore_for_goal look at the goal. *)
Satisfying(S) == IF call = "explore" THEN {} ELSE {s \in S : SatisfiedBy(s)}

Begin ==
    /\ phase = "called"
    /\ ~(call = "plan" /\ SatisfiedBy(initial))
    /\ phase' = "exploring"
    /\ discovered' = {initial}
    /\ goalStates' = Satisfying({initial})
    /\ queue' = <<initial>>
    /\ UNCHANGED <<call, initial, edges, expanding, next, truncated, answer>>

(* A state is due to be expanded: the previous one is done. *)
Popping == phase = "exploring" /\ expanding = {} /\ queue # <<>>

(* Mutant of Truncate: the cap is reached, not exceeded. *)
TruncateAtCap ==
    /\ Popping
    /\ Cardinality(discovered) >= MaxStates
    /\ truncated' = TRUE
    /\ phase' = "explored"
    /\ queue' = Tail(queue)
    /\ UNCHANGED <<call, initial, graph, expanding, next, answer>>

(* The cap is tested when a state is popped, not when one is discovered. *)
Truncate ==
    /\ Popping
    /\ Cardinality(discovered) > MaxStates
    /\ truncated' = TRUE
    /\ phase' = "explored"
    /\ queue' = Tail(queue)
    /\ UNCHANGED <<call, initial, graph, expanding, next, answer>>

(* Mutant of Pop: the actions are counted from zero. *)
PopFromZero ==
    /\ Popping
    /\ Cardinality(discovered) <= MaxStates
    /\ expanding' = {Head(queue)}
    /\ queue' = Tail(queue)
    /\ next' = 0
    /\ UNCHANGED <<call, initial, phase, graph, truncated, answer>>

Pop ==
    /\ Popping
    /\ Cardinality(discovered) <= MaxStates
    /\ expanding' = {Head(queue)}
    /\ queue' = Tail(queue)
    /\ next' = 1
    /\ UNCHANGED <<call, initial, phase, graph, truncated, answer>>

(* The next action to try in the state that is expanded. *)
Trying(s, a) == expanding = {s} /\ next <= Len(Actions) /\ a = Actions[next]

Skip ==
    /\ \E s \in expanding, a \in Action : Trying(s, a) /\ ~Applicable(a, s)
    /\ next' = next + 1
    /\ UNCHANGED <<call, initial, phase, graph, queue, expanding, truncated, answer>>

(* Mutant of RecordEdge: a later action replaces one of equal cost. *)
RecordEdgeLatest(s, t, a) ==
    edges' = [e \in DOMAIN edges \cup {<<s, t>>} |->
                IF e # <<s, t>> THEN edges[e]
                ELSE IF e \in DOMAIN edges /\ Cheaper(edges[e].cost, Library[a].cost)
                     THEN edges[e]
                     ELSE [cost |-> Library[a].cost, name |-> a]]

(* Between two states the cheapest action is kept, the first of equals. *)
RecordEdge(s, t, a) ==
    edges' = [e \in DOMAIN edges \cup {<<s, t>>} |->
                IF e # <<s, t>> THEN edges[e]
                ELSE IF e \in DOMAIN edges /\ ~Cheaper(Library[a].cost, edges[e].cost)
                     THEN edges[e]
                     ELSE [cost |-> Library[a].cost, name |-> a]]

(* Mutants of Discover: a known state is queued again; a goal state is only *)
(* recorded when it is expanded, so never in a truncated exploration.       *)
DiscoverAgain(t) ==
    /\ queue' = Append(queue, t)
    /\ discovered' = discovered \cup {t}
    /\ goalStates' = goalStates \cup Satisfying({t})

DiscoverLate(t) ==
    /\ queue' = IF t \in discovered THEN queue ELSE Append(queue, t)
    /\ discovered' = discovered \cup {t}
    /\ goalStates' = goalStates \cup Satisfying(expanding)

(* A new state is queued; a goal state is recorded in any case. *)
Discover(t) ==
    /\ queue' = IF t \in discovered THEN queue ELSE Append(queue, t)
    /\ discovered' = discovered \cup {t}
    /\ goalStates' = goalStates \cup Satisfying({t})

Follow ==
    /\ \E s \in expanding, a \in Action :
          /\ Trying(s, a)
          /\ Applicable(a, s)
          /\ Discover(Apply(a, s))
          /\ RecordEdge(s, Apply(a, s), a)
    /\ next' = next + 1
    /\ UNCHANGED <<call, initial, phase, expanding, truncated, answer>>

Expanded ==
    /\ expanding # {}
    /\ next > Len(Actions)
    /\ expanding' = {}
    /\ UNCHANGED <<call, initial, phase, graph, queue, next, truncated, answer>>

Exhausted ==
    /\ phase = "exploring" /\ expanding = {} /\ queue = <<>>
    /\ phase' = "explored"
    /\ UNCHANGED <<call, initial, graph, queue, expanding, next, truncated, answer>>

-----------------------------------------------------------------------------
(* The routes from the initial state that visit no state twice. *)
Extended(routes) ==
    routes \cup UNION {{Append(r, t) : t \in {u \in discovered :
                            /\ <<r[Len(r)], u>> \in DOMAIN edges
                            /\ \A i \in DOMAIN r : r[i] # u}} : r \in routes}

Routes ==
    LET ofLength[k \in 0..Cardinality(discovered)] ==
            IF k = 0 THEN {<<initial>>} ELSE Extended(ofLength[k - 1])
    IN  ofLength[Cardinality(discovered)]

RouteCost(r) == Total([i \in 1..(Len(r) - 1) |-> edges[<<r[i], r[i + 1]>>].cost], Len(r) - 1)

GoalRoutes == {r \in Routes : r[Len(r)] \in goalStates}

(* What Graph::new asks of the edges: finite costs, none negative. *)
Accepted == \A e \in DOMAIN edges : edges[e].cost \in Payable

(* What Dijkstra may return between the initial state and the goal sink.   *)
(* Where a cheapest route overflows they all do, and it returns an error.  *)
CheapestRoutes ==
    {r \in GoalRoutes : \A q \in GoalRoutes : RouteCost(r) <= RouteCost(q)}

Returns(a) ==
    /\ answer' = {a}
    /\ phase' = "answered"
    /\ UNCHANGED <<call, initial, graph, queue, expanding, next, truncated>>

AnswerAtOnce ==
    /\ phase = "called"
    /\ call = "plan"
    /\ SatisfiedBy(initial)
    /\ Returns([kind |-> "plan", steps |-> <<>>, cost |-> 0])

AnswerGraph ==
    /\ phase = "explored"
    /\ call # "plan"
    /\ Returns([kind |-> "graph"])

AnswerTooLarge ==
    /\ phase = "explored"
    /\ call = "plan"
    /\ truncated
    /\ Returns([kind |-> "error", error |-> "StateSpaceLimitExceeded"])

(* Graph::new refuses a cost, or shortest_path meets an overflow. *)
AnswerGraphError ==
    /\ phase = "explored"
    /\ call = "plan"
    /\ ~truncated
    /\ goalStates # {}
    /\ Accepted => \E r \in CheapestRoutes : RouteCost(r) > MaxCost
    /\ Returns([kind |-> "error", error |-> "Graph"])

(* plan has a second branch for a sink that no path reaches; a recorded    *)
(* goal state always is on a route.                                        *)
AnswerNone ==
    /\ phase = "explored"
    /\ call = "plan"
    /\ ~truncated
    /\ goalStates = {}
    /\ Returns([kind |-> "none"])

(* Mutants of AnswerPlan: the sink is cut off twice, so that the last step *)
(* is lost; the flag truncated is not looked at.                           *)
AnswerPlanCutShort ==
    /\ phase = "explored"
    /\ call = "plan"
    /\ ~truncated
    /\ Accepted
    /\ \E r \in CheapestRoutes :
          /\ RouteCost(r) <= MaxCost
          /\ Returns([kind  |-> "plan",
                      steps |-> [i \in 1..(Len(r) - 2) |-> edges[<<r[i], r[i + 1]>>].name],
                      cost  |-> RouteCost(r)])

AnswerPlanAnyway ==
    /\ phase = "explored"
    /\ call = "plan"
    /\ Accepted
    /\ \E r \in CheapestRoutes :
          /\ RouteCost(r) <= MaxCost
          /\ Returns([kind  |-> "plan",
                      steps |-> [i \in 1..(Len(r) - 1) |-> edges[<<r[i], r[i + 1]>>].name],
                      cost  |-> RouteCost(r)])

AnswerPlan ==
    /\ phase = "explored"
    /\ call = "plan"
    /\ ~truncated
    /\ Accepted
    /\ \E r \in CheapestRoutes :
          /\ RouteCost(r) <= MaxCost
          /\ Returns([kind  |-> "plan",
                      steps |-> [i \in 1..(Len(r) - 1) |-> edges[<<r[i], r[i + 1]>>].name],
                      cost  |-> RouteCost(r)])

(* The call has returned. *)
Done == phase = "answered" /\ UNCHANGED vars

Explore == \/ Begin \/ Truncate \/ Pop \/ Skip \/ Follow \/ Expanded \/ Exhausted

Respond == \/ AnswerAtOnce \/ AnswerGraph \/ AnswerTooLarge \/ AnswerNone
           \/ AnswerGraphError \/ AnswerPlan

Next == Explore \/ Respond \/ Done

Spec     == Init /\ [][Next]_vars
FairSpec == Spec /\ WF_vars(Next)

=============================================================================
