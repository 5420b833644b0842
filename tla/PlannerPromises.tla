-------------------------- MODULE PlannerPromises --------------------------
(***************************************************************************)
(* What a call of the planner promises: what the exploration returns and   *)
(* how the plan relates to the planning problem.                           *)
(***************************************************************************)
EXTENDS PlannerSearch

ExplorationOK ==
    /\ call \in Call /\ initial \in State
    /\ phase \in {"called", "exploring", "explored", "answered"}
    /\ discovered \subseteq State
    /\ DOMAIN edges \subseteq State \X State
    /\ edges \in [DOMAIN edges -> Edge]
    /\ goalStates \subseteq State
    /\ queue \in Seq(State)
    /\ expanding \in Option(State)
    /\ next \in Nat \ {0}
    /\ truncated \in BOOLEAN

(* Every variable holds what its declaration in the code allows. *)
TypeOK == ExplorationOK /\ answer \in Option(Answer)

-----------------------------------------------------------------------------
(* The exploration is over, and it has taken place. *)
Explored == phase \in {"explored", "answered"} /\ discovered # {}

(* The cap is exact: an exploration is cut short if and only if more than  *)
(* MaxStates states are reachable, although the test is made only when a   *)
(* state is popped (planner.rs, the head of the loop of bfs_raw).          *)
CapIsExact == Explored => (truncated <=> Cardinality(Reachable(initial)) > MaxStates)

(* At every moment, hence also when it is cut short, the graph is          *)
(* consistent: materialise looks every endpoint and goal state up in the   *)
(* states and would panic (explore.rs, truncated: "still usable").         *)
GraphIsConsistent ==
    /\ \A e \in DOMAIN edges : e[1] \in discovered /\ e[2] \in discovered
    /\ goalStates = Satisfying(discovered)

(* An exploration that is not cut short returns the whole graph: all       *)
(* reachable states, an edge wherever an action leads from one to another, *)
(* with the action that is kept of those that do, whatever their costs     *)
(* (bfs_raw, edge_map).                                                    *)
ExplorationIsExact ==
    Explored /\ ~truncated =>
        /\ discovered = Reachable(initial)
        /\ DOMAIN edges = {e \in discovered \X discovered : Connecting(e[1], e[2]) # {}}
        /\ \A e \in DOMAIN edges : \E i \in Connecting(e[1], e[2]) :
              IsBest(i, Connecting(e[1], e[2])) /\ edges[e] = [cost |-> CostAt(i), name |-> Actions[i]]

-----------------------------------------------------------------------------
(* The states that the steps of a plan pass through. *)
Passing(steps) ==
    LET after[i \in 0..Len(steps)] ==
            IF i = 0 THEN initial ELSE Apply(steps[i], after[i - 1])
    IN  after

(* The steps can be taken one after the other and end in a goal state. *)
ReachesGoal(steps) ==
    /\ \A i \in DOMAIN steps : Applicable(steps[i], Passing(steps)[i - 1])
    /\ SatisfiedBy(Passing(steps)[Len(steps)])

CostOf(steps) == Total([i \in DOMAIN steps |-> Library[steps[i]].cost], Len(steps))

(* A plan can be executed from the initial state, step by step, it ends in *)
(* a goal state, it costs what its steps cost, each of them at a price,    *)
(* and no plan costs less (planner.rs, plan).                              *)
PlanIsCheapest ==
    \A p \in {q \in answer : q.kind = "plan"} :
        /\ ReachesGoal(p.steps)
        /\ \A i \in DOMAIN p.steps : p.steps[i] \in Priced
        /\ p.cost = CostOf(p.steps)
        /\ p.cost = Min(CostsFrom(initial))

(* What the runtime takes from an answer. *)
ResultOf(a) == IF a.kind # "plan" THEN NoSteps(a.kind)
               ELSE IF a.steps = <<>> THEN NoSteps("empty") ELSE Starting(a.steps[1])

(* The search answers what the problem allows: an error beyond the cap or  *)
(* where grafo fails, no plan only if there is none, else the first step   *)
(* of a cheapest plan.                                                     *)
(* This is what the runtime modules assume of plan (planner.rs, plan).     *)
AnswerIsAllowed ==
    call = "plan" => \A a \in answer : ResultOf(a) \in PlanResults[initial]

=============================================================================
