-------------------------------- MODULE Goap --------------------------------
(***************************************************************************)
(* The planning problem of the goap-planner crate: facts, states, actions  *)
(* and goals, and what Planner::plan may answer in a state.                *)
(*                                                                         *)
(* A state is the set of the facts that hold.  The search itself (the      *)
(* breadth-first exploration and the shortest path over its result) is     *)
(* abstracted to its answer: the first step of some cheapest plan, which   *)
(* is all the runtime ever uses of a plan.                                 *)
(***************************************************************************)
EXTENDS Integers, Sequences, FiniteSets, FiniteSetsExt

CONSTANTS Fact,        \* every fact name the configuration mentions
          Action,      \* the names of the configured actions
          Library,     \* Library[a] is the specification of action a
          Actions,     \* the actions in configuration order, as a sequence
          Goal,        \* the facts the goal requires and the facts it forbids
          MaxStates,   \* Planner::max_states, the cap on explored states
          MaxCost,     \* the largest finite cost (f64::MAX)
          NaN          \* the cost that is no number

(***************************************************************************)
(* An Option<T> of the code is a set with at most one element of T.        *)
(***************************************************************************)
Option(T) == {S \in SUBSET T : \A x, y \in S : x = y}

Effects == [add : SUBSET Fact, remove : SUBSET Fact]

(* A cost is any f64.  Nothing checks it before plan hands the edges of    *)
(* the explored graph to grafo, which takes what is finite and not         *)
(* negative.  MaxCost + 1 stands for infinity; rounding is left out.       *)
Payable == 0..MaxCost
Cost    == {c \in Int : c <= MaxCost + 1} \cup {NaN}

(* c < d of f64, which is false wherever NaN is compared. *)
Cheaper(c, d) == c # NaN /\ d # NaN /\ c < d

ActionSpec == [cost : Cost,
               requires : SUBSET Fact, forbids : SUBSET Fact,
               adds : SUBSET Fact, removes : SUBSET Fact,
               onFailure : Option(Effects)]

ASSUME LibraryAssumption ==
    /\ IsFiniteSet(Fact)
    /\ Library \in [Action -> ActionSpec]
    /\ Goal \in [requires : SUBSET Fact, forbids : SUBSET Fact]
    /\ MaxStates \in Nat /\ MaxCost \in Nat /\ NaN \notin Int

ASSUME ActionsAssumption ==
    /\ Actions \in Seq(Action)
    /\ \A a \in Action : \E i \in DOMAIN Actions : Actions[i] = a

(* Config::validate refuses an action that requires what it forbids. *)
ASSUME ValidatedConfig ==
    \A a \in Action : Library[a].requires \cap Library[a].forbids = {}

State == SUBSET Fact

(* f[1] + ... + f[n], added in this order. *)
Total(f, n) ==
    LET upTo[k \in 0..n] == IF k = 0 THEN 0 ELSE upTo[k - 1] + f[k]
    IN  upTo[n]

-----------------------------------------------------------------------------
Applicable(a, s) == /\ Library[a].requires \subseteq s
                    /\ Library[a].forbids \cap s = {}

(* An action removes before it adds: a fact in both lists ends up present. *)
Apply(a, s) == (s \ Library[a].removes) \cup Library[a].adds

SatisfiedBy(s) == /\ Goal.requires \subseteq s
                  /\ Goal.forbids \cap s = {}

-----------------------------------------------------------------------------
Successors(s) == {Apply(a, s) : a \in {b \in Action : Applicable(b, s)}}

Expand(S) == S \cup UNION {Successors(s) : s \in S}

(* Every state that some sequence of actions leads to from s. *)
Reachable(s) ==
    LET within[k \in 0..Cardinality(State)] ==
            IF k = 0 THEN {s} ELSE Expand(within[k - 1])
    IN  within[Cardinality(State)]

-----------------------------------------------------------------------------
(* The actions that lead from s to t, as positions in the library. *)
Connecting(s, t) ==
    {i \in DOMAIN Actions : Applicable(Actions[i], s) /\ Apply(Actions[i], s) = t}

CostAt(i) == Library[Actions[i]].cost

(* The position the search keeps of I: the first of the cheapest, but a    *)
(* NaN only if it comes first, and then for good.                          *)
IsBest(i, I) ==
    /\ i \in I
    /\ \A j \in I : ~Cheaper(CostAt(j), CostAt(i))
    /\ \A j \in I : j < i => \/ Cheaper(CostAt(i), CostAt(j))
                             \/ /\ CostAt(j) = NaN /\ CostAt(i) # NaN
                                /\ \E k \in I : k < j

(* An edge of the graph explored from s has a cost that grafo refuses. *)
Refused(s) ==
    \E t \in Reachable(s) : \E u \in Successors(t) : \E i \in Connecting(t, u) :
        IsBest(i, Connecting(t, u)) /\ CostAt(i) \notin Payable

(***************************************************************************)
(* <<s, c>> is in Plans iff some plan of at most |State| steps from s to   *)
(* the goal costs c.  A cheapest plan needs no more steps than that, and   *)
(* where no edge is refused it takes only actions at a price.              *)
(***************************************************************************)
Priced == {a \in Action : Library[a].cost \in Payable}

Lengthen(plans) ==
    plans \cup UNION {{<<s, Library[a].cost + p[2]>> :
                          s \in {t \in State : Applicable(a, t) /\ Apply(a, t) = p[1]}} :
                      a \in Priced, p \in plans}

Plans ==
    LET ofLength[k \in 0..Cardinality(State)] ==
            IF k = 0 THEN {<<s, 0>> : s \in {t \in State : SatisfiedBy(t)}}
                     ELSE Lengthen(ofLength[k - 1])
    IN  ofLength[Cardinality(State)]

CostsFrom(s) == {p[2] : p \in {q \in Plans : q[1] = s}}

(* The actions a cheapest plan from s may start with; ties are all kept.   *)
(* With free actions that includes the steps of a free detour.             *)
FirstSteps(s) ==
    {a \in Priced :
        /\ Applicable(a, s)
        /\ CostsFrom(Apply(a, s)) # {}
        /\ Min(CostsFrom(s)) - Library[a].cost \in CostsFrom(Apply(a, s))}

GoalInReach(s) == \E t \in Reachable(s) : SatisfiedBy(t)

(* PlannerError::Graph: grafo refuses a cost, or every plan's overflows. *)
GraphFails(s) == GoalInReach(s) /\ (Refused(s) \/ Min(CostsFrom(s)) > MaxCost)

-----------------------------------------------------------------------------
(* Result<Option<Plan>, _>: an error, no plan, an empty plan, or steps. *)
PlanResult == [kind : {"error", "none", "empty"}]
              \cup [kind : {"steps"}, first : Action]

NoSteps(k) == [kind |-> k]
Starting(a) == [kind |-> "steps", first |-> a]

(***************************************************************************)
(* What plan(s, Goal) may return.  A satisfied goal is recognised before   *)
(* the exploration, and the lack of a plan before grafo is called.         *)
(***************************************************************************)
PlanResults ==
    [s \in State |->
        IF SatisfiedBy(s) THEN {NoSteps("empty")}
        ELSE IF Cardinality(Reachable(s)) > MaxStates THEN {NoSteps("error")}
        ELSE IF ~GoalInReach(s) THEN {NoSteps("none")}
        ELSE IF GraphFails(s) THEN {NoSteps("error")}
        ELSE {Starting(a) : a \in FirstSteps(s)}]

=============================================================================
