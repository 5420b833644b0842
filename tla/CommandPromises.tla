-------------------------- MODULE CommandPromises --------------------------
(***************************************************************************)
(* What the short commands of uncharles promise: what an inspection finds, *)
(* how it relates to a run, and what the exit codes mean.                  *)
(***************************************************************************)
EXTENDS Commands

Inspections == {r \in report : r.format \in {"text", "dot", "mermaid", "json"}}

(* What an inspection finds is true of every world it can reach from the   *)
(* state it prints: an orphan action can never be applied and a fact of    *)
(* the goal without a producer keeps the goal out of reach, unless --have  *)
(* supplies the fact; and in a graph that is not cut short the dead ends   *)
(* are exactly the states without a move that are not the goal's           *)
(* (inspect.rs, analyse).                                                  *)
FindingsAreSound ==
    \A r \in Inspections :
        LET worlds == Reachable(r.initial)
        IN  /\ \A o \in r.findings.orphans :
                  o[2] \in command.have \/ \A w \in worlds : ~Applicable(o[1], w)
            /\ r.findings.unreachable \subseteq command.have \/ \A w \in worlds : ~SatisfiedBy(w)
            /\ ~r.graph.truncated =>
                  r.findings.deadEnds =
                      {w \in worlds : ~SatisfiedBy(w) /\ \A a \in Action : ~Applicable(a, w)}

(* The simulated state is the best case of a run: when every sensor has    *)
(* succeeded the planner is called in that state, whatever the order of    *)
(* their effects, except that a run seeds the --have facts first, so that  *)
(* a sensor can take one away (inspect.rs, simulate_initial_state).        *)
SimulationIsTheBestCase ==
    /\ command.name = "run"
    /\ Len(succeeded) = Len(SweepOrder)
    /\ \A i \in DOMAIN succeeded : succeeded[i]
    =>  /\ SimulatedInitialState({}) \subseteq initial
        /\ initial \subseteq SimulatedInitialState(command.have)

(* Whether plan fails and with what: beyond the cap, or in grafo, which    *)
(* refuses a cost or runs into an overflow; never where the goal holds.    *)
PlanFails(e) ==
    /\ ~SatisfiedBy(initial)
    /\ CASE e = "StateSpaceLimitExceeded" -> Cardinality(Reachable(initial)) > MaxStates
         [] e = "Graph" -> /\ Cardinality(Reachable(initial)) <= MaxStates
                           /\ GraphFails(initial)

(* The exit code of a run tells whether a plan exists: 1 never hides one   *)
(* that the search missed, and 2 after the sensors is the cap or grafo     *)
(* (main.rs).                                                              *)
RunCodeMeans(code) ==
    /\ code = 0 => GoalInReach(initial) /\ \A e \in PlannerError : ~PlanFails(e)
    /\ code = 1 => ~GoalInReach(initial)
    /\ code = 2 /\ phase = "answered" =>
          \E a \in answer : a.kind = "error" /\ PlanFails(a.error)

(* Exit code 0 of an inspection whose graph is complete: no sequence of    *)
(* actions can get stuck outside the goal.                                 *)
InspectCodeMeans(code, r) ==
    code = 0 /\ ~r.graph.truncated =>
        \A w \in Reachable(r.initial) : SatisfiedBy(w) \/ Successors(w) # {}

(* The exit codes mean what scripts take them for, and a command that      *)
(* could not read its configuration has not called the planner (main.rs).  *)
ExitCodeMeans ==
    \A code \in exit :
        /\ command.name = "run" /\ stage = "exited" /\ Len(succeeded) = Len(SweepOrder)
               => RunCodeMeans(code)
        /\ \A r \in Inspections : InspectCodeMeans(code, r)
        /\ code # 2 /\ command.name \in {"run", "inspect"} => phase = "answered"

(* Every command ends: the exploration does not go round in circles.       *)
CommandEnds == <>(stage = "exited")

=============================================================================
