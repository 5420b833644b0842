----------------------------- MODULE ActionLoop -----------------------------
(***************************************************************************)
(* What the runtime promises about acting, with no actors and no messages: *)
(* one action at a time, each the first step of a cheapest plan for some   *)
(* state, at most MaxActions of them, a finished command always counted    *)
(* unless it could not be run, none abandoned before the verdict, and one  *)
(* verdict.                                                                *)
(***************************************************************************)
EXTENDS Naturals

CONSTANTS State,           \* the states to plan from
          PlanResults,     \* PlanResults[s]: what plan may answer in state s
          CommandResults,  \* CommandResults[a]: how the command of a may end
          MaxActions       \* the cap

VARIABLES running,    \* the action in flight, if there is one
          executed,   \* how many actions have been executed
          verdict     \* how the run ends, once decided

vars == <<running, executed, verdict>>

Verdict == {"GoalSatisfied", "NoPlan", "ActionFailed", "MaxActionsReached",
            "Error", "Interrupted"}

Init == running = {} /\ executed = 0 /\ verdict = {}

Start == /\ running = {}
         /\ executed < MaxActions
         /\ \E s \in State : \E r \in PlanResults[s] :
               r.kind = "steps" /\ running' = {r.first}
         /\ UNCHANGED <<executed, verdict>>

Finish == /\ running # {}
          /\ running' = {}
          /\ executed' = executed + 1
          /\ UNCHANGED verdict

(* A command that could not be run is not counted. *)
Break == /\ \E a \in running : "error" \in CommandResults[a]
         /\ running' = {}
         /\ UNCHANGED <<executed, verdict>>

(* Only a run that is over forgets the action in flight. *)
Abandon == /\ running # {}
           /\ verdict # {}
           /\ running' = {}
           /\ UNCHANGED <<executed, verdict>>

Decide == /\ verdict = {}
          /\ \E v \in Verdict : verdict' = {v}
          /\ UNCHANGED <<running, executed>>

Next == Start \/ Finish \/ Break \/ Abandon \/ Decide

Spec == Init /\ [][Next]_vars

=============================================================================
