---------------------------- MODULE PlannerActor ----------------------------
(***************************************************************************)
(* Plans off-thread and coalesces requests (actors/planner.rs): while a    *)
(* plan is in flight only the most recent request is kept.                 *)
(***************************************************************************)
EXTENDS RuntimeState

OutsidePlanner == <<worldVars, supervisorVars, executorVars, sensorVars,
                    driverVars, worldBox, executorBox>>

(* spawn_plan: start a detached plan() call for a snapshot. *)
SpawnPlan(snapshot) == planTask' = {snapshot} /\ planned' = snapshot

(* Mutant of PlanReturns: answers with the freshest snapshot it knows. *)
PlanReturnsPendingSnapshot ==
    /\ \E s \in planTask : \E r \in PlanResults[s.facts] :
          plannerBox' = Send(plannerBox, "planner",
             [type |-> "PlanComputed", result |-> r,
              snapshot |-> IF planPending = {} THEN s ELSE CHOOSE p \in planPending : TRUE])
    /\ planTask' = {}
    /\ UNCHANGED <<OutsidePlanner, planBusy, planPending, planned,
                   supervisorBox, wired, stopped>>

(* The detached call returns and is posted back to the planner's mailbox. *)
PlanReturns ==
    /\ \E s \in planTask : \E r \in PlanResults[s.facts] :
          plannerBox' = Send(plannerBox, "planner",
                             [type |-> "PlanComputed", result |-> r, snapshot |-> s])
    /\ planTask' = {}
    /\ UNCHANGED <<OutsidePlanner, planBusy, planPending, planned, supervisorBox,
                   wired, stopped>>

PlannerStartsPlan ==
    /\ IsNext(plannerBox, "PlanRequest")
    /\ ~planBusy
    /\ planBusy' = TRUE
    /\ SpawnPlan(Head(plannerBox).snapshot)
    /\ plannerBox' = Tail(plannerBox)
    /\ UNCHANGED <<OutsidePlanner, planPending, supervisorBox, wired, stopped>>

PlannerCoalesces ==
    /\ IsNext(plannerBox, "PlanRequest")
    /\ planBusy
    /\ planPending' = {Head(plannerBox).snapshot}
    /\ plannerBox' = Tail(plannerBox)
    /\ UNCHANGED <<OutsidePlanner, planBusy, planTask, planned, supervisorBox,
                   wired, stopped>>

(* Tell the supervisor the result, if it is wired. *)
Report ==
    supervisorBox' =
        IF "planner.supervisor" \in wired
        THEN Send(supervisorBox, "supervisor",
                  [type |-> "PlanReady", result |-> Head(plannerBox).result,
                   snapshot |-> Head(plannerBox).snapshot])
        ELSE supervisorBox

(* Mutants of PlannerReports: the pending request is forgotten; the planner *)
(* becomes idle beside the follow-up plan; it never becomes idle again.     *)
ReportsForgettingPending ==
    /\ IsNext(plannerBox, "PlanComputed")
    /\ Report
    /\ plannerBox' = Tail(plannerBox)
    /\ planBusy' = FALSE
    /\ planPending' = {}
    /\ UNCHANGED <<OutsidePlanner, planTask, planned, wired, stopped>>

ReportsClearingBusy ==
    /\ IsNext(plannerBox, "PlanComputed")
    /\ Report
    /\ plannerBox' = Tail(plannerBox)
    /\ planBusy' = FALSE
    /\ \/ planPending = {} /\ UNCHANGED <<planPending, planTask, planned>>
       \/ /\ \E next \in planPending : SpawnPlan(next)
          /\ planPending' = {}
    /\ UNCHANGED <<OutsidePlanner, wired, stopped>>

ReportsStayingBusy ==
    /\ IsNext(plannerBox, "PlanComputed")
    /\ Report
    /\ plannerBox' = Tail(plannerBox)
    /\ \/ planPending = {} /\ UNCHANGED <<planPending, planTask, planned>>
       \/ /\ \E next \in planPending : SpawnPlan(next)
          /\ planPending' = {}
    /\ UNCHANGED <<OutsidePlanner, planBusy, wired, stopped>>

(* Report the result, then run the coalesced request, if there is one. *)
PlannerReports ==
    /\ IsNext(plannerBox, "PlanComputed")
    /\ Report
    /\ plannerBox' = Tail(plannerBox)
    /\ \/ /\ planPending = {}
          /\ planBusy' = FALSE
          /\ UNCHANGED <<planPending, planTask, planned>>
       \/ /\ \E next \in planPending : SpawnPlan(next)
          /\ planPending' = {}
          /\ UNCHANGED planBusy
    /\ UNCHANGED <<OutsidePlanner, wired, stopped>>

PlannerWires ==
    /\ Wire(plannerBox)
    /\ plannerBox' = Tail(plannerBox)
    /\ UNCHANGED <<OutsidePlanner, plannerVars, supervisorBox, stopped>>

PlannerStops ==
    /\ Halt(plannerBox, "planner")
    /\ plannerBox' = <<>>
    /\ UNCHANGED <<OutsidePlanner, plannerVars, supervisorBox, wired>>

PlannerStep == \/ PlannerStartsPlan \/ PlannerCoalesces \/ PlannerReports
               \/ PlannerWires \/ PlannerStops

=============================================================================
