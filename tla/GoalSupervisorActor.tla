------------------------- MODULE GoalSupervisorActor -------------------------
(***************************************************************************)
(* Routes changes to the planner, decides the terminal cases, dispatches   *)
(* runnable plans (actors/goal_supervisor.rs).  There is one planner.      *)
(***************************************************************************)
EXTENDS RuntimeState

OutsideSupervisor == <<worldVars, plannerVars, executorVars, sensorVars,
                       driverVars, worldBox>>

(* Mutant of Finish: a later report replaces the first. *)
FinishAgain(o) ==
    /\ done' = TRUE
    /\ completion' = {o}

(* Fire the terminal outcome exactly once. *)
Finish(o) ==
    /\ done' = TRUE
    /\ completion' = IF done THEN completion ELSE {o}

(* Mutant of SupervisorForwardsChange: done is not looked at. *)
ForwardsChangeOnceDone ==
    /\ IsNext(supervisorBox, "StateChanged")
    /\ plannerBox' = Send(plannerBox, "planner",
                          [type |-> "PlanRequest", snapshot |-> Head(supervisorBox).snapshot])
    /\ supervisorBox' = Tail(supervisorBox)
    /\ UNCHANGED <<OutsideSupervisor, supervisorVars, executorBox, wired, stopped>>

SupervisorForwardsChange ==
    /\ IsNext(supervisorBox, "StateChanged")
    /\ plannerBox' =
          IF done \/ "supervisor.planners" \notin wired THEN plannerBox
          ELSE Send(plannerBox, "planner",
                    [type |-> "PlanRequest", snapshot |-> Head(supervisorBox).snapshot])
    /\ supervisorBox' = Tail(supervisorBox)
    /\ UNCHANGED <<OutsideSupervisor, supervisorVars, executorBox, wired, stopped>>

SupervisorIgnoresPlan ==
    /\ IsNext(supervisorBox, "PlanReady")
    /\ done
    /\ supervisorBox' = Tail(supervisorBox)
    /\ UNCHANGED <<OutsideSupervisor, supervisorVars, plannerBox, executorBox, wired, stopped>>

(* A planner error ends the run in every mode. *)
SupervisorMeetsPlannerError ==
    /\ IsNext(supervisorBox, "PlanReady")
    /\ ~done
    /\ Head(supervisorBox).result.kind = "error"
    /\ Finish("Error")
    /\ supervisorBox' = Tail(supervisorBox)
    /\ UNCHANGED <<OutsideSupervisor, plannerBox, executorBox, wired, stopped>>

(* No plan and an empty plan end a --once run only. *)
SupervisorHasNothingToRun ==
    /\ IsNext(supervisorBox, "PlanReady")
    /\ ~done
    /\ Head(supervisorBox).result.kind \in {"none", "empty"}
    /\ IF Watch THEN UNCHANGED supervisorVars
       ELSE Finish(IF Head(supervisorBox).result.kind = "none"
                   THEN "NoPlan" ELSE "GoalSatisfied")
    /\ supervisorBox' = Tail(supervisorBox)
    /\ UNCHANGED <<OutsideSupervisor, plannerBox, executorBox, wired, stopped>>

SupervisorDispatches ==
    /\ IsNext(supervisorBox, "PlanReady")
    /\ ~done
    /\ Head(supervisorBox).result.kind = "steps"
    /\ executorBox' =
          IF "supervisor.executor" \in wired
          THEN Send(executorBox, "executor",
                    [type |-> "AdoptPlan", first |-> Head(supervisorBox).result.first,
                     snapshot |-> Head(supervisorBox).snapshot])
          ELSE executorBox
    /\ supervisorBox' = Tail(supervisorBox)
    /\ UNCHANGED <<OutsideSupervisor, supervisorVars, plannerBox, wired, stopped>>

SupervisorTerminates ==
    /\ IsNext(supervisorBox, "Terminate")
    /\ Finish(Head(supervisorBox).outcome)
    /\ supervisorBox' = Tail(supervisorBox)
    /\ UNCHANGED <<OutsideSupervisor, plannerBox, executorBox, wired, stopped>>

SupervisorWires ==
    /\ Wire(supervisorBox)
    /\ supervisorBox' = Tail(supervisorBox)
    /\ UNCHANGED <<OutsideSupervisor, supervisorVars, plannerBox, executorBox, stopped>>

SupervisorStops ==
    /\ Halt(supervisorBox, "supervisor")
    /\ supervisorBox' = <<>>
    /\ UNCHANGED <<OutsideSupervisor, supervisorVars, plannerBox, executorBox, wired>>

SupervisorStep == \/ SupervisorForwardsChange \/ SupervisorIgnoresPlan
                  \/ SupervisorMeetsPlannerError \/ SupervisorHasNothingToRun
                  \/ SupervisorDispatches \/ SupervisorTerminates
                  \/ SupervisorWires \/ SupervisorStops

=============================================================================
