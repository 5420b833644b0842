---------------------------- MODULE ExecutorActor ----------------------------
(***************************************************************************)
(* Runs the first step of the plan it adopts, one action at a time, and    *)
(* feeds the declared effects back to the world (actors/executor.rs).      *)
(***************************************************************************)
EXTENDS RuntimeState

OutsideExecutor == <<worldVars, plannerVars, supervisorVars, sensorVars,
                     driverVars, plannerBox>>

(* ExecutorActor::terminate: tell the supervisor the run is over. *)
Terminate(o) ==
    supervisorBox' =
        IF "executor.supervisor" \in wired
        THEN Send(supervisorBox, "supervisor", [type |-> "Terminate", outcome |-> o])
        ELSE supervisorBox

(* Tell the world the effects of the action that has just finished. *)
TellEffects(adds, removes) ==
    worldBox' =
        IF "executor.world" \in wired
        THEN Send(worldBox, "world",
                  [type |-> "ApplyActionEffects", adds |-> adds, removes |-> removes])
        ELSE worldBox

-----------------------------------------------------------------------------
(* AdoptPlan, and the try_run_next it calls.                               *)

(* Mid-action the plan is only kept as the latest. *)
ExecutorKeepsPlan ==
    /\ IsNext(executorBox, "AdoptPlan")
    /\ execBusy
    /\ latest' = {Head(executorBox)}
    /\ executorBox' = Tail(executorBox)
    /\ UNCHANGED <<OutsideExecutor, execBusy, executed, actionTask, worldBox,
                   supervisorBox, wired, stopped>>

ExecutorHitsCap ==
    /\ IsNext(executorBox, "AdoptPlan")
    /\ ~execBusy
    /\ executed >= MaxActions
    /\ latest' = {}
    /\ Terminate("MaxActionsReached")
    /\ executorBox' = Tail(executorBox)
    /\ UNCHANGED <<OutsideExecutor, execBusy, executed, actionTask, worldBox,
                   wired, stopped>>

(* Mutants of ExecutorStartsAction: busy is not looked at; the cap is off *)
(* by one.                                                                *)
StartsActionWhileBusy ==
    /\ IsNext(executorBox, "AdoptPlan")
    /\ executed < MaxActions
    /\ latest' = {}
    /\ execBusy' = TRUE
    /\ actionTask' = {[action |-> Head(executorBox).first,
                       snapshot |-> Head(executorBox).snapshot]}
    /\ executorBox' = Tail(executorBox)
    /\ UNCHANGED <<OutsideExecutor, executed, worldBox, supervisorBox,
                   wired, stopped>>

StartsActionAtCap ==
    /\ IsNext(executorBox, "AdoptPlan")
    /\ ~execBusy
    /\ executed <= MaxActions
    /\ latest' = {}
    /\ execBusy' = TRUE
    /\ actionTask' = {[action |-> Head(executorBox).first,
                       snapshot |-> Head(executorBox).snapshot]}
    /\ executorBox' = Tail(executorBox)
    /\ UNCHANGED <<OutsideExecutor, executed, worldBox, supervisorBox,
                   wired, stopped>>

(* The action runs with the values of the snapshot it was planned from.    *)
ExecutorStartsAction ==
    /\ IsNext(executorBox, "AdoptPlan")
    /\ ~execBusy
    /\ executed < MaxActions
    /\ latest' = {}
    /\ execBusy' = TRUE
    /\ actionTask' = {[action |-> Head(executorBox).first,
                       snapshot |-> Head(executorBox).snapshot]}
    /\ executorBox' = Tail(executorBox)
    /\ UNCHANGED <<OutsideExecutor, executed, worldBox, supervisorBox,
                   wired, stopped>>

-----------------------------------------------------------------------------
(* The detached command ends and is posted back to the executor's mailbox. *)
ActionEnds ==
    /\ \E t \in actionTask : \E r \in CommandResults[t.action] :
          executorBox' = Send(executorBox, "executor",
                [type |-> "ActionFinished", action |-> t.action, result |-> r])
    /\ actionTask' = {}
    /\ UNCHANGED <<OutsideExecutor, latest, execBusy, executed, worldBox,
                   supervisorBox, wired, stopped>>

(* What every ActionFinished does: the plan kept mid-action is discarded. *)
TakeResult(r) ==
    /\ IsNext(executorBox, "ActionFinished")
    /\ Head(executorBox).result = r
    /\ execBusy' = FALSE
    /\ latest' = {}
    /\ executorBox' = Tail(executorBox)
    /\ UNCHANGED <<OutsideExecutor, actionTask, wired, stopped>>

(* The command could not be run at all: fatal, and not counted. *)
ExecutorMeetsError ==
    /\ TakeResult("error")
    /\ Terminate("Error")
    /\ UNCHANGED <<executed, worldBox>>

ExecutorAppliesSuccess ==
    /\ TakeResult("success")
    /\ executed' = executed + 1
    /\ LET spec == Library[Head(executorBox).action]
       IN  TellEffects(spec.adds, spec.removes)
    /\ UNCHANGED supervisorBox

(* Mutant of ExecutorRecovers: a recovered failure is not counted. *)
RecoversUncounted ==
    /\ TakeResult("failure")
    /\ \E e \in Library[Head(executorBox).action].onFailure :
          TellEffects(e.add, e.remove)
    /\ UNCHANGED <<executed, supervisorBox>>

(* A failure with an on_failure clause applies that instead. *)
ExecutorRecovers ==
    /\ TakeResult("failure")
    /\ executed' = executed + 1
    /\ \E e \in Library[Head(executorBox).action].onFailure :
          TellEffects(e.add, e.remove)
    /\ UNCHANGED supervisorBox

(* Mutant of ExecutorFails: the supervisor is not told. *)
FailsSilently ==
    /\ TakeResult("failure")
    /\ executed' = executed + 1
    /\ Library[Head(executorBox).action].onFailure = {}
    /\ UNCHANGED <<worldBox, supervisorBox>>

(* One without ends the run. *)
ExecutorFails ==
    /\ TakeResult("failure")
    /\ executed' = executed + 1
    /\ Library[Head(executorBox).action].onFailure = {}
    /\ Terminate("ActionFailed")
    /\ UNCHANGED worldBox

-----------------------------------------------------------------------------
ExecutorWires ==
    /\ Wire(executorBox)
    /\ executorBox' = Tail(executorBox)
    /\ UNCHANGED <<OutsideExecutor, executorVars, worldBox, supervisorBox, stopped>>

ExecutorStops ==
    /\ Halt(executorBox, "executor")
    /\ executorBox' = <<>>
    /\ UNCHANGED <<OutsideExecutor, executorVars, worldBox, supervisorBox, wired>>

ExecutorStep == \/ ExecutorKeepsPlan \/ ExecutorHitsCap \/ ExecutorStartsAction
                \/ ExecutorMeetsError \/ ExecutorAppliesSuccess
                \/ ExecutorRecovers \/ ExecutorFails
                \/ ExecutorWires \/ ExecutorStops

=============================================================================
