---------------------------- MODULE RuntimeState ----------------------------
(***************************************************************************)
(* What the actors of the uncharles runtime share: the configuration, the  *)
(* messages of src/uncharles/src/actors/messages.rs, and the state of the  *)
(* whole runtime.  The modules WorldStateActor, PlannerActor,              *)
(* GoalSupervisorActor, ExecutorActor, SensorActor and RuntimeDriver give  *)
(* the handlers; AgentRuntime composes them.                               *)
(*                                                                         *)
(*   sensors --ApplyReading--> world --StateChanged--> supervisor          *)
(*   supervisor --PlanRequest--> planner --PlanReady--> supervisor         *)
(*   supervisor --AdoptPlan--> executor --ApplyActionEffects--> world      *)
(*                                                                         *)
(* Every actor handles one message at a time, in the order of its mailbox. *)
(* Planning and the command of an action run in detached tasks, which post *)
(* their result to the actor that started them.  Mailboxes belong to the   *)
(* kameo library: unbounded FIFO queues here.  The events sent to the      *)
(* driver for display are in ExecuteCommand.                               *)
(***************************************************************************)
EXTENDS Sensing

CONSTANTS Seed,            \* the facts given on the command line
          CommandResults,  \* CommandResults[a]: how the command of a may end
          MaxActions,      \* RuntimeParams::max_actions
          Watch,           \* RuntimeParams::watch; FALSE is --once
          SignalsArrive,   \* may the operator send SIGINT or SIGTERM?
          MaxReadings      \* bound on the readings sensors send after start-up

CommandResult == {"success", "failure", "error"}

ASSUME RuntimeAssumption ==
    /\ Seed \subseteq Fact
    /\ CommandResults \in [Action -> SUBSET CommandResult]
    /\ MaxActions \in Nat
    /\ Watch \in BOOLEAN
    /\ SignalsArrive \in BOOLEAN
    /\ MaxReadings \in Nat

-----------------------------------------------------------------------------
(***************************************************************************)
(* A WorldSnapshot.  values[n] is the value captured under the name n, if  *)
(* any.  The field epoch is not in the code: it counts the action effects  *)
(* applied so far, so that a snapshot shows which of them it has seen.     *)
(***************************************************************************)
Snapshot == [facts : State, values : [Sensor -> Option(Value)], epoch : Nat]

(* Mutant of ApplyEffects: the values of the removed facts survive. *)
ApplyEffectsKeepingValues(w, adds, removes) ==
    [w EXCEPT !.facts = (@ \ removes) \cup adds, !.epoch = @ + 1]

(* ApplyActionEffects: removals (with their values), then additions. *)
ApplyEffects(w, adds, removes) ==
    [facts  |-> (w.facts \ removes) \cup adds,
     values |-> [n \in Sensor |-> IF n \in removes THEN {} ELSE w.values[n]],
     epoch  |-> w.epoch + 1]

-----------------------------------------------------------------------------
(* Messages.  Ref names the cross-references the Set* messages inject.     *)

Actor == {"world", "supervisor", "planner", "executor"}

Ref == {"world.subscriber", "planner.supervisor", "supervisor.planners",
        "supervisor.executor", "executor.world", "executor.supervisor"}

Outcome == {"GoalSatisfied", "NoPlan", "ActionFailed", "MaxActionsReached",
            "Error", "Interrupted"}

SetRef == [type : {"SetRef"}, ref : Ref]
Stop   == [type : {"Stop"}]

WorldMsg == [type : {"ApplyReading"}, reading : Reading]
            \cup [type : {"ApplyActionEffects"},
                  adds : SUBSET Fact, removes : SUBSET Fact]
            \cup [type : {"Bootstrap"}] \cup SetRef \cup Stop

SupervisorMsg == [type : {"StateChanged"}, snapshot : Snapshot]
                 \cup [type : {"PlanReady"}, result : PlanResult,
                       snapshot : Snapshot]
                 \cup [type : {"Terminate"}, outcome : Outcome]
                 \cup SetRef \cup Stop

PlannerMsg == [type : {"PlanRequest"}, snapshot : Snapshot]
              \cup [type : {"PlanComputed"}, result : PlanResult,
                    snapshot : Snapshot]
              \cup SetRef \cup Stop

AdoptPlan == [type : {"AdoptPlan"}, first : Action, snapshot : Snapshot]

ExecutorMsg == AdoptPlan
               \cup [type : {"ActionFinished"}, action : Action,
                     result : CommandResult]
               \cup SetRef \cup Stop

ActionTask == [action : Action, snapshot : Snapshot]

-----------------------------------------------------------------------------
VARIABLES
    world,        \* WorldStateActor: state and values, as a snapshot
    wired,        \* the cross-references that have been injected, all actors
    planBusy,     \* PlannerActor.busy
    planPending,  \* PlannerActor.pending
    done,         \* GoalSupervisorActor.done
    completion,   \* the outcome sent on the oneshot channel, if any
    latest,       \* ExecutorActor.latest
    execBusy,     \* ExecutorActor.busy
    executed,     \* ExecutorActor.executed
    sensors,      \* sensors[n]: what the actor of sensor n is doing
    planTask,     \* the snapshot of the detached plan() call, if one runs
    actionTask,   \* the detached command of an action, if one runs
    worldBox, supervisorBox, plannerBox, executorBox,    \* the mailboxes
    stopped,      \* the actors that have handled their Stop
    driver,       \* the phase AgentRuntime::run is in
    at,           \* position within the phase
    outcome,      \* what AgentRuntime::run is to return, once known
    readings,     \* readings sent by sensor actors, bounded by MaxReadings
    planned       \* history: the snapshot handed to the latest plan() call

worldVars      == <<world>>
plannerVars    == <<planBusy, planPending, planTask, planned>>
supervisorVars == <<done, completion>>
executorVars   == <<latest, execBusy, executed, actionTask>>
sensorVars     == <<sensors, readings>>
driverVars     == <<driver, at, outcome>>
boxes          == <<worldBox, supervisorBox, plannerBox, executorBox>>

vars == <<worldVars, plannerVars, supervisorVars, executorVars, sensorVars,
          driverVars, boxes, wired, stopped>>

-----------------------------------------------------------------------------
(* A message for an actor that has stopped is lost: tell returns an error  *)
(* and every caller ignores it.                                            *)
Send(box, actor, m) == IF actor \in stopped THEN box ELSE Append(box, m)

(* The next message of a mailbox is of type t. *)
IsNext(box, t) == box # <<>> /\ Head(box).type = t

Has(box, t) == \E i \in DOMAIN box : box[i].type = t

(* A Set* message injects a cross-reference. *)
Wire(box) == IsNext(box, "SetRef") /\ wired' = wired \cup {Head(box).ref}

(* A graceful stop waits its turn in the mailbox; what is behind it is lost. *)
Halt(box, actor) == IsNext(box, "Stop") /\ stopped' = stopped \cup {actor}

=============================================================================
