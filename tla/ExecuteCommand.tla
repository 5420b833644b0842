--------------------------- MODULE ExecuteCommand ---------------------------
(***************************************************************************)
(* `uncharles run --execute` as its operator sees it (main.rs,             *)
(* run_execute_mode, and actors/runtime.rs): the process around the        *)
(* runtime.  The actors send events over a channel, the driver prints them *)
(* while it waits and once more when it stops, and the exit code follows.  *)
(* A signal is heard only once the handlers are installed, when the driver *)
(* first waits; before that it kills the process.                          *)
(***************************************************************************)
EXTENDS AgentRuntime

Event == [type : {"Sensed"}]
         \cup [type : {"Planned"}, plan : {"none", "empty", "steps"}]
         \cup [type : {"Executed"}, action : Action, success : BOOLEAN]

VARIABLES
    process,    \* "loading", "running", "exited" or "killed"
    listening,  \* the signal handlers are installed
    channel,    \* the events not yet received by the driver
    screen,     \* what the operator can tell from the output so far
    exit        \* the exit code, if the process has exited

processVars == <<process, listening, channel, screen, exit>>
executeVars == <<vars, processVars>>

ExecuteInit ==
    /\ Init
    /\ process = "loading" /\ listening = FALSE /\ channel = <<>> /\ exit = {}
    /\ screen = [plan |-> "unknown", executed |-> 0, fatal |-> FALSE, complete |-> {}]

-----------------------------------------------------------------------------
(* No configuration, or an invalid one, or no async runtime. *)
CannotStart ==
    /\ process = "loading"
    /\ process' = "exited" /\ exit' = {2}
    /\ UNCHANGED <<vars, listening, channel, screen>>

Start ==
    /\ process = "loading"
    /\ process' = "running"
    /\ UNCHANGED <<vars, listening, channel, screen, exit>>

(* A step of the runtime that sends the given events. *)
Emits(A, events) ==
    /\ process = "running"
    /\ A
    /\ channel' = channel \o events
    /\ UNCHANGED <<process, listening, screen, exit>>

Silently(A) == Emits(A, <<>>)

(* A sensor of the opening sweep that could be run is reported. *)
SweepEmits ==
    \/ Emits(Sweep, <<[type |-> "Sensed"]>>)
    \/ Emits(UNCHANGED world /\ Sweep, <<>>)

WorldEmits ==
    Emits(WorldStep, IF IsNext(worldBox, "ApplyReading") THEN <<[type |-> "Sensed"]>> ELSE <<>>)

(* A planner error is reported as if there were no plan. *)
PlanShown(kind) == IF kind = "error" THEN "none" ELSE kind

SupervisorEmits ==
    Emits(SupervisorStep,
          IF IsNext(supervisorBox, "PlanReady") /\ ~done
          THEN <<[type |-> "Planned", plan |-> PlanShown(Head(supervisorBox).result.kind)]>>
          ELSE <<>>)

(* A command that could not be run at all is not reported. *)
ExecutorEmits ==
    Emits(ExecutorStep,
          IF IsNext(executorBox, "ActionFinished") /\ Head(executorBox).result # "error"
          THEN <<[type |-> "Executed", action |-> Head(executorBox).action,
                  success |-> Head(executorBox).result = "success"]>>
          ELSE <<>>)

-----------------------------------------------------------------------------
(* What an event adds to what the operator knows (emit_runtime_event).     *)
Shown(e) ==
    [screen EXCEPT
        !.plan     = IF e.type = "Planned" THEN e.plan ELSE @,
        !.executed = IF e.type = "Executed" THEN @ + 1 ELSE @,
        !.fatal    = @ \/ (/\ e.type = "Executed" /\ ~e.success
                            /\ Library[e.action].onFailure = {})]

(* The select is biased: an outcome that is there goes before the events;  *)
(* after the loop the driver receives what is there without waiting.       *)
Render ==
    /\ process = "running"
    /\ \/ driver = "select" /\ listening /\ completion = {}
       \/ driver = "return"
    /\ channel # <<>>
    /\ screen' = Shown(Head(channel))
    /\ channel' = Tail(channel)
    /\ UNCHANGED <<vars, process, listening, exit>>

(* The first time the driver waits it installs the handlers. *)
Listen ==
    /\ process = "running"
    /\ driver = "select" /\ completion = {} /\ ~listening
    /\ listening' = TRUE
    /\ UNCHANGED <<vars, process, channel, screen, exit>>

(* Mutant of Complete: the events that are left are not received. *)
CompleteUndrained ==
    /\ process = "running"
    /\ Exit
    /\ process' = "exited"
    /\ screen' = [screen EXCEPT !.complete = outcome]
    /\ exit' = {ExitCode(o) : o \in outcome}
    /\ UNCHANGED <<listening, channel>>

(* Complete is printed last, when no event is left for the moment. *)
Complete ==
    /\ process = "running" /\ channel = <<>>
    /\ Exit
    /\ process' = "exited"
    /\ screen' = [screen EXCEPT !.complete = outcome]
    /\ exit' = {ExitCode(o) : o \in outcome}
    /\ UNCHANGED <<listening, channel>>

DriverEmits ==
    \/ SweepEmits
    \/ Silently(SweepEnds \/ WireNext \/ StartSensors \/ BootstrapWorld)
    \/ Listen \/ Render
    \/ Silently(TakeOutcome \/ StopSensors \/ StopNext)
    \/ Complete

HearSignal ==
    /\ process = "running" /\ listening
    /\ Interrupt
    /\ UNCHANGED processVars

(* Without handlers SIGINT and SIGTERM end the process where it stands. *)
Kill ==
    /\ SignalsArrive
    /\ process = "running" /\ ~listening
    /\ process' = "killed"
    /\ UNCHANGED <<vars, listening, channel, screen, exit>>

Gone == process \in {"exited", "killed"} /\ UNCHANGED executeVars

ExecuteNext ==
    \/ CannotStart \/ Start
    \/ WorldEmits \/ SupervisorEmits \/ ExecutorEmits
    \/ Silently(PlannerStep) \/ Silently(PlanReturns) \/ Silently(ActionEnds)
    \/ \E n \in Sensor : Silently(SensorStep(n))
    \/ DriverEmits \/ HearSignal \/ Kill
    \/ Gone

(* As for the runtime; signals and the operator are under no obligation.   *)
ExecuteFairness ==
    /\ WF_executeVars(CannotStart \/ Start)
    /\ WF_executeVars(WorldEmits)
    /\ WF_executeVars(SupervisorEmits)
    /\ WF_executeVars(ExecutorEmits) /\ WF_executeVars(Silently(ActionEnds))
    /\ WF_executeVars(Silently(PlannerStep)) /\ WF_executeVars(Silently(PlanReturns))
    /\ WF_executeVars(DriverEmits)
    /\ \A n \in Sensor : WF_executeVars(Silently(SensorStops(n)))

ExecuteSpec == ExecuteInit /\ [][ExecuteNext]_executeVars /\ ExecuteFairness

-----------------------------------------------------------------------------
(* The output explains the verdict: although a decided run no longer waits *)
(* for events, when it exits the operator has been shown what it was       *)
(* decided by: the empty plan, the lack of one, the fatal failure, or as   *)
(* many executed actions as the cap allows; and the exit code agrees with  *)
(* the last line.  A killed process has claimed nothing (runtime.rs, the   *)
(* teardown of run; main.rs, run_execute_mode).                            *)
ScreenExplainsExit ==
    /\ process = "exited" => screen.complete = outcome
    /\ process # "exited" => screen.complete = {} /\ exit = {}
    /\ \A o \in screen.complete :
          /\ exit = {ExitCode(o)}
          /\ o = "GoalSatisfied" => screen.plan = "empty"
          /\ o = "NoPlan" => screen.plan = "none"
          /\ o = "ActionFailed" => screen.fatal
          /\ o = "MaxActionsReached" => screen.executed = MaxActions

(* A --once process ends by itself, whatever happens on the way, also when *)
(* it is asked to stop while an action is running.                         *)
ProcessEnds == <>(process \in {"exited", "killed"})

=============================================================================
