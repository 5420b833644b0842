---------------------------- MODULE RuntimeDriver ----------------------------
(***************************************************************************)
(* The task that runs AgentRuntime::run (actors/runtime.rs): it sweeps the *)
(* sensors, wires the actors, starts the sensors, kicks the first plan,    *)
(* waits for an outcome or a stop signal, and stops the actors.            *)
(***************************************************************************)
EXTENDS RuntimeState

OutsideDriver == <<plannerVars, supervisorVars, executorVars, wired, stopped>>

(* The wiring messages, in the order they are sent. *)
Wiring == << [to |-> "world",      ref |-> "world.subscriber"],
             [to |-> "planner",    ref |-> "planner.supervisor"],
             [to |-> "supervisor", ref |-> "supervisor.planners"],
             [to |-> "supervisor", ref |-> "supervisor.executor"],
             [to |-> "executor",   ref |-> "executor.world"],
             [to |-> "executor",   ref |-> "executor.supervisor"] >>

(* The actors in the order they are stopped, after the sensors. *)
StopOrder == << "executor", "planner", "supervisor", "world" >>

(* Post a message of the driver to one actor. *)
Post(actor, m) ==
    /\ worldBox' = IF actor = "world" THEN Send(worldBox, actor, m) ELSE worldBox
    /\ supervisorBox' = IF actor = "supervisor"
                        THEN Send(supervisorBox, actor, m) ELSE supervisorBox
    /\ plannerBox' = IF actor = "planner"
                     THEN Send(plannerBox, actor, m) ELSE plannerBox
    /\ executorBox' = IF actor = "executor"
                      THEN Send(executorBox, actor, m) ELSE executorBox

-----------------------------------------------------------------------------
(* One sensor of the opening sweep; its reading is applied before the next *)
(* sensor runs (ask), or is skipped if the command could not be run.       *)
Sweep ==
    /\ driver = "sweep"
    /\ at <= Len(SweepOrder)
    /\ \/ \E r \in ReadSensor(SweepOrder[at]) : world' = ApplyReading(world, r)
       \/ UNCHANGED world
    /\ at' = at + 1
    /\ UNCHANGED <<OutsideDriver, sensorVars, boxes, driver, outcome>>

SweepEnds ==
    /\ driver = "sweep"
    /\ at > Len(SweepOrder)
    /\ driver' = "wire"
    /\ at' = 1
    /\ UNCHANGED <<OutsideDriver, worldVars, sensorVars, boxes, outcome>>

(* Mutant of WireNext: one step past the last wiring message. *)
WireNextTooFar ==
    /\ driver = "wire"
    /\ Post(Wiring[at].to, [type |-> "SetRef", ref |-> Wiring[at].ref])
    /\ IF at <= Len(Wiring) THEN at' = at + 1 /\ UNCHANGED driver
                            ELSE at' = 1 /\ driver' = "sense"
    /\ UNCHANGED <<OutsideDriver, worldVars, sensorVars, outcome>>

WireNext ==
    /\ driver = "wire"
    /\ Post(Wiring[at].to, [type |-> "SetRef", ref |-> Wiring[at].ref])
    /\ IF at < Len(Wiring) THEN at' = at + 1 /\ UNCHANGED driver
                           ELSE at' = 1 /\ driver' = "sense"
    /\ UNCHANGED <<OutsideDriver, worldVars, sensorVars, outcome>>

StartSensors ==
    /\ driver = "sense"
    /\ sensors' = [n \in Sensor |-> "polling"]
    /\ driver' = "bootstrap"
    /\ UNCHANGED <<OutsideDriver, worldVars, boxes, readings, at, outcome>>

BootstrapWorld ==
    /\ driver = "bootstrap"
    /\ Post("world", [type |-> "Bootstrap"])
    /\ driver' = "select"
    /\ UNCHANGED <<OutsideDriver, worldVars, sensorVars, at, outcome>>

-----------------------------------------------------------------------------
(* The select is biased: a fired outcome wins over a signal. *)
TakeOutcome ==
    /\ driver = "select"
    /\ completion # {}
    /\ outcome' = completion
    /\ driver' = "stopSensors"
    /\ UNCHANGED <<OutsideDriver, worldVars, sensorVars, boxes, at>>

Interrupt ==
    /\ SignalsArrive
    /\ driver = "select"
    /\ completion = {}
    /\ outcome' = {"Interrupted"}
    /\ driver' = "stopSensors"
    /\ UNCHANGED <<OutsideDriver, worldVars, sensorVars, boxes, at>>

StopSensors ==
    /\ driver = "stopSensors"
    /\ sensors' = [n \in Sensor |-> "stopping"]
    /\ driver' = "stop"
    /\ UNCHANGED <<OutsideDriver, worldVars, boxes, readings, at, outcome>>

(* stop_gracefully posts the Stop and does not wait for it to be handled. *)
StopNext ==
    /\ driver = "stop"
    /\ Post(StopOrder[at], [type |-> "Stop"])
    /\ IF at < Len(StopOrder) THEN at' = at + 1 /\ UNCHANGED driver
                              ELSE at' = 1 /\ driver' = "return"
    /\ UNCHANGED <<OutsideDriver, worldVars, sensorVars, outcome>>

(***************************************************************************)
(* run returns and the tokio runtime is dropped: that waits for a command  *)
(* that has started, and drops every task and every message.               *)
(***************************************************************************)
Exit ==
    /\ driver = "return"
    /\ driver' = "exited"
    /\ actionTask' = {}
    /\ planTask' = {}
    /\ sensors' = [n \in Sensor |-> "stopped"]
    /\ worldBox' = <<>> /\ supervisorBox' = <<>>
    /\ plannerBox' = <<>> /\ executorBox' = <<>>
    /\ UNCHANGED <<worldVars, planBusy, planPending, planned, supervisorVars,
                   latest, execBusy, executed, readings, at, outcome, wired,
                   stopped>>

(* Everything the driver does by itself; a signal is the operator's. *)
DriverStep == \/ Sweep \/ SweepEnds \/ WireNext \/ StartSensors
              \/ BootstrapWorld \/ TakeOutcome \/ StopSensors \/ StopNext
              \/ Exit

-----------------------------------------------------------------------------
(* The process exit code of `uncharles run --execute` (run_execute_mode). *)
ExitCode(o) == IF o \in {"GoalSatisfied", "Interrupted"} THEN 0
               ELSE IF o = "Error" THEN 2 ELSE 1

=============================================================================
