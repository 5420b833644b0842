----------------------------- MODULE SensorActor -----------------------------
(***************************************************************************)
(* The polling sensors (actors/sensor.rs).  Each sensor has a loop that    *)
(* posts it Ticks; how many wait in its mailbox is left open.  Handling a  *)
(* Tick runs the command to its end, so a sensor reports one reading at a  *)
(* time; the outside world decides what the command returns.               *)
(***************************************************************************)
EXTENDS RuntimeState

OutsideSensors == <<worldVars, plannerVars, supervisorVars, executorVars,
                    driverVars, supervisorBox, plannerBox, executorBox>>

(* Ticks queued before the Stop are still handled. *)
Polling(n) == sensors[n] \in {"polling", "stopping"}

(* The bound MaxReadings is the model's; the loop of the code has none. *)
SensorReports(n) ==
    /\ Polling(n)
    /\ readings < MaxReadings
    /\ readings' = readings + 1
    /\ \E r \in ReadSensor(n) :
          worldBox' = Send(worldBox, "world", [type |-> "ApplyReading", reading |-> r])
    /\ UNCHANGED <<OutsideSensors, sensors, wired, stopped>>

(* A command that cannot be run is skipped; the next tick retries. *)
SensorSkips(n) ==
    /\ Polling(n)
    /\ UNCHANGED vars

SensorStops(n) ==
    /\ sensors[n] = "stopping"
    /\ sensors' = [sensors EXCEPT ![n] = "stopped"]
    /\ UNCHANGED <<OutsideSensors, worldBox, readings, wired, stopped>>

SensorStep(n) == SensorReports(n) \/ SensorSkips(n) \/ SensorStops(n)

=============================================================================
