------------------------------ MODULE Sensing ------------------------------
(***************************************************************************)
(* The sensors of a configuration and what one run of a sensor's command   *)
(* does to the facts and the captured values (uncharles/src/run.rs and     *)
(* config.rs).  The command itself belongs to the outside world: it        *)
(* succeeds or fails, and prints one of a few values.                      *)
(***************************************************************************)
EXTENDS Goap, Sequences

CONSTANTS Sensor,          \* sensor names; a sensor's name is also a fact name
          SensorSpec,      \* SensorSpec[n] is the specification of sensor n
          SweepOrder,      \* the sensors in configuration order
          Value            \* what a capturing sensor may print

ASSUME SensingAssumption ==
    /\ Sensor \subseteq Fact
    /\ SensorSpec \in [Sensor -> [onSuccess : Option(Effects),
                                  onFailure : Option(Effects),
                                  capture : BOOLEAN]]
    /\ SweepOrder \in Seq(Sensor)
    /\ \A n \in Sensor : \E i \in DOMAIN SweepOrder : SweepOrder[i] = n

-----------------------------------------------------------------------------
(* SensorSpec::effects_for: by default a sensor owns the fact of its name. *)
EffectsFor(n, success) ==
    LET declared == IF success THEN SensorSpec[n].onSuccess
                               ELSE SensorSpec[n].onFailure
        default  == IF success THEN [add |-> {n}, remove |-> {}]
                               ELSE [add |-> {}, remove |-> {n}]
    IN  IF declared = {} THEN default ELSE CHOOSE e \in declared : TRUE

Reading == [sensor : Sensor, added : SUBSET Fact, removed : SUBSET Fact,
            captured : Option(Value)]

(* Only a command that succeeds has its output captured. *)
Captures(n, success) ==
    IF success /\ SensorSpec[n].capture THEN {{v} : v \in Value} ELSE {{}}

ReadingOf(n, success, c) ==
    [sensor |-> n, added |-> EffectsFor(n, success).add,
     removed |-> EffectsFor(n, success).remove, captured |-> c]

(* read_sensor: the readings one run of the command of sensor n can give.  *)
ReadSensor(n) ==
    UNION {{ReadingOf(n, success, c) : c \in Captures(n, success)} : success \in BOOLEAN}

(* apply_reading: additions, then the captured value, then removals, which *)
(* drop the value of a fact with the fact.                                 *)
ApplyReading(w, r) ==
    [w EXCEPT !.facts = (@ \cup r.added) \ r.removed,
              !.values = [n \in Sensor |->
                            IF n \in r.removed THEN {}
                            ELSE IF n = r.sensor /\ r.captured # {}
                                 THEN r.captured ELSE @[n]]]

=============================================================================
