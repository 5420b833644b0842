------------------------- MODULE AgentRuntimeProofs -------------------------
(***************************************************************************)
(* Theorems about AgentRuntime, for every configuration, every number of   *)
(* sensors, actions and readings.  In this order: the types; the inductive *)
(* invariant IInv, the refinement of ActionLoop and the safety theorems    *)
(* that follow from it; the planner, which plans one world at a time; and  *)
(* the world: no update of it is lost, the agent does not rest while there *)
(* is work, no value outlives its fact, and while there are no readings no *)
(* action is chosen from a past state.                                     *)
(***************************************************************************)
EXTENDS AgentRuntime, SequenceTheorems, FiniteSetTheorems, TLAPS

-----------------------------------------------------------------------------
(***************************************************************************)
(* The types.                                                              *)
(***************************************************************************)

-----------------------------------------------------------------------------
(* Mailboxes.                                                              *)

(* Posting a message keeps a mailbox a sequence of messages of its kind. *)
LEMMA SendType ==
    ASSUME NEW Msg, NEW box \in Seq(Msg), NEW m \in Msg, NEW actor
    PROVE  Send(box, actor, m) \in Seq(Msg)
  BY DEF Send

(* The message an actor handles is of its kind, and so are the rest. *)
LEMMA ReceiveType ==
    ASSUME NEW Msg, NEW box \in Seq(Msg), box # <<>>
    PROVE  Head(box) \in Msg /\ Tail(box) \in Seq(Msg)
  BY HeadTailProperties

-----------------------------------------------------------------------------
(* The fields of a message, by its type.                                   *)

LEMMA WorldMessageFields ==
    ASSUME NEW m \in WorldMsg
    PROVE  /\ m.type = "ApplyReading" => m.reading \in Reading
           /\ m.type = "ApplyActionEffects" =>
                 m.adds \subseteq Fact /\ m.removes \subseteq Fact
           /\ m.type = "SetRef" => m.ref \in Ref
  BY DEF WorldMsg, SetRef, Stop

LEMMA SupervisorMessageFields ==
    ASSUME NEW m \in SupervisorMsg
    PROVE  /\ m.type = "StateChanged" => m.snapshot \in Snapshot
           /\ m.type = "PlanReady" =>
                 m.result \in PlanResult /\ m.snapshot \in Snapshot
           /\ m.type = "Terminate" => m.outcome \in Outcome
           /\ m.type = "SetRef" => m.ref \in Ref
  BY DEF SupervisorMsg, SetRef, Stop

LEMMA PlannerMessageFields ==
    ASSUME NEW m \in PlannerMsg
    PROVE  /\ m.type = "PlanRequest" => m.snapshot \in Snapshot
           /\ m.type = "PlanComputed" =>
                 m.result \in PlanResult /\ m.snapshot \in Snapshot
           /\ m.type = "SetRef" => m.ref \in Ref
  BY DEF PlannerMsg, SetRef, Stop

LEMMA ExecutorMessageFields ==
    ASSUME NEW m \in ExecutorMsg
    PROVE  /\ m.type = "AdoptPlan" => m \in AdoptPlan
           /\ m.type = "ActionFinished" =>
                 m.action \in Action /\ m.result \in CommandResult
           /\ m.type = "SetRef" => m.ref \in Ref
  BY DEF ExecutorMsg, AdoptPlan, SetRef, Stop

-----------------------------------------------------------------------------
(* What is computed from typed arguments is typed.                         *)

LEMMA PlanResultsType ==
    ASSUME NEW s \in State
    PROVE  PlanResults[s] \subseteq PlanResult
  BY DEF PlanResults, PlanResult, NoSteps, Starting, FirstSteps, Priced

LEMMA EffectsForType ==
    ASSUME NEW n \in Sensor, NEW success \in BOOLEAN
    PROVE  EffectsFor(n, success) \in Effects
<1> DEFINE declared == IF success THEN SensorSpec[n].onSuccess
                                  ELSE SensorSpec[n].onFailure
           chosen == CHOOSE e \in declared : TRUE
<1>1. [add |-> {n}, remove |-> {}] \in Effects /\ [add |-> {}, remove |-> {n}] \in Effects
  BY SensingAssumption DEF Effects
<1>2. declared \subseteq Effects
  BY SensingAssumption DEF Option
<1>3. declared # {} => chosen \in declared
  OBVIOUS
<1>4. EffectsFor(n, success) =
         IF declared = {}
         THEN IF success THEN [add |-> {n}, remove |-> {}]
                         ELSE [add |-> {}, remove |-> {n}]
         ELSE chosen
  BY DEF EffectsFor
<1> HIDE DEF declared, chosen
<1> QED
  BY <1>1, <1>2, <1>3, <1>4

LEMMA ReadSensorType ==
    ASSUME NEW n \in Sensor
    PROVE  ReadSensor(n) \subseteq Reading
<1> SUFFICES ASSUME NEW success \in BOOLEAN, NEW c \in Captures(n, success)
             PROVE  [sensor |-> n, added |-> EffectsFor(n, success).add,
                     removed |-> EffectsFor(n, success).remove,
                     captured |-> c] \in Reading
  BY DEF ReadSensor, ReadingOf
<1>1. c \in Option(Value)
  BY DEF Captures, Option
<1> QED
  BY <1>1, EffectsForType DEF Reading, Effects

LEMMA ApplyReadingType ==
    ASSUME NEW w \in Snapshot, NEW r \in Reading
    PROVE  ApplyReading(w, r) \in Snapshot
<1> DEFINE kept == [n \in Sensor |-> IF n \in r.removed THEN {}
                                     ELSE IF n = r.sensor /\ r.captured # {}
                                          THEN r.captured ELSE w.values[n]]
<1>1. kept \in [Sensor -> Option(Value)]
  BY DEF Snapshot, Reading, Option
<1>2. ((w.facts \cup r.added) \ r.removed) \in State
  BY DEF Snapshot, Reading, State
<1> QED
  BY <1>1, <1>2 DEF ApplyReading, Snapshot

LEMMA ApplyEffectsType ==
    ASSUME NEW w \in Snapshot, NEW adds \in SUBSET Fact, NEW removes \in SUBSET Fact
    PROVE  ApplyEffects(w, adds, removes) \in Snapshot
<1>1. [n \in Sensor |-> IF n \in removes THEN {} ELSE w.values[n]]
         \in [Sensor -> Option(Value)]
  BY DEF Snapshot, Option
<1>2. ((w.facts \ removes) \cup adds) \in State
  BY DEF Snapshot, State
<1> QED
  BY <1>1, <1>2 DEF ApplyEffects, Snapshot

-----------------------------------------------------------------------------
(* Type correctness.                                                       *)

LEMMA InitType == Init => TypeOK
<1> SUFFICES ASSUME Init PROVE TypeOK
  OBVIOUS
<1>1. world \in Snapshot
  BY RuntimeAssumption DEF Init, Snapshot, State, Option
<1>2. BoxesOK
  BY DEF Init, BoxesOK
<1>3. PlannerOK /\ ExecutorOK
  BY <1>1 DEF Init, PlannerOK, ExecutorOK, Option
<1>4. DriverOK
  BY DEF Init, DriverOK, Phase, Option
<1> QED
  BY <1>1, <1>2, <1>3, <1>4, RuntimeAssumption DEF Init, TypeOK, Option

LEMMA WorldStepType ==
    ASSUME TypeOK, WorldStep
    PROVE  TypeOK'
<1> USE DEF TypeOK, BoxesOK
<1>1. ASSUME NEW w \in Snapshot
      PROVE  Notify(w) \in Seq(SupervisorMsg)
  <2>1. [type |-> "StateChanged", snapshot |-> w] \in SupervisorMsg
    BY <1>1 DEF SupervisorMsg
  <2> QED
    BY <2>1, SendType DEF Notify
<1>2. worldBox # <<>> => Head(worldBox) \in WorldMsg /\ Tail(worldBox) \in Seq(WorldMsg)
  BY ReceiveType
<1> USE DEF IsNext, OutsideWorld, plannerVars, supervisorVars, executorVars,
            sensorVars, driverVars, PlannerOK, ExecutorOK, DriverOK
<1>3. CASE WorldAppliesReading
  <2>1. world' \in Snapshot
    BY <1>2, <1>3, WorldMessageFields, ApplyReadingType DEF WorldAppliesReading
  <2> QED
    BY <1>1, <1>2, <1>3, <2>1 DEF WorldAppliesReading
<1>4. CASE WorldAppliesActionEffects
  <2>1. world' \in Snapshot
    BY <1>2, <1>4, WorldMessageFields, ApplyEffectsType DEF WorldAppliesActionEffects
  <2> QED
    BY <1>1, <1>2, <1>4, <2>1 DEF WorldAppliesActionEffects
<1>5. CASE WorldBootstraps
  BY <1>1, <1>2, <1>5 DEF WorldBootstraps, worldVars
<1>6. CASE WorldWires
  BY <1>2, <1>6, WorldMessageFields DEF WorldWires, Wire, worldVars
<1>7. CASE WorldStops
  BY <1>7 DEF WorldStops, Halt, Actor, worldVars
<1> QED
  BY <1>3, <1>4, <1>5, <1>6, <1>7 DEF WorldStep

LEMMA PlannerStepType ==
    ASSUME TypeOK, PlannerStep \/ PlanReturns
    PROVE  TypeOK'
<1> USE DEF TypeOK, BoxesOK
<1>1. plannerBox # <<>> =>
         Head(plannerBox) \in PlannerMsg /\ Tail(plannerBox) \in Seq(PlannerMsg)
  BY ReceiveType
<1> USE DEF IsNext, OutsidePlanner, worldVars, supervisorVars, executorVars,
            sensorVars, driverVars, ExecutorOK, DriverOK
<1>2. CASE PlannerStartsPlan
  BY <1>1, <1>2, PlannerMessageFields
     DEF PlannerStartsPlan, SpawnPlan, PlannerOK, Option
<1>3. CASE PlannerCoalesces
  BY <1>1, <1>3, PlannerMessageFields DEF PlannerCoalesces, PlannerOK, Option
<1>4. CASE PlannerReports
  <2>1. [type |-> "PlanReady", result |-> Head(plannerBox).result,
         snapshot |-> Head(plannerBox).snapshot] \in SupervisorMsg
    BY <1>1, <1>4, PlannerMessageFields DEF PlannerReports, SupervisorMsg
  <2>2. supervisorBox' \in Seq(SupervisorMsg)
    BY <1>4, <2>1, SendType DEF PlannerReports, Report
  <2>3. PlannerOK'
    BY <1>4 DEF PlannerReports, SpawnPlan, PlannerOK, Option
  <2> QED
    BY <1>1, <1>4, <2>2, <2>3 DEF PlannerReports
<1>5. CASE PlannerWires
  BY <1>1, <1>5, PlannerMessageFields
     DEF PlannerWires, Wire, plannerVars, PlannerOK
<1>6. CASE PlannerStops
  BY <1>6 DEF PlannerStops, Halt, Actor, plannerVars, PlannerOK
<1>7. CASE PlanReturns
  <2>0. PICK s \in planTask : \E r \in PlanResults[s.facts] :
           plannerBox' = Send(plannerBox, "planner",
              [type |-> "PlanComputed", result |-> r, snapshot |-> s])
    BY <1>7 DEF PlanReturns
  <2>1. PICK r \in PlanResults[s.facts] :
           plannerBox' = Send(plannerBox, "planner",
              [type |-> "PlanComputed", result |-> r, snapshot |-> s])
    BY <2>0
  <2>2. s \in Snapshot /\ r \in PlanResult
    BY <2>1, PlanResultsType DEF PlannerOK, Option, Snapshot
  <2>3. [type |-> "PlanComputed", result |-> r, snapshot |-> s] \in PlannerMsg
    BY <2>2 DEF PlannerMsg
  <2>4. plannerBox' \in Seq(PlannerMsg)
    BY <2>1, <2>3, SendType
  <2> QED
    BY <1>7, <2>4 DEF PlanReturns, PlannerOK, Option
<1> QED
  BY <1>2, <1>3, <1>4, <1>5, <1>6, <1>7 DEF PlannerStep

LEMMA SupervisorStepType ==
    ASSUME TypeOK, SupervisorStep
    PROVE  TypeOK'
<1> USE DEF TypeOK, BoxesOK
<1>1. supervisorBox # <<>> =>
         /\ Head(supervisorBox) \in SupervisorMsg
         /\ Tail(supervisorBox) \in Seq(SupervisorMsg)
  BY ReceiveType
<1>2. ASSUME NEW o \in Outcome, Finish(o)
      PROVE  done' \in BOOLEAN /\ completion' \in Option(Outcome)
  BY <1>2 DEF Finish, Option
<1> USE DEF IsNext, OutsideSupervisor, worldVars, plannerVars, executorVars,
            sensorVars, driverVars, PlannerOK, ExecutorOK, DriverOK
<1>3. CASE SupervisorForwardsChange
  <2>1. [type |-> "PlanRequest", snapshot |-> Head(supervisorBox).snapshot] \in PlannerMsg
    BY <1>1, <1>3, SupervisorMessageFields DEF SupervisorForwardsChange, PlannerMsg
  <2>2. plannerBox' \in Seq(PlannerMsg)
    BY <1>3, <2>1, SendType DEF SupervisorForwardsChange
  <2> QED
    BY <1>1, <1>3, <2>2 DEF SupervisorForwardsChange, supervisorVars
<1>4. CASE SupervisorIgnoresPlan
  BY <1>1, <1>4 DEF SupervisorIgnoresPlan, supervisorVars
<1>5. CASE SupervisorMeetsPlannerError
  <2>1. "Error" \in Outcome /\ Finish("Error")
    BY <1>5 DEF SupervisorMeetsPlannerError, Outcome
  <2> QED
    BY <1>1, <1>2, <1>5, <2>1 DEF SupervisorMeetsPlannerError
<1>6. CASE SupervisorHasNothingToRun
  <2>1. done' \in BOOLEAN /\ completion' \in Option(Outcome)
    <3>1. CASE Watch
      BY <1>6, <3>1 DEF SupervisorHasNothingToRun, supervisorVars
    <3>2. CASE ~Watch
      <4>1. PICK o \in {"NoPlan", "GoalSatisfied"} : Finish(o)
        BY <1>6, <3>2 DEF SupervisorHasNothingToRun
      <4> QED
        BY <1>2, <4>1 DEF Outcome
    <3> QED
      BY <3>1, <3>2
  <2> QED
    BY <1>1, <1>6, <2>1 DEF SupervisorHasNothingToRun
<1>7. CASE SupervisorDispatches
  <2>1. /\ Head(supervisorBox).result.first \in Action
        /\ Head(supervisorBox).snapshot \in Snapshot
    BY <1>1, <1>7, SupervisorMessageFields DEF SupervisorDispatches, PlanResult
  <2>2. [type |-> "AdoptPlan", first |-> Head(supervisorBox).result.first,
         snapshot |-> Head(supervisorBox).snapshot] \in ExecutorMsg
    BY <2>1 DEF ExecutorMsg, AdoptPlan
  <2>3. executorBox' \in Seq(ExecutorMsg)
    BY <1>7, <2>2, SendType DEF SupervisorDispatches
  <2> QED
    BY <1>1, <1>7, <2>3 DEF SupervisorDispatches, supervisorVars
<1>8. CASE SupervisorTerminates
  <2>1. Head(supervisorBox).outcome \in Outcome
    BY <1>1, <1>8, SupervisorMessageFields DEF SupervisorTerminates
  <2> QED
    BY <1>1, <1>2, <1>8, <2>1 DEF SupervisorTerminates
<1>9. CASE SupervisorWires
  BY <1>1, <1>9, SupervisorMessageFields DEF SupervisorWires, Wire, supervisorVars
<1>10. CASE SupervisorStops
  BY <1>10 DEF SupervisorStops, Halt, Actor, supervisorVars
<1> QED
  BY <1>3, <1>4, <1>5, <1>6, <1>7, <1>8, <1>9, <1>10 DEF SupervisorStep

LEMMA ExecutorStepType ==
    ASSUME TypeOK, ExecutorStep \/ ActionEnds
    PROVE  TypeOK'
<1> USE DEF TypeOK, BoxesOK
<1>1. executorBox # <<>> =>
         Head(executorBox) \in ExecutorMsg /\ Tail(executorBox) \in Seq(ExecutorMsg)
  BY ReceiveType
<1>2. ASSUME NEW o \in Outcome, Terminate(o)
      PROVE  supervisorBox' \in Seq(SupervisorMsg)
  <2>1. [type |-> "Terminate", outcome |-> o] \in SupervisorMsg
    BY DEF SupervisorMsg
  <2> QED
    BY <1>2, <2>1, SendType DEF Terminate
<1>3. ASSUME NEW adds \in SUBSET Fact, NEW removes \in SUBSET Fact,
             TellEffects(adds, removes)
      PROVE  worldBox' \in Seq(WorldMsg)
  <2>1. [type |-> "ApplyActionEffects", adds |-> adds, removes |-> removes] \in WorldMsg
    BY DEF WorldMsg
  <2> QED
    BY <1>3, <2>1, SendType DEF TellEffects
<1>4. ASSUME NEW r \in CommandResult, TakeResult(r)
      PROVE  /\ Head(executorBox).action \in Action
             /\ executorBox' \in Seq(ExecutorMsg)
             /\ latest' \in Option(AdoptPlan)
             /\ execBusy' \in BOOLEAN
             /\ UNCHANGED <<OutsideExecutor, actionTask, wired, stopped>>
  BY <1>1, <1>4, ExecutorMessageFields DEF TakeResult, IsNext, Option
<1>5. \A a \in Action : /\ Library[a].adds \subseteq Fact
                        /\ Library[a].removes \subseteq Fact
                        /\ Library[a].onFailure \subseteq Effects
  BY LibraryAssumption DEF ActionSpec, Option
<1> USE DEF OutsideExecutor, worldVars, plannerVars, supervisorVars,
            sensorVars, driverVars, PlannerOK, ExecutorOK, DriverOK
<1>6. CASE ExecutorKeepsPlan
  BY <1>1, <1>6, ExecutorMessageFields DEF ExecutorKeepsPlan, IsNext, Option
<1>7. CASE ExecutorHitsCap
  <2>1. supervisorBox' \in Seq(SupervisorMsg)
    BY <1>2, <1>7 DEF ExecutorHitsCap, Outcome
  <2> QED
    BY <1>1, <1>7, <2>1 DEF ExecutorHitsCap, IsNext, Option
<1>8. CASE ExecutorStartsAction
  <2>1. Head(executorBox) \in AdoptPlan
    BY <1>1, <1>8, ExecutorMessageFields DEF ExecutorStartsAction, IsNext
  <2>2. [action |-> Head(executorBox).first,
         snapshot |-> Head(executorBox).snapshot] \in ActionTask
    BY <2>1 DEF AdoptPlan, ActionTask
  <2> QED
    BY <1>1, <1>8, <2>2 DEF ExecutorStartsAction, IsNext, Option
<1>9. CASE ExecutorMeetsError
  <2>1. supervisorBox' \in Seq(SupervisorMsg)
    BY <1>2, <1>9 DEF ExecutorMeetsError, Outcome
  <2> QED
    BY <1>4, <1>9, <2>1 DEF ExecutorMeetsError, CommandResult
<1>10. CASE ExecutorAppliesSuccess
  <2>1. Head(executorBox).action \in Action
    BY <1>4, <1>10 DEF ExecutorAppliesSuccess, CommandResult
  <2>2. worldBox' \in Seq(WorldMsg)
    BY <1>3, <1>5, <1>10, <2>1 DEF ExecutorAppliesSuccess
  <2> QED
    BY <1>4, <1>10, <2>2 DEF ExecutorAppliesSuccess, CommandResult
<1>11. CASE ExecutorRecovers
  <2>1. Head(executorBox).action \in Action
    BY <1>4, <1>11 DEF ExecutorRecovers, CommandResult
  <2>2. PICK e \in Library[Head(executorBox).action].onFailure :
           TellEffects(e.add, e.remove)
    BY <1>11 DEF ExecutorRecovers
  <2>3. e.add \in SUBSET Fact /\ e.remove \in SUBSET Fact
    BY <1>5, <2>1, <2>2 DEF Effects
  <2>4. worldBox' \in Seq(WorldMsg)
    BY <1>3, <2>2, <2>3
  <2> QED
    <3>1. TakeResult("failure") /\ "failure" \in CommandResult
      BY <1>11 DEF ExecutorRecovers, CommandResult
    <3> QED
      BY <1>4, <1>11, <2>4, <3>1 DEF ExecutorRecovers
<1>12. CASE ExecutorFails
  <2>1. supervisorBox' \in Seq(SupervisorMsg)
    BY <1>2, <1>12 DEF ExecutorFails, Outcome
  <2> QED
    BY <1>4, <1>12, <2>1 DEF ExecutorFails, CommandResult
<1>13. CASE ExecutorWires
  BY <1>1, <1>13, ExecutorMessageFields DEF ExecutorWires, Wire, IsNext, executorVars
<1>14. CASE ExecutorStops
  BY <1>14 DEF ExecutorStops, Halt, Actor, executorVars
<1>15. CASE ActionEnds
  <2>1. PICK t \in actionTask : \E r \in CommandResults[t.action] :
           executorBox' = Send(executorBox, "executor",
              [type |-> "ActionFinished", action |-> t.action, result |-> r])
    BY <1>15 DEF ActionEnds
  <2>2. PICK r \in CommandResults[t.action] :
           executorBox' = Send(executorBox, "executor",
              [type |-> "ActionFinished", action |-> t.action, result |-> r])
    BY <2>1
  <2>3. t.action \in Action
    BY <2>1 DEF Option, ActionTask
  <2>4. r \in CommandResult
    BY <2>2, <2>3, RuntimeAssumption
  <2>5. [type |-> "ActionFinished", action |-> t.action, result |-> r] \in ExecutorMsg
    BY <2>3, <2>4 DEF ExecutorMsg
  <2>6. executorBox' \in Seq(ExecutorMsg)
    BY <2>2, <2>5, SendType
  <2> QED
    BY <1>15, <2>6 DEF ActionEnds, Option
<1> QED
  BY <1>6, <1>7, <1>8, <1>9, <1>10, <1>11, <1>12, <1>13, <1>14, <1>15
     DEF ExecutorStep

LEMMA SensorStepType ==
    ASSUME TypeOK, NEW n \in Sensor, SensorStep(n)
    PROVE  TypeOK'
<1> USE DEF TypeOK, BoxesOK, OutsideSensors, worldVars, plannerVars,
            supervisorVars, executorVars, driverVars, PlannerOK, ExecutorOK, DriverOK
<1>1. CASE SensorReports(n)
  <2>1. PICK r \in ReadSensor(n) :
           worldBox' = Send(worldBox, "world", [type |-> "ApplyReading", reading |-> r])
    BY <1>1 DEF SensorReports
  <2>2. [type |-> "ApplyReading", reading |-> r] \in WorldMsg
    BY <2>1, ReadSensorType DEF WorldMsg
  <2>3. worldBox' \in Seq(WorldMsg)
    BY <2>1, <2>2, SendType
  <2> QED
    BY <1>1, <2>3 DEF SensorReports
<1>2. CASE SensorSkips(n)
  BY <1>2 DEF SensorSkips, vars, boxes, sensorVars
<1>3. CASE SensorStops(n)
  BY <1>3 DEF SensorStops
<1> QED
  BY <1>1, <1>2, <1>3 DEF SensorStep

(* What the driver posts reaches a mailbox of its kind. *)
LEMMA PostType ==
    ASSUME BoxesOK, NEW actor, NEW m, Post(actor, m),
           actor = "world" => m \in WorldMsg,
           actor = "supervisor" => m \in SupervisorMsg,
           actor = "planner" => m \in PlannerMsg,
           actor = "executor" => m \in ExecutorMsg
    PROVE  BoxesOK'
  BY SendType DEF BoxesOK, Post

LEMMA WiringType ==
    ASSUME NEW i \in 1..Len(Wiring)
    PROVE  Wiring[i].to \in Actor /\ Wiring[i].ref \in Ref
<1>1. i \in 1..6
  BY DEF Wiring
<1> QED
  BY <1>1 DEF Wiring, Actor, Ref

LEMMA DriverStepType ==
    ASSUME TypeOK, DriverStep \/ Interrupt
    PROVE  TypeOK'
<1> USE DEF TypeOK, OutsideDriver, worldVars, plannerVars, supervisorVars,
            executorVars, sensorVars, boxes, PlannerOK, ExecutorOK, DriverOK, Phase
<1>1. CASE Sweep
  <2>1. SweepOrder[at] \in Sensor
    BY <1>1, SensingAssumption DEF Sweep
  <2>2. world' \in Snapshot
    BY <1>1, <2>1, ReadSensorType, ApplyReadingType DEF Sweep
  <2> QED
    BY <1>1, <2>2 DEF Sweep, BoxesOK
<1>2. CASE SweepEnds
  BY <1>2 DEF SweepEnds, BoxesOK, Wiring
<1>3. CASE WireNext
  <2>1. Wiring[at].to \in Actor /\ Wiring[at].ref \in Ref
    BY <1>3, WiringType DEF WireNext
  <2>2. [type |-> "SetRef", ref |-> Wiring[at].ref]
            \in WorldMsg \cap SupervisorMsg \cap PlannerMsg \cap ExecutorMsg
    BY <2>1 DEF WorldMsg, SupervisorMsg, PlannerMsg, ExecutorMsg, SetRef
  <2>3. BoxesOK'
    BY <1>3, <2>2, PostType DEF WireNext
  <2> QED
    BY <1>3, <2>3 DEF WireNext, Wiring
<1>4. CASE StartSensors
  BY <1>4 DEF StartSensors, BoxesOK
<1>5. CASE BootstrapWorld
  <2>1. BoxesOK'
    BY <1>5, PostType DEF BootstrapWorld, WorldMsg
  <2> QED
    BY <1>5, <2>1 DEF BootstrapWorld
<1>6. CASE TakeOutcome
  BY <1>6 DEF TakeOutcome, BoxesOK
<1>7. CASE Interrupt
  BY <1>7 DEF Interrupt, BoxesOK, Option, Outcome
<1>8. CASE StopSensors
  BY <1>8 DEF StopSensors, BoxesOK, StopOrder
<1>9. CASE StopNext
  <2>1. [type |-> "Stop"]
            \in WorldMsg \cap SupervisorMsg \cap PlannerMsg \cap ExecutorMsg
    BY DEF WorldMsg, SupervisorMsg, PlannerMsg, ExecutorMsg, Stop
  <2>2. BoxesOK'
    BY <1>9, <2>1, PostType DEF StopNext
  <2> QED
    BY <1>9, <2>2 DEF StopNext, StopOrder
<1>10. CASE Exit
  BY <1>10 DEF Exit, BoxesOK, Option
<1> QED
  BY <1>1, <1>2, <1>3, <1>4, <1>5, <1>6, <1>7, <1>8, <1>9, <1>10 DEF DriverStep

LEMMA StutterType ==
    ASSUME TypeOK, UNCHANGED vars
    PROVE  TypeOK'
  BY DEF TypeOK, BoxesOK, PlannerOK, ExecutorOK, DriverOK, vars, worldVars,
         plannerVars, supervisorVars, executorVars, sensorVars, driverVars, boxes

(* TypeOK is inductive by itself: every handler posts, keeps and starts    *)
(* only values of the declared types.                                      *)
THEOREM TypeCorrect == Spec => []TypeOK
<1>1. TypeOK /\ [Next]_vars => TypeOK'
  BY WorldStepType, PlannerStepType, SupervisorStepType, ExecutorStepType,
     SensorStepType, DriverStepType, StutterType DEF Next, Terminated
<1> QED
  BY InitType, <1>1, PTL DEF Spec

-----------------------------------------------------------------------------
(***************************************************************************)
(* The runtime acts as ActionLoop says.                                    *)
(***************************************************************************)

-----------------------------------------------------------------------------
(* The inductive invariant.                                                *)

(* Results and plans keep their provenance from task to mailbox to task. *)
SoundPlannerMsg ==
    {m \in PlannerMsg : m.type = "PlanComputed" =>
                            m.result \in PlanResults[m.snapshot.facts]}

SoundSupervisorMsg ==
    {m \in SupervisorMsg : m.type = "PlanReady" =>
                               m.result \in PlanResults[m.snapshot.facts]}

SoundExecutorMsg ==
    {m \in ExecutorMsg :
        /\ m.type = "AdoptPlan" =>
              Starting(m.first) \in PlanResults[m.snapshot.facts]
        /\ m.type = "ActionFinished" => m.result \in CommandResults[m.action]}

Provenance ==
    /\ plannerBox \in Seq(SoundPlannerMsg)
    /\ supervisorBox \in Seq(SoundSupervisorMsg)
    /\ executorBox \in Seq(SoundExecutorMsg)
    /\ \A t \in actionTask : Starting(t.action) \in PlanResults[t.snapshot.facts]

(* How the verdict and the phase of the driver go together; the executor   *)
(* is asked to stop only once the run is decided.                          *)
Deciding ==
    /\ done <=> completion # {}
    /\ outcome # {} <=> driver \in {"stopSensors", "stop", "return", "exited"}
    /\ outcome = {} => /\ "executor" \notin stopped
                       /\ executorBox \in Seq(ExecutorMsg \ Stop)

(* An actor that has stopped has no mail; after the exit nobody has. *)
Quiescent ==
    /\ "executor" \in stopped => executorBox = <<>>
    /\ driver = "exited" =>
          /\ worldBox = <<>> /\ supervisorBox = <<>>
          /\ plannerBox = <<>> /\ executorBox = <<>>
          /\ planTask = {} /\ actionTask = {}
          /\ \A n \in Sensor : sensors[n] = "stopped"

IInv == /\ TypeOK /\ Provenance /\ Deciding /\ Quiescent
        /\ OneActionInFlight /\ CapCoversInFlight

-----------------------------------------------------------------------------
LEMMA InitIInv == Init => IInv
<1> SUFFICES ASSUME Init PROVE IInv
  OBVIOUS
<1>1. TypeOK
  BY InitType
<1>2. Provenance
  BY DEF Init, Provenance
<1>3. Deciding /\ Quiescent
  BY DEF Init, Deciding, Quiescent
<1>4. OneActionInFlight /\ CapCoversInFlight
  BY RuntimeAssumption
     DEF Init, OneActionInFlight, CapCoversInFlight, Has, Positions
<1> QED
  BY <1>1, <1>2, <1>3, <1>4 DEF IInv

-----------------------------------------------------------------------------
(* Provenance is kept.                                                     *)

(* A plan that has steps is a cheapest one from the state it was asked for. *)
LEMMA StepsAreSound ==
    ASSUME NEW s \in State, NEW r \in PlanResults[s], r.kind = "steps"
    PROVE  r = Starting(r.first) /\ r.first \in FirstSteps(s)
  BY DEF PlanResults, NoSteps, Starting

LEMMA WorldKeepsProvenance ==
    ASSUME TypeOK, Provenance, WorldStep
    PROVE  Provenance'
<1>1. /\ UNCHANGED <<plannerBox, executorBox, actionTask>>
      /\ \/ UNCHANGED supervisorBox
         \/ \E w \in {world, world'} : supervisorBox' = Notify(w)
  BY DEF WorldStep, WorldAppliesReading, WorldAppliesActionEffects, WorldBootstraps,
         WorldWires, WorldStops, OutsideWorld, executorVars
<1>2. world' \in Snapshot
  BY WorldStepType DEF TypeOK
<1>3. ASSUME NEW w \in Snapshot
      PROVE  Notify(w) \in Seq(SoundSupervisorMsg)
  <2>1. [type |-> "StateChanged", snapshot |-> w] \in SoundSupervisorMsg
    BY DEF SoundSupervisorMsg, SupervisorMsg
  <2> QED
    BY <2>1, SendType DEF Notify, Provenance
<1> QED
  BY <1>1, <1>2, <1>3 DEF Provenance, TypeOK

LEMMA PlannerKeepsProvenance ==
    ASSUME TypeOK, Provenance, PlannerStep \/ PlanReturns
    PROVE  Provenance'
<1> USE DEF Provenance
<1>1. plannerBox # <<>> =>
         /\ Head(plannerBox) \in SoundPlannerMsg
         /\ Tail(plannerBox) \in Seq(SoundPlannerMsg)
  BY ReceiveType
<1> USE DEF OutsidePlanner, executorVars, IsNext
<1>2. CASE PlannerReports
  <2>1. [type |-> "PlanReady", result |-> Head(plannerBox).result,
         snapshot |-> Head(plannerBox).snapshot] \in SoundSupervisorMsg
    BY <1>1, <1>2, PlannerMessageFields
       DEF PlannerReports, SoundPlannerMsg, SoundSupervisorMsg, SupervisorMsg
  <2>2. supervisorBox' \in Seq(SoundSupervisorMsg)
    BY <1>2, <2>1, SendType DEF PlannerReports, Report
  <2> QED
    BY <1>1, <1>2, <2>2 DEF PlannerReports
<1>3. CASE PlanReturns
  <2>1. PICK s \in planTask : \E r \in PlanResults[s.facts] :
           plannerBox' = Send(plannerBox, "planner",
              [type |-> "PlanComputed", result |-> r, snapshot |-> s])
    BY <1>3 DEF PlanReturns
  <2>2. PICK r \in PlanResults[s.facts] :
           plannerBox' = Send(plannerBox, "planner",
              [type |-> "PlanComputed", result |-> r, snapshot |-> s])
    BY <2>1
  <2>3. s \in Snapshot /\ r \in PlanResult
    BY <2>1, <2>2, PlanResultsType DEF TypeOK, PlannerOK, Option, Snapshot
  <2>4. [type |-> "PlanComputed", result |-> r, snapshot |-> s] \in SoundPlannerMsg
    BY <2>2, <2>3 DEF SoundPlannerMsg, PlannerMsg
  <2>5. plannerBox' \in Seq(SoundPlannerMsg)
    BY <2>2, <2>4, SendType
  <2> QED
    BY <1>3, <2>5 DEF PlanReturns
<1>4. CASE PlannerStartsPlan \/ PlannerCoalesces
  BY <1>1, <1>4 DEF PlannerStartsPlan, PlannerCoalesces
<1>5. CASE PlannerWires
  BY <1>1, <1>5 DEF PlannerWires, Wire
<1>6. CASE PlannerStops
  BY <1>6 DEF PlannerStops
<1> QED
  BY <1>2, <1>3, <1>4, <1>5, <1>6 DEF PlannerStep

LEMMA SupervisorKeepsProvenance ==
    ASSUME TypeOK, Provenance, SupervisorStep
    PROVE  Provenance'
<1> USE DEF Provenance
<1>1. supervisorBox # <<>> =>
         /\ Head(supervisorBox) \in SoundSupervisorMsg
         /\ Tail(supervisorBox) \in Seq(SoundSupervisorMsg)
  BY ReceiveType
<1> USE DEF OutsideSupervisor, executorVars, IsNext
<1>2. CASE SupervisorForwardsChange
  <2>1. [type |-> "PlanRequest", snapshot |-> Head(supervisorBox).snapshot]
            \in SoundPlannerMsg
    BY <1>1, <1>2, SupervisorMessageFields
       DEF SupervisorForwardsChange, SoundSupervisorMsg, SoundPlannerMsg, PlannerMsg
  <2>2. plannerBox' \in Seq(SoundPlannerMsg)
    BY <1>2, <2>1, SendType DEF SupervisorForwardsChange
  <2> QED
    BY <1>1, <1>2, <2>2 DEF SupervisorForwardsChange
<1>3. CASE SupervisorDispatches
  <2> DEFINE m == Head(supervisorBox)
  <2>1. m \in SupervisorMsg /\ m.result \in PlanResults[m.snapshot.facts]
    BY <1>1, <1>3 DEF SupervisorDispatches, SoundSupervisorMsg
  <2>2. m.snapshot \in Snapshot /\ m.snapshot.facts \in State /\ m.result.kind = "steps"
    BY <1>3, <2>1, SupervisorMessageFields DEF SupervisorDispatches, Snapshot
  <2>3. Starting(m.result.first) \in PlanResults[m.snapshot.facts] /\ m.result.first \in Action
    BY <2>1, <2>2, StepsAreSound DEF FirstSteps, Priced
  <2>4. [type |-> "AdoptPlan", first |-> m.result.first, snapshot |-> m.snapshot]
            \in SoundExecutorMsg
    BY <2>2, <2>3 DEF SoundExecutorMsg, ExecutorMsg, AdoptPlan
  <2>5. executorBox' \in Seq(SoundExecutorMsg)
    BY <1>3, <2>4, SendType DEF SupervisorDispatches
  <2> QED
    BY <1>1, <1>3, <2>5 DEF SupervisorDispatches
<1>4. CASE SupervisorIgnoresPlan \/ SupervisorMeetsPlannerError
  BY <1>1, <1>4 DEF SupervisorIgnoresPlan, SupervisorMeetsPlannerError
<1>5. CASE SupervisorHasNothingToRun \/ SupervisorTerminates
  BY <1>1, <1>5 DEF SupervisorHasNothingToRun, SupervisorTerminates
<1>6. CASE SupervisorWires
  BY <1>1, <1>6 DEF SupervisorWires, Wire
<1>7. CASE SupervisorStops
  BY <1>7 DEF SupervisorStops
<1> QED
  BY <1>2, <1>3, <1>4, <1>5, <1>6, <1>7 DEF SupervisorStep

LEMMA ExecutorKeepsProvenance ==
    ASSUME TypeOK, Provenance, ExecutorStep \/ ActionEnds
    PROVE  Provenance'
<1> USE DEF Provenance
<1>1. executorBox # <<>> =>
         /\ Head(executorBox) \in SoundExecutorMsg
         /\ Tail(executorBox) \in Seq(SoundExecutorMsg)
  BY ReceiveType
<1>2. ASSUME NEW o \in Outcome, Terminate(o)
      PROVE  supervisorBox' \in Seq(SoundSupervisorMsg)
  <2>1. [type |-> "Terminate", outcome |-> o] \in SoundSupervisorMsg
    BY DEF SoundSupervisorMsg, SupervisorMsg
  <2> QED
    BY <1>2, <2>1, SendType DEF Terminate
<1> USE DEF OutsideExecutor, IsNext
<1>3. CASE ExecutorKeepsPlan
  BY <1>1, <1>3 DEF ExecutorKeepsPlan
<1>4. CASE ExecutorHitsCap
  BY <1>1, <1>2, <1>4 DEF ExecutorHitsCap, Outcome
<1>5. CASE ExecutorStartsAction
  BY <1>1, <1>5 DEF ExecutorStartsAction, SoundExecutorMsg
<1>6. CASE ExecutorMeetsError
  BY <1>1, <1>2, <1>6 DEF ExecutorMeetsError, TakeResult, Outcome
<1>7. CASE ExecutorAppliesSuccess
  BY <1>1, <1>7 DEF ExecutorAppliesSuccess, TakeResult
<1>8. CASE ExecutorRecovers
  BY <1>1, <1>8 DEF ExecutorRecovers, TakeResult
<1>9. CASE ExecutorFails
  BY <1>1, <1>2, <1>9 DEF ExecutorFails, TakeResult, Outcome
<1>10. CASE ExecutorWires
  BY <1>1, <1>10 DEF ExecutorWires, Wire, executorVars
<1>11. CASE ExecutorStops
  BY <1>11 DEF ExecutorStops, executorVars
<1>12. CASE ActionEnds
  <2>1. PICK t \in actionTask : \E r \in CommandResults[t.action] :
           executorBox' = Send(executorBox, "executor",
              [type |-> "ActionFinished", action |-> t.action, result |-> r])
    BY <1>12 DEF ActionEnds
  <2>2. PICK r \in CommandResults[t.action] :
           executorBox' = Send(executorBox, "executor",
              [type |-> "ActionFinished", action |-> t.action, result |-> r])
    BY <2>1
  <2>3. t.action \in Action
    BY <2>1 DEF TypeOK, ExecutorOK, Option, ActionTask
  <2>4. r \in CommandResult
    BY <2>2, <2>3, RuntimeAssumption
  <2>5. [type |-> "ActionFinished", action |-> t.action, result |-> r] \in SoundExecutorMsg
    BY <2>2, <2>3, <2>4 DEF SoundExecutorMsg, ExecutorMsg
  <2>6. executorBox' \in Seq(SoundExecutorMsg)
    BY <2>2, <2>5, SendType
  <2> QED
    BY <1>12, <2>6 DEF ActionEnds
<1> QED
  BY <1>3, <1>4, <1>5, <1>6, <1>7, <1>8, <1>9, <1>10, <1>11, <1>12 DEF ExecutorStep

LEMMA DriverKeepsProvenance ==
    ASSUME TypeOK, Provenance, DriverStep \/ Interrupt
    PROVE  Provenance'
<1> USE DEF Provenance
<1>1. ASSUME NEW actor, NEW m \in SetRef \cup Stop \cup [type : {"Bootstrap"}], Post(actor, m),
             m.type = "Bootstrap" => actor = "world"
      PROVE  /\ plannerBox' \in Seq(SoundPlannerMsg)
             /\ supervisorBox' \in Seq(SoundSupervisorMsg)
             /\ executorBox' \in Seq(SoundExecutorMsg)
  <2>1. CASE m.type = "Bootstrap"
    BY <1>1, <2>1 DEF Post
  <2>2. CASE m \in SetRef \cup Stop
    <3>1. m \in SoundPlannerMsg /\ m \in SoundSupervisorMsg /\ m \in SoundExecutorMsg
      BY <2>2 DEF SoundPlannerMsg, SoundSupervisorMsg, SoundExecutorMsg,
                  PlannerMsg, SupervisorMsg, ExecutorMsg, SetRef, Stop
    <3> QED
      BY <1>1, <3>1, SendType DEF Post
  <2> QED
    BY <2>1, <2>2
<1> USE DEF OutsideDriver, executorVars, boxes
<1>2. CASE WireNext
  <2>1. [type |-> "SetRef", ref |-> Wiring[at].ref] \in SetRef
    BY <1>2, WiringType DEF WireNext, SetRef, TypeOK, DriverOK
  <2> QED
    BY <1>1, <1>2, <2>1 DEF WireNext
<1>3. CASE BootstrapWorld
  BY <1>1, <1>3 DEF BootstrapWorld
<1>4. CASE StopNext
  BY <1>1, <1>4 DEF StopNext, Stop
<1>5. CASE Exit
  BY <1>5 DEF Exit
<1>6. CASE Sweep \/ SweepEnds \/ StartSensors \/ StopSensors
  BY <1>6 DEF Sweep, SweepEnds, StartSensors, StopSensors
<1>7. CASE TakeOutcome \/ Interrupt
  BY <1>7 DEF TakeOutcome, Interrupt
<1> QED
  BY <1>2, <1>3, <1>4, <1>5, <1>6, <1>7 DEF DriverStep

LEMMA NextKeepsProvenance ==
    ASSUME TypeOK, Provenance, [Next]_vars
    PROVE  Provenance'
<1>1. ASSUME NEW n \in Sensor, SensorStep(n)
      PROVE  Provenance'
  BY <1>1 DEF SensorStep, SensorReports, SensorSkips, SensorStops, OutsideSensors,
              vars, boxes, executorVars, Provenance
<1>2. CASE UNCHANGED vars
  BY <1>2 DEF vars, boxes, executorVars, Provenance
<1> QED
  BY <1>1, <1>2, WorldKeepsProvenance, PlannerKeepsProvenance,
     SupervisorKeepsProvenance, ExecutorKeepsProvenance, DriverKeepsProvenance
     DEF Next, Terminated

-----------------------------------------------------------------------------
(* Deciding is kept.                                                       *)

LEMMA SupervisorKeepsDeciding ==
    ASSUME TypeOK, Deciding, SupervisorStep
    PROVE  Deciding'
<1>1. done' <=> completion' # {}
  <2>1. \/ UNCHANGED <<done, completion>>
        \/ done' = TRUE /\ \E o : completion' = IF done THEN completion ELSE {o}
    BY DEF SupervisorStep, SupervisorForwardsChange, SupervisorIgnoresPlan,
           SupervisorMeetsPlannerError, SupervisorHasNothingToRun,
           SupervisorDispatches, SupervisorTerminates, SupervisorWires,
           SupervisorStops, Finish, supervisorVars
  <2> QED
    BY <2>1 DEF Deciding, TypeOK
<1>2. UNCHANGED <<driver, outcome>>
  BY DEF SupervisorStep, SupervisorForwardsChange, SupervisorIgnoresPlan,
         SupervisorMeetsPlannerError, SupervisorHasNothingToRun,
         SupervisorDispatches, SupervisorTerminates, SupervisorWires,
         SupervisorStops, OutsideSupervisor, driverVars
<1>3. ASSUME outcome = {}
      PROVE  "executor" \notin stopped' /\ executorBox' \in Seq(ExecutorMsg \ Stop)
  <2>1. CASE SupervisorDispatches
    <3>1. executorBox' \in Seq(ExecutorMsg) /\ executorBox \in Seq(ExecutorMsg \ Stop)
      BY <1>3, SupervisorStepType DEF TypeOK, BoxesOK, Deciding
    <3>2. CASE UNCHANGED executorBox
      BY <1>3, <2>1, <3>2 DEF Deciding, SupervisorDispatches
    <3>3. CASE \E m \in [type : {"AdoptPlan"}, first : Action, snapshot : Snapshot] :
                  executorBox' = Send(executorBox, "executor", m)
      <4>1. PICK m \in AdoptPlan : executorBox' = Send(executorBox, "executor", m)
        BY <3>3 DEF AdoptPlan
      <4>2. m \in ExecutorMsg \ Stop
        BY <4>1 DEF ExecutorMsg, AdoptPlan, Stop
      <4>3. executorBox' \in Seq(ExecutorMsg \ Stop)
        BY <3>1, <4>1, <4>2, SendType
      <4> QED
        BY <1>3, <2>1, <4>3 DEF SupervisorDispatches, Deciding
    <3>4. /\ Head(supervisorBox).result.first \in Action
          /\ Head(supervisorBox).snapshot \in Snapshot
      BY <2>1, ReceiveType, SupervisorMessageFields
         DEF SupervisorDispatches, IsNext, PlanResult, TypeOK, BoxesOK
    <3> QED
      BY <2>1, <3>2, <3>3, <3>4 DEF SupervisorDispatches
  <2>2. CASE ~SupervisorDispatches
    <3>1. UNCHANGED executorBox /\ ("executor" \in stopped' => "executor" \in stopped)
      BY <2>2 DEF SupervisorStep, SupervisorForwardsChange, SupervisorIgnoresPlan,
             SupervisorMeetsPlannerError, SupervisorHasNothingToRun,
             SupervisorTerminates, SupervisorWires, SupervisorStops, Halt
    <3> QED
      BY <1>3, <3>1 DEF Deciding
  <2> QED
    BY <2>1, <2>2
<1> QED
  BY <1>1, <1>2, <1>3 DEF Deciding

LEMMA ExecutorKeepsDeciding ==
    ASSUME TypeOK, Deciding, ExecutorStep \/ ActionEnds
    PROVE  Deciding'
<1>1. UNCHANGED <<done, completion, driver, outcome>>
  BY DEF ExecutorStep, ExecutorKeepsPlan, ExecutorHitsCap, ExecutorStartsAction,
         ExecutorMeetsError, ExecutorAppliesSuccess, ExecutorRecovers, ExecutorFails,
         TakeResult, ExecutorWires, ExecutorStops, ActionEnds, OutsideExecutor,
         supervisorVars, driverVars
<1>2. ASSUME outcome = {}
      PROVE  "executor" \notin stopped' /\ executorBox' \in Seq(ExecutorMsg \ Stop)
  <2>1. /\ executorBox \in Seq(ExecutorMsg \ Stop) /\ "executor" \notin stopped
        /\ executorBox # <<>> => /\ Head(executorBox) \in ExecutorMsg \ Stop
                                 /\ Tail(executorBox) \in Seq(ExecutorMsg \ Stop)
    BY <1>2, ReceiveType DEF Deciding
  <2>2. ~ExecutorStops
    <3>1. ASSUME NEW m \in ExecutorMsg \ Stop
          PROVE  m.type # "Stop"
      BY DEF ExecutorMsg, AdoptPlan, SetRef, Stop
    <3> QED
      BY <2>1, <3>1 DEF ExecutorStops, Halt, IsNext
  <2>3. CASE ActionEnds
    <3>1. PICK t \in actionTask : \E r \in CommandResults[t.action] :
             executorBox' = Send(executorBox, "executor",
                [type |-> "ActionFinished", action |-> t.action, result |-> r])
      BY <2>3 DEF ActionEnds
    <3>2. PICK r \in CommandResults[t.action] :
             executorBox' = Send(executorBox, "executor",
                [type |-> "ActionFinished", action |-> t.action, result |-> r])
      BY <3>1
    <3>3. t.action \in Action
      BY <3>1 DEF TypeOK, ExecutorOK, Option, ActionTask
    <3>4. r \in CommandResult
      BY <3>2, <3>3, RuntimeAssumption
    <3>5. [type |-> "ActionFinished", action |-> t.action, result |-> r]
              \in ExecutorMsg \ Stop
      BY <3>3, <3>4 DEF ExecutorMsg, Stop
    <3>6. executorBox' \in Seq(ExecutorMsg \ Stop)
      BY <2>1, <3>2, <3>5, SendType
    <3> QED
      BY <2>1, <2>3, <3>6 DEF ActionEnds
  <2>4. CASE ExecutorStep
    <3>1. executorBox # <<>> /\ executorBox' = Tail(executorBox) /\ UNCHANGED stopped
      BY <2>2, <2>4
         DEF ExecutorStep, ExecutorKeepsPlan, ExecutorHitsCap, ExecutorStartsAction,
             ExecutorMeetsError, ExecutorAppliesSuccess, ExecutorRecovers,
             ExecutorFails, TakeResult, ExecutorWires, Wire, IsNext
    <3> QED
      BY <2>1, <3>1
  <2> QED
    BY <2>3, <2>4
<1> QED
  BY <1>1, <1>2 DEF Deciding

LEMMA DriverKeepsDeciding ==
    ASSUME TypeOK, Deciding, DriverStep \/ Interrupt
    PROVE  Deciding'
<1> USE DEF OutsideDriver, supervisorVars, boxes, Deciding
<1>1. CASE WireNext
  <2>1. [type |-> "SetRef", ref |-> Wiring[at].ref] \in ExecutorMsg \ Stop
    BY <1>1, WiringType DEF WireNext, SetRef, Stop, ExecutorMsg, TypeOK, DriverOK
  <2>2. outcome = {} => executorBox' \in Seq(ExecutorMsg \ Stop)
    BY <1>1, <2>1, SendType DEF WireNext, Post
  <2> QED
    BY <1>1, <2>2 DEF WireNext
<1>2. CASE BootstrapWorld
  BY <1>2 DEF BootstrapWorld, Post
<1>3. CASE TakeOutcome \/ Interrupt
  <2>1. outcome' # {} /\ driver' = "stopSensors" /\ UNCHANGED <<done, completion>>
    BY <1>3 DEF TakeOutcome, Interrupt
  <2> QED
    BY <2>1
<1>4. CASE StopNext
  BY <1>4 DEF StopNext
<1>5. CASE Exit
  BY <1>5 DEF Exit
<1>6. CASE Sweep \/ SweepEnds \/ StartSensors \/ StopSensors
  BY <1>6 DEF Sweep, SweepEnds, StartSensors, StopSensors
<1> QED
  BY <1>1, <1>2, <1>3, <1>4, <1>5, <1>6 DEF DriverStep

LEMMA NextKeepsDeciding ==
    ASSUME TypeOK, Deciding, [Next]_vars
    PROVE  Deciding'
<1>1. ASSUME NEW n \in Sensor, SensorStep(n)
      PROVE  Deciding'
  BY <1>1 DEF SensorStep, SensorReports, SensorSkips, SensorStops, OutsideSensors,
              vars, boxes, driverVars, supervisorVars, Deciding
<1>2. CASE UNCHANGED vars
  BY <1>2 DEF vars, boxes, driverVars, supervisorVars, Deciding
<1>3. CASE WorldStep
  BY <1>3 DEF WorldStep, WorldAppliesReading, WorldAppliesActionEffects,
              WorldBootstraps, WorldWires, WorldStops, Halt, OutsideWorld,
              driverVars, supervisorVars, Deciding
<1>4. CASE PlannerStep \/ PlanReturns
  BY <1>4 DEF PlannerStep, PlannerStartsPlan, PlannerCoalesces, PlannerReports,
              PlannerWires, PlannerStops, PlanReturns, Halt, OutsidePlanner,
              driverVars, supervisorVars, Deciding
<1> QED
  BY <1>1, <1>2, <1>3, <1>4, SupervisorKeepsDeciding, ExecutorKeepsDeciding,
     DriverKeepsDeciding DEF Next, Terminated

-----------------------------------------------------------------------------
(* Quiescent is kept.                                                      *)

(* After the exit every step is a stutter. *)
LEMMA NothingAfterExit ==
    ASSUME Quiescent, driver = "exited", [Next]_vars
    PROVE  UNCHANGED vars
<1> USE DEF Quiescent, IsNext
<1>1. ~WorldStep
  BY DEF WorldStep, WorldAppliesReading, WorldAppliesActionEffects,
         WorldBootstraps, WorldWires, WorldStops, Halt, Wire
<1>2. ~PlannerStep /\ ~PlanReturns
  BY DEF PlannerStep, PlannerStartsPlan, PlannerCoalesces, PlannerReports,
         PlannerWires, PlannerStops, PlanReturns, Halt, Wire
<1>3. ~SupervisorStep
  BY DEF SupervisorStep, SupervisorForwardsChange, SupervisorIgnoresPlan,
         SupervisorMeetsPlannerError, SupervisorHasNothingToRun,
         SupervisorDispatches, SupervisorTerminates, SupervisorWires,
         SupervisorStops, Halt, Wire
<1>4. ~ExecutorStep /\ ~ActionEnds
  BY DEF ExecutorStep, ExecutorKeepsPlan, ExecutorHitsCap, ExecutorStartsAction,
         ExecutorMeetsError, ExecutorAppliesSuccess, ExecutorRecovers,
         ExecutorFails, TakeResult, ExecutorWires, ExecutorStops, ActionEnds,
         Halt, Wire
<1>5. ~DriverStep /\ ~Interrupt
  BY DEF DriverStep, Sweep, SweepEnds, WireNext, StartSensors, BootstrapWorld,
         TakeOutcome, Interrupt, StopSensors, StopNext, Exit
<1>6. ASSUME NEW n \in Sensor, SensorStep(n)
      PROVE  UNCHANGED vars
  BY <1>6 DEF SensorStep, SensorReports, SensorSkips, SensorStops, Polling
<1> QED
  BY <1>1, <1>2, <1>3, <1>4, <1>5, <1>6 DEF Next, Terminated

LEMMA NextKeepsQuiescent ==
    ASSUME TypeOK, Quiescent, [Next]_vars
    PROVE  Quiescent'
<1>1. CASE driver = "exited"
  BY <1>1, NothingAfterExit
     DEF Quiescent, vars, boxes, plannerVars, executorVars, sensorVars, driverVars
<1>2. CASE driver # "exited" /\ Exit
  BY <1>2 DEF Exit, Quiescent
<1>3. CASE driver # "exited" /\ ~Exit
  <2>1. driver' # "exited"
    <3>1. CASE DriverStep \/ Interrupt
      BY <1>3, <3>1 DEF DriverStep, Sweep, SweepEnds, WireNext, StartSensors,
             BootstrapWorld, TakeOutcome, Interrupt, StopSensors, StopNext
    <3>2. CASE WorldStep \/ PlannerStep \/ PlanReturns
      BY <1>3, <3>2 DEF WorldStep, WorldAppliesReading, WorldAppliesActionEffects,
             WorldBootstraps, WorldWires, WorldStops, OutsideWorld,
             PlannerStep, PlannerStartsPlan, PlannerCoalesces, PlannerReports,
             PlannerWires, PlannerStops, PlanReturns, OutsidePlanner, driverVars
    <3>3. CASE SupervisorStep
      BY <1>3, <3>3 DEF SupervisorStep, SupervisorForwardsChange,
             SupervisorIgnoresPlan, SupervisorMeetsPlannerError,
             SupervisorHasNothingToRun, SupervisorDispatches, SupervisorTerminates,
             SupervisorWires, SupervisorStops, OutsideSupervisor, driverVars
    <3>4. CASE ExecutorStep \/ ActionEnds
      BY <1>3, <3>4 DEF ExecutorStep, ExecutorKeepsPlan, ExecutorHitsCap,
             ExecutorStartsAction, ExecutorMeetsError, ExecutorAppliesSuccess,
             ExecutorRecovers, ExecutorFails, TakeResult, ExecutorWires,
             ExecutorStops, ActionEnds, OutsideExecutor, driverVars
    <3>5. CASE \E n \in Sensor : SensorStep(n)
      BY <1>3, <3>5 DEF SensorStep, SensorReports, SensorSkips, SensorStops,
             OutsideSensors, vars, driverVars
    <3> QED
      BY <1>3, <3>1, <3>2, <3>3, <3>4, <3>5 DEF Next, Terminated, vars, driverVars
  <2>2. ASSUME "executor" \in stopped'
        PROVE  executorBox' = <<>>
    <3>1. CASE ExecutorStep \/ ActionEnds
      BY <2>2, <3>1 DEF Quiescent, ExecutorStep, ExecutorKeepsPlan, ExecutorHitsCap,
             ExecutorStartsAction, ExecutorMeetsError, ExecutorAppliesSuccess,
             ExecutorRecovers, ExecutorFails, TakeResult, ExecutorWires, Wire,
             ExecutorStops, ActionEnds, Send, IsNext
    <3>2. CASE SupervisorStep
      BY <2>2, <3>2 DEF Quiescent, SupervisorStep, SupervisorForwardsChange,
             SupervisorIgnoresPlan, SupervisorMeetsPlannerError,
             SupervisorHasNothingToRun, SupervisorDispatches, SupervisorTerminates,
             SupervisorWires, SupervisorStops, Halt, Send
    <3>3. CASE DriverStep \/ Interrupt
      BY <1>3, <2>2, <3>3 DEF Quiescent, DriverStep, Sweep, SweepEnds, WireNext,
             StartSensors, BootstrapWorld, TakeOutcome, Interrupt, StopSensors,
             StopNext, Post, Send, OutsideDriver, boxes
    <3>4. CASE WorldStep \/ PlannerStep \/ PlanReturns
      BY <2>2, <3>4 DEF Quiescent, WorldStep, WorldAppliesReading,
             WorldAppliesActionEffects, WorldBootstraps, WorldWires, WorldStops,
             PlannerStep, PlannerStartsPlan, PlannerCoalesces, PlannerReports,
             PlannerWires, PlannerStops, PlanReturns, Halt, OutsideWorld,
             OutsidePlanner
    <3>5. CASE \E n \in Sensor : SensorStep(n)
      BY <2>2, <3>5 DEF Quiescent, SensorStep, SensorReports, SensorSkips,
             SensorStops, OutsideSensors, vars, boxes
    <3> QED
      BY <2>2, <3>1, <3>2, <3>3, <3>4, <3>5
         DEF Next, Terminated, vars, boxes, Quiescent
  <2> QED
    BY <2>1, <2>2 DEF Quiescent
<1> QED
  BY <1>1, <1>2, <1>3

-----------------------------------------------------------------------------
(* Where the results wait in a mailbox.                                    *)

LEMMA HasPosition ==
    ASSUME NEW box, NEW t
    PROVE  Has(box, t) <=> Positions(box, t) # {}
  BY DEF Has, Positions

(* Posting another message moves no result. *)
LEMMA PostKeepsPositions ==
    ASSUME NEW Msg, NEW box \in Seq(Msg), NEW m \in Msg, NEW t, NEW actor, m.type # t
    PROVE  /\ Positions(Send(box, actor, m), t) = Positions(box, t)
           /\ \A i \in Positions(box, t) : Send(box, actor, m)[i] = box[i]
  BY DEF Positions, Send

(* Handling another message moves every result one place up. *)
LEMMA TailShiftsPositions ==
    ASSUME NEW Msg, NEW box \in Seq(Msg), NEW t, box # <<>>, Head(box).type # t
    PROVE  /\ \A i \in Positions(Tail(box), t) :
                 i + 1 \in Positions(box, t) /\ Tail(box)[i] = box[i + 1]
           /\ \A i \in Positions(box, t) : i - 1 \in Positions(Tail(box), t)
           /\ Positions(box, t) \subseteq Nat /\ Positions(Tail(box), t) \subseteq Nat
<1>1. /\ Len(Tail(box)) = Len(box) - 1 /\ Len(box) \in Nat \ {0}
      /\ \A i \in 1..Len(box) - 1 : Tail(box)[i] = box[i + 1]
      /\ Head(box) = box[1]
      /\ DOMAIN box = 1..Len(box) /\ DOMAIN Tail(box) = 1..Len(box) - 1
  OBVIOUS
<1> QED
  BY <1>1 DEF Positions

(* The only result is gone once it has been handled. *)
LEMMA TailTakesResult ==
    ASSUME NEW Msg, NEW box \in Seq(Msg), NEW t, box # <<>>, Head(box).type = t,
           \A i, j \in Positions(box, t) : i = j
    PROVE  1 \in Positions(box, t) /\ box[1] = Head(box) /\ Positions(Tail(box), t) = {}
<1>1. /\ Len(Tail(box)) = Len(box) - 1 /\ Len(box) \in Nat \ {0}
      /\ \A i \in 1..Len(box) - 1 : Tail(box)[i] = box[i + 1]
      /\ Head(box) = box[1]
      /\ DOMAIN box = 1..Len(box) /\ DOMAIN Tail(box) = 1..Len(box) - 1
  OBVIOUS
<1>2. 1 \in Positions(box, t)
  BY <1>1 DEF Positions
<1>3. ASSUME NEW i \in Positions(Tail(box), t) PROVE FALSE
  BY <1>1, <1>2, <1>3 DEF Positions
<1> QED
  BY <1>1, <1>2, <1>3

(* The first result to be posted is the only one. *)
LEMMA PostAddsResult ==
    ASSUME NEW Msg, NEW box \in Seq(Msg), NEW m \in Msg, NEW t, m.type = t,
           Positions(box, t) = {}
    PROVE  /\ Positions(Append(box, m), t) = {Len(box) + 1}
           /\ Append(box, m)[Len(box) + 1] = m
<1>1. /\ Len(box) \in Nat /\ DOMAIN box = 1..Len(box)
      /\ DOMAIN Append(box, m) = 1..Len(box) + 1
      /\ \A i \in 1..Len(box) : Append(box, m)[i] = box[i]
      /\ Append(box, m)[Len(box) + 1] = m
  OBVIOUS
<1> QED
  BY <1>1 DEF Positions

LEMMA NoPositionInEmpty ==
    ASSUME NEW t
    PROVE  Positions(<<>>, t) = {}
  BY DEF Positions

-----------------------------------------------------------------------------
(* What the other actors leave alone in the executor.                      *)

OthersStep == \/ WorldStep \/ PlannerStep \/ PlanReturns \/ SupervisorStep
              \/ \E n \in Sensor : SensorStep(n)
              \/ DriverStep /\ ~Exit
              \/ Interrupt \/ Terminated

AtMostPosted ==
    /\ UNCHANGED <<execBusy, executed, actionTask>>
    /\ "executor" \in stopped' <=> "executor" \in stopped
    /\ \/ UNCHANGED executorBox
       \/ \E m \in ExecutorMsg : /\ m.type # "ActionFinished"
                                 /\ executorBox' = Send(executorBox, "executor", m)

LEMMA ExecutorFrame ==
    ASSUME TypeOK, OthersStep
    PROVE  AtMostPosted
<1> USE DEF executorVars, AtMostPosted
<1>1. CASE WorldStep
  BY <1>1 DEF WorldStep, WorldAppliesReading, WorldAppliesActionEffects,
         WorldBootstraps, WorldWires, WorldStops, Halt, OutsideWorld
<1>2. CASE PlannerStep \/ PlanReturns
  BY <1>2 DEF PlannerStep, PlannerStartsPlan, PlannerCoalesces, PlannerReports,
         PlannerWires, PlannerStops, PlanReturns, Halt, OutsidePlanner
<1>3. CASE SupervisorStep /\ ~SupervisorDispatches
  <2>1. UNCHANGED <<OutsideSupervisor, executorBox>>
    BY <1>3 DEF SupervisorStep, SupervisorForwardsChange, SupervisorIgnoresPlan,
           SupervisorMeetsPlannerError, SupervisorHasNothingToRun,
           SupervisorTerminates, SupervisorWires, SupervisorStops
  <2>2. stopped' \in {stopped, stopped \cup {"supervisor"}}
    BY <1>3 DEF SupervisorStep, SupervisorForwardsChange, SupervisorIgnoresPlan,
           SupervisorMeetsPlannerError, SupervisorHasNothingToRun,
           SupervisorTerminates, SupervisorWires, SupervisorStops, Halt
  <2> QED
    BY <2>1, <2>2 DEF OutsideSupervisor
<1>4. CASE SupervisorDispatches
  <2>1. /\ Head(supervisorBox).result.first \in Action
        /\ Head(supervisorBox).snapshot \in Snapshot
    BY <1>4, ReceiveType, SupervisorMessageFields
       DEF SupervisorDispatches, IsNext, PlanResult, TypeOK, BoxesOK
  <2>2. [type |-> "AdoptPlan", first |-> Head(supervisorBox).result.first,
         snapshot |-> Head(supervisorBox).snapshot] \in ExecutorMsg
    BY <2>1 DEF ExecutorMsg, AdoptPlan
  <2> QED
    BY <1>4, <2>2 DEF SupervisorDispatches, OutsideSupervisor
<1>5. ASSUME NEW n \in Sensor, SensorStep(n) PROVE AtMostPosted
  BY <1>5 DEF SensorStep, SensorReports, SensorSkips, SensorStops, OutsideSensors,
         vars, boxes
<1>6. CASE WireNext
  <2>1. [type |-> "SetRef", ref |-> Wiring[at].ref] \in ExecutorMsg
    BY <1>6, WiringType DEF WireNext, SetRef, ExecutorMsg, TypeOK, DriverOK
  <2> QED
    BY <1>6, <2>1 DEF WireNext, Post, OutsideDriver
<1>7. CASE StopNext
  <2>1. [type |-> "Stop"] \in ExecutorMsg
    BY DEF ExecutorMsg, Stop
  <2> QED
    BY <1>7, <2>1 DEF StopNext, Post, OutsideDriver
<1>8. CASE Interrupt \/ (DriverStep /\ ~Exit /\ ~WireNext /\ ~StopNext)
  BY <1>8 DEF DriverStep, Sweep, SweepEnds, StartSensors, BootstrapWorld,
         TakeOutcome, Interrupt, StopSensors, Post, OutsideDriver, boxes
<1>9. CASE Terminated
  BY <1>9 DEF Terminated, vars, boxes
<1> HIDE DEF AtMostPosted, executorVars
<1> QED
  BY <1>1, <1>2, <1>3, <1>4, <1>5, <1>6, <1>7, <1>8, <1>9 DEF OthersStep

-----------------------------------------------------------------------------
(* One action in flight, and the cap, are kept.                            *)

LEMMA OthersKeepFlight ==
    ASSUME TypeOK, OneActionInFlight, CapCoversInFlight, driver # "exited", OthersStep
    PROVE  OneActionInFlight' /\ CapCoversInFlight'
<1>1. AtMostPosted
  BY ExecutorFrame
<1>2. Positions(executorBox', "ActionFinished") = Positions(executorBox, "ActionFinished")
  <2>1. CASE UNCHANGED executorBox
    BY <2>1
  <2>2. CASE \E m \in ExecutorMsg : /\ m.type # "ActionFinished"
                                   /\ executorBox' = Send(executorBox, "executor", m)
    BY <2>2, PostKeepsPositions DEF TypeOK, BoxesOK
  <2> QED
    BY <1>1, <2>1, <2>2 DEF AtMostPosted
<1> QED
  BY <1>1, <1>2, HasPosition DEF AtMostPosted, OneActionInFlight, CapCoversInFlight

LEMMA ExecutorKeepsFlight ==
    ASSUME TypeOK, Quiescent, OneActionInFlight, CapCoversInFlight,
           driver # "exited", ExecutorStep \/ ActionEnds
    PROVE  OneActionInFlight' /\ CapCoversInFlight'
<1> DEFINE P == Positions(executorBox, "ActionFinished")
           Q == Positions(executorBox', "ActionFinished")
<1>1. executorBox \in Seq(ExecutorMsg) /\ executed \in Nat /\ MaxActions \in Nat
  BY RuntimeAssumption DEF TypeOK, BoxesOK, ExecutorOK
<1>2. executorBox # <<>> => "executor" \notin stopped
  BY DEF Quiescent
<1>3. "executor" \notin stopped =>
         /\ execBusy <=> (actionTask # {} \/ P # {})
         /\ P # {} => actionTask = {}
         /\ \A i, j \in P : i = j
  BY HasPosition DEF OneActionInFlight
<1>4. executed + (IF actionTask # {} \/ P # {} THEN 1 ELSE 0) <= MaxActions
  BY HasPosition DEF CapCoversInFlight
<1> DEFINE Kept ==
        /\ "executor" \notin stopped' =>
              /\ execBusy' <=> (actionTask' # {} \/ Q # {})
              /\ Q # {} => actionTask' = {}
              /\ \A i, j \in Q : i = j
        /\ executed' + (IF actionTask' # {} \/ Q # {} THEN 1 ELSE 0) <= MaxActions
<1>5. SUFFICES Kept
  BY HasPosition DEF OneActionInFlight, CapCoversInFlight
<1>6. ASSUME executorBox # <<>>, executorBox' = Tail(executorBox),
             Head(executorBox).type # "ActionFinished"
      PROVE  (Q # {} <=> P # {}) /\ ((\A i, j \in P : i = j) => \A i, j \in Q : i = j)
  <2>1. /\ \A i \in Q : i + 1 \in P
        /\ \A i \in P : i - 1 \in Q
        /\ P \subseteq Nat /\ Q \subseteq Nat
    BY <1>1, <1>6, TailShiftsPositions
  <2> QED
    BY <2>1
<1>7. ASSUME NEW r, TakeResult(r)
      PROVE  /\ P # {} /\ Q = {} /\ actionTask = {} /\ actionTask' = {}
             /\ execBusy' = FALSE /\ executed + 1 <= MaxActions
  <2>1. 1 \in P /\ Q = {}
    BY <1>1, <1>2, <1>3, <1>7, TailTakesResult DEF TakeResult, IsNext
  <2> QED
    BY <1>1, <1>2, <1>3, <1>4, <1>7, <2>1 DEF TakeResult, IsNext
<1> HIDE DEF P, Q
<1>8. CASE ExecutorKeepsPlan
  BY <1>2, <1>3, <1>4, <1>6, <1>8 DEF ExecutorKeepsPlan, IsNext
<1>9. CASE ExecutorHitsCap
  BY <1>2, <1>3, <1>4, <1>6, <1>9 DEF ExecutorHitsCap, IsNext
<1>10. CASE ExecutorStartsAction
  <2>1. actionTask = {} /\ P = {} /\ Q = {}
    BY <1>2, <1>3, <1>6, <1>10 DEF ExecutorStartsAction, IsNext
  <2>2. actionTask' # {} /\ execBusy' = TRUE /\ executed' = executed
        /\ executed < MaxActions
    BY <1>10 DEF ExecutorStartsAction
  <2> QED
    BY <1>1, <2>1, <2>2
<1>11. ASSUME NEW r, TakeResult(r), executed' \in {executed, executed + 1}
       PROVE  Kept
  <2>1. /\ Q = {} /\ actionTask' = {} /\ execBusy' = FALSE
        /\ executed + 1 <= MaxActions
    BY <1>7, <1>11
  <2> QED
    <3>1. executed' + 0 <= MaxActions
      <4>1. CASE executed' = executed
        BY <1>1, <2>1, <4>1
      <4>2. CASE executed' = executed + 1
        BY <1>1, <2>1, <4>2
      <4> QED
        BY <1>11, <4>1, <4>2
    <3>2. (IF actionTask' # {} \/ Q # {} THEN 1 ELSE 0) = 0
      BY <2>1
    <3>3. execBusy' <=> (actionTask' # {} \/ Q # {})
      BY <2>1
    <3> QED
      BY <2>1, <3>1, <3>2, <3>3
<1>12. CASE ExecutorMeetsError
  BY <1>11, <1>12 DEF ExecutorMeetsError
<1>13. CASE ExecutorAppliesSuccess \/ ExecutorRecovers
  BY <1>11, <1>13 DEF ExecutorAppliesSuccess, ExecutorRecovers
<1>14. CASE ExecutorFails
  BY <1>11, <1>14 DEF ExecutorFails
<1>15. CASE ExecutorWires
  BY <1>2, <1>3, <1>4, <1>6, <1>15 DEF ExecutorWires, Wire, IsNext, executorVars
<1>16. CASE ExecutorStops
  <2>1. Q = {} /\ "executor" \in stopped' /\ UNCHANGED <<executed, actionTask>>
    BY <1>16, NoPositionInEmpty DEF ExecutorStops, Halt, executorVars, Q
  <2> QED
    BY <1>1, <1>4, <2>1
<1>17. CASE ActionEnds
  <2>1. PICK t \in actionTask : \E r \in CommandResults[t.action] :
           executorBox' = Send(executorBox, "executor",
              [type |-> "ActionFinished", action |-> t.action, result |-> r])
    BY <1>17 DEF ActionEnds
  <2>2. PICK r \in CommandResults[t.action] :
           executorBox' = Send(executorBox, "executor",
              [type |-> "ActionFinished", action |-> t.action, result |-> r])
    BY <2>1
  <2>3. actionTask # {} /\ actionTask' = {}
        /\ UNCHANGED <<execBusy, executed, stopped>>
    BY <1>17, <2>1 DEF ActionEnds
  <2>4. CASE "executor" \in stopped
    BY <1>1, <1>4, <2>2, <2>3, <2>4 DEF Send, P, Q
  <2>5. CASE "executor" \notin stopped
    <3>1. P = {} /\ execBusy
      BY <1>3, <2>3, <2>5
    <3>2. [type |-> "ActionFinished", action |-> t.action, result |-> r] \in ExecutorMsg
      <4>1. t.action \in Action
        BY <2>1 DEF TypeOK, ExecutorOK, Option, ActionTask
      <4> QED
        BY <4>1, <2>2, RuntimeAssumption DEF ExecutorMsg
    <3>3. Q = {Len(executorBox) + 1}
      <4> DEFINE m == [type |-> "ActionFinished", action |-> t.action, result |-> r]
      <4>1. executorBox' = Append(executorBox, m)
        BY <2>2, <2>5 DEF Send
      <4>2. m \in ExecutorMsg /\ m.type = "ActionFinished"
        BY <3>2
      <4> HIDE DEF m
      <4>3. Positions(executorBox, "ActionFinished") = {}
        BY <3>1 DEF P
      <4>4. Positions(Append(executorBox, m), "ActionFinished") = {Len(executorBox) + 1}
        BY <1>1, <4>2, <4>3, PostAddsResult
      <4> QED
        BY <4>1, <4>4 DEF Q
    <3> QED
      BY <1>4, <2>3, <3>1, <3>3
  <2> QED
    BY <2>4, <2>5
<1> QED
  BY <1>8, <1>9, <1>10, <1>11, <1>12, <1>13, <1>14, <1>15, <1>16, <1>17
     DEF ExecutorStep

-----------------------------------------------------------------------------
(* The invariant, and the safety theorems.                                 *)

LEMMA TypeStep ==
    ASSUME TypeOK, [Next]_vars
    PROVE  TypeOK'
  BY WorldStepType, PlannerStepType, SupervisorStepType, ExecutorStepType,
     SensorStepType, DriverStepType, StutterType DEF Next, Terminated

LEMMA IInvStep ==
    ASSUME IInv, [Next]_vars
    PROVE  IInv'
<1>1. TypeOK' /\ Provenance' /\ Deciding' /\ Quiescent'
  BY TypeStep, NextKeepsProvenance, NextKeepsDeciding, NextKeepsQuiescent DEF IInv
<1>2. OneActionInFlight' /\ CapCoversInFlight'
  <2>1. CASE UNCHANGED vars
    BY <2>1 DEF IInv, OneActionInFlight, CapCoversInFlight, vars, boxes,
                executorVars, driverVars
  <2>2. CASE driver = "exited"
    BY <2>1, <2>2, NothingAfterExit DEF IInv
  <2>3. CASE driver # "exited" /\ Exit
    <3>1. executorBox' = <<>> /\ actionTask' = {} /\ driver' = "exited" /\ executed' = executed
      BY <2>3 DEF Exit
    <3>2. executed <= MaxActions
      BY RuntimeAssumption DEF IInv, CapCoversInFlight, TypeOK, ExecutorOK
    <3> QED
      BY <3>1, <3>2, RuntimeAssumption
         DEF OneActionInFlight, CapCoversInFlight, Has, IInv, TypeOK, ExecutorOK
  <2>4. CASE driver # "exited" /\ ~Exit /\ Next
    BY <2>4, OthersKeepFlight, ExecutorKeepsFlight DEF IInv, Next, OthersStep
  <2> QED
    BY <2>1, <2>2, <2>3, <2>4
<1> QED
  BY <1>1, <1>2 DEF IInv

LEMMA IInvCorrect == Spec => []IInv
  BY InitIInv, IInvStep, PTL DEF Spec

(* One action is in flight at a time, in every configuration. *)
THEOREM OneActionAtATime == Spec => []OneActionInFlight
<1>1. IInv => OneActionInFlight
  BY DEF IInv
<1> QED
  BY <1>1, IInvCorrect, PTL

(* The cap is never exceeded, the action in flight included. *)
THEOREM CapHolds == Spec => []CapCoversInFlight
<1>1. IInv => CapCoversInFlight
  BY DEF IInv
<1> QED
  BY <1>1, IInvCorrect, PTL

(* An action runs with the snapshot it was planned from. *)
THEOREM ActionsFollowTheirPlans == Spec => []ActionMatchesSnapshot
<1>1. IInv => ActionMatchesSnapshot
  <2> SUFFICES ASSUME IInv, NEW t \in actionTask
               PROVE  /\ Starting(t.action) \in PlanResults[t.snapshot.facts]
                      /\ Library[t.action].requires \subseteq t.snapshot.facts
    BY DEF ActionMatchesSnapshot
  <2>1. Starting(t.action) \in PlanResults[t.snapshot.facts]
    BY DEF IInv, Provenance
  <2>2. t.snapshot.facts \in State
    BY DEF IInv, TypeOK, ExecutorOK, Option, ActionTask, Snapshot
  <2>3. t.action \in FirstSteps(t.snapshot.facts)
    BY <2>1, <2>2, StepsAreSound DEF Starting
  <2> QED
    BY <2>1, <2>3 DEF FirstSteps, Applicable
<1> QED
  BY <1>1, IInvCorrect, PTL

-----------------------------------------------------------------------------
(* The outcome is final.                                                   *)

LEMMA DecidedOnce ==
    ASSUME IInv, [Next]_vars
    PROVE  /\ completion # {} => completion' = completion
           /\ outcome # {} => outcome' = outcome
           /\ outcome' # outcome => \/ outcome' = completion
                                    \/ completion = {} /\ outcome' = {"Interrupted"}
<1> USE DEF supervisorVars, driverVars
<1>1. CASE SupervisorStep
  <2>1. UNCHANGED outcome
    BY <1>1 DEF SupervisorStep, SupervisorForwardsChange, SupervisorIgnoresPlan,
         SupervisorMeetsPlannerError, SupervisorHasNothingToRun,
         SupervisorDispatches, SupervisorTerminates, SupervisorWires,
         SupervisorStops, OutsideSupervisor
  <2>2. UNCHANGED completion \/ \E o : completion' = IF done THEN completion ELSE {o}
    BY <1>1 DEF SupervisorStep, SupervisorForwardsChange, SupervisorIgnoresPlan,
         SupervisorMeetsPlannerError, SupervisorHasNothingToRun,
         SupervisorDispatches, SupervisorTerminates, SupervisorWires,
         SupervisorStops, Finish
  <2> QED
    BY <2>1, <2>2 DEF IInv, Deciding
<1>2. CASE TakeOutcome \/ Interrupt
  BY <1>2 DEF TakeOutcome, Interrupt, OutsideDriver, IInv, Deciding
<1>3. CASE DriverStep /\ ~TakeOutcome
  BY <1>3 DEF DriverStep, Sweep, SweepEnds, WireNext, StartSensors, BootstrapWorld,
         StopSensors, StopNext, Exit, OutsideDriver
<1>4. CASE ExecutorStep \/ ActionEnds
  BY <1>4 DEF ExecutorStep, ExecutorKeepsPlan, ExecutorHitsCap, ExecutorStartsAction,
         ExecutorMeetsError, ExecutorAppliesSuccess, ExecutorRecovers, ExecutorFails,
         TakeResult, ExecutorWires, ExecutorStops, ActionEnds, OutsideExecutor
<1>5. CASE WorldStep \/ PlannerStep \/ PlanReturns
  BY <1>5 DEF WorldStep, WorldAppliesReading, WorldAppliesActionEffects,
         WorldBootstraps, WorldWires, WorldStops, OutsideWorld,
         PlannerStep, PlannerStartsPlan, PlannerCoalesces, PlannerReports,
         PlannerWires, PlannerStops, PlanReturns, OutsidePlanner
<1>6. CASE \E n \in Sensor : SensorStep(n)
  BY <1>6 DEF SensorStep, SensorReports, SensorSkips, SensorStops, OutsideSensors, vars
<1>7. CASE UNCHANGED vars
  BY <1>7 DEF vars
<1> QED
  BY <1>1, <1>2, <1>3, <1>4, <1>5, <1>6, <1>7 DEF Next, Terminated

(* The first outcome reported is the one that run returns. *)
THEOREM OutcomeDecidedOnce == Spec => OutcomeIsFinal
<1>1. IInv /\ [Next]_vars =>
         [/\ completion # {} => completion' = completion
          /\ outcome # {} => outcome' = outcome
          /\ outcome' # outcome => outcome' \in {completion, {"Interrupted"}}]_vars
  BY DecidedOnce
<1> QED
  BY <1>1, IInvCorrect, PTL DEF Spec, OutcomeIsFinal

-----------------------------------------------------------------------------
(* The refinement.                                                         *)

LEMMA VerdictStep ==
    ASSUME IInv, [Next]_vars
    PROVE  UNCHANGED Verdict \/ (Verdict = {} /\ \E v \in Outcome : Verdict' = {v})
<1>1. completion' \in Option(Outcome) /\ outcome' \in Option(Outcome)
  BY TypeStep DEF IInv, TypeOK, DriverOK
<1>2. \A S \in Option(Outcome) : S # {} => \E v \in Outcome : S = {v}
  BY DEF Option
<1>3. CASE outcome # {}
  BY <1>3, DecidedOnce DEF Verdict
<1>4. CASE outcome = {} /\ outcome' = {}
  BY <1>1, <1>2, <1>4, DecidedOnce DEF Verdict
<1>5. CASE outcome = {} /\ outcome' # {} /\ outcome' = completion
  BY <1>5 DEF Verdict
<1>6. CASE outcome = {} /\ completion = {} /\ outcome' = {"Interrupted"}
  BY <1>6 DEF Verdict, Outcome
<1> QED
  BY <1>3, <1>4, <1>5, <1>6, DecidedOnce

(* What the others do, and what merely moves in the mailbox, is not seen. *)
LEMMA OthersKeepInFlight ==
    ASSUME IInv, OthersStep
    PROVE  UNCHANGED <<InFlight, executed>>
<1>1. AtMostPosted
  BY ExecutorFrame DEF IInv
<1>2. /\ Positions(executorBox', "ActionFinished") = Positions(executorBox, "ActionFinished")
      /\ \A i \in Positions(executorBox, "ActionFinished") : executorBox'[i] = executorBox[i]
  <2>1. CASE UNCHANGED executorBox
    BY <2>1
  <2>2. CASE \E m \in ExecutorMsg : /\ m.type # "ActionFinished"
                                   /\ executorBox' = Send(executorBox, "executor", m)
    BY <2>2, PostKeepsPositions DEF IInv, TypeOK, BoxesOK
  <2> QED
    BY <1>1, <2>1, <2>2 DEF AtMostPosted
<1> QED
  BY <1>1, <1>2 DEF AtMostPosted, InFlight

(* The actions whose results wait in the executor's mailbox. *)
Returned(box) == {box[i].action : i \in Positions(box, "ActionFinished")}

LEMMA ExecutorRefines ==
    ASSUME IInv, ExecutorStep \/ ActionEnds
    PROVE  [Loop!Next]_(Loop!vars)
<1>1. UNCHANGED Verdict
  BY DEF ExecutorStep, ExecutorKeepsPlan, ExecutorHitsCap, ExecutorStartsAction,
         ExecutorMeetsError, ExecutorAppliesSuccess, ExecutorRecovers, ExecutorFails,
         TakeResult, ExecutorWires, ExecutorStops, ActionEnds, OutsideExecutor,
         supervisorVars, driverVars, Verdict
<1>2. executorBox \in Seq(ExecutorMsg)
  BY DEF IInv, TypeOK, BoxesOK
<1>3. executorBox # <<>> => "executor" \notin stopped /\ driver # "exited"
  BY DEF IInv, Quiescent
<1>4. InFlight = {t.action : t \in actionTask} \cup Returned(executorBox)
      /\ InFlight' = {t.action : t \in actionTask'} \cup Returned(executorBox')
  BY DEF InFlight, Returned
<1>5. ASSUME executorBox # <<>>, executorBox' = Tail(executorBox),
             Head(executorBox).type # "ActionFinished"
      PROVE  Returned(executorBox') = Returned(executorBox)
  <2> DEFINE P == Positions(executorBox, "ActionFinished")
             Q == Positions(executorBox', "ActionFinished")
  <2>1. /\ \A i \in Q : i + 1 \in P /\ executorBox'[i] = executorBox[i + 1]
        /\ \A i \in P : i - 1 \in Q
        /\ P \subseteq Nat /\ Q \subseteq Nat
    BY <1>2, <1>5, TailShiftsPositions
  <2>2. \A i \in P : executorBox'[i - 1] = executorBox[i]
    BY <2>1
  <2> HIDE DEF P, Q
  <2>3. {executorBox'[i].action : i \in Q} = {executorBox[i].action : i \in P}
    BY <2>1, <2>2
  <2> QED
    BY <2>3 DEF Returned, P, Q
<1>6. ASSUME NEW r, TakeResult(r)
      PROVE  /\ InFlight = {Head(executorBox).action} /\ InFlight' = {}
             /\ r \in CommandResults[Head(executorBox).action]
  <2> DEFINE P == Positions(executorBox, "ActionFinished")
  <2>1. executorBox # <<>> /\ Head(executorBox).type = "ActionFinished"
        /\ Head(executorBox).result = r
        /\ executorBox' = Tail(executorBox) /\ UNCHANGED actionTask
    BY <1>6 DEF TakeResult, IsNext
  <2>2. \A i, j \in P : i = j
    BY <1>3, <2>1 DEF IInv, OneActionInFlight
  <2>3. 1 \in P /\ executorBox[1] = Head(executorBox)
        /\ Positions(executorBox', "ActionFinished") = {}
    BY <1>2, <2>1, <2>2, TailTakesResult
  <2>4. P = {1}
    BY <2>2, <2>3
  <2>5. actionTask = {}
    BY <1>3, <2>1, <2>3, HasPosition DEF IInv, OneActionInFlight
  <2>6. Returned(executorBox) = {Head(executorBox).action} /\ Returned(executorBox') = {}
    BY <2>3, <2>4 DEF Returned
  <2>7. Head(executorBox) \in SoundExecutorMsg
    BY <2>1, ReceiveType DEF IInv, Provenance
  <2> QED
    BY <1>4, <2>1, <2>5, <2>6, <2>7 DEF SoundExecutorMsg
<1>7. CASE ExecutorKeepsPlan \/ ExecutorHitsCap
  <2>1. UNCHANGED <<InFlight, executed>>
    BY <1>4, <1>5, <1>7 DEF ExecutorKeepsPlan, ExecutorHitsCap, IsNext
  <2> QED
    BY <1>1, <2>1 DEF Loop!vars
<1>8. CASE ExecutorWires
  <2>1. UNCHANGED <<InFlight, executed>>
    BY <1>4, <1>5, <1>8 DEF ExecutorWires, Wire, IsNext, executorVars
  <2> QED
    BY <1>1, <2>1 DEF Loop!vars
<1>9. CASE ExecutorStartsAction
  <2> DEFINE m == Head(executorBox)
  <2>1. executorBox # <<>> /\ m.type = "AdoptPlan" /\ ~execBusy
        /\ executed < MaxActions /\ UNCHANGED executed
        /\ executorBox' = Tail(executorBox)
        /\ actionTask' = {[action |-> m.first, snapshot |-> m.snapshot]}
    BY <1>9 DEF ExecutorStartsAction, IsNext
  <2>2. actionTask = {} /\ Positions(executorBox, "ActionFinished") = {}
    BY <1>3, <2>1, HasPosition DEF IInv, OneActionInFlight
  <2>3. Returned(executorBox) = {} /\ Returned(executorBox') = {}
    BY <1>5, <2>1, <2>2 DEF Returned
  <2>4. InFlight = {} /\ InFlight' = {m.first}
    BY <1>4, <2>1, <2>2, <2>3
  <2>5. m \in SoundExecutorMsg
    BY <2>1, ReceiveType DEF IInv, Provenance
  <2>6. m.snapshot.facts \in State /\ Starting(m.first) \in PlanResults[m.snapshot.facts]
    BY <2>1, <2>5, ExecutorMessageFields DEF SoundExecutorMsg, AdoptPlan, Snapshot
  <2>7. Starting(m.first).kind = "steps" /\ Starting(m.first).first = m.first
    BY DEF Starting
  <2>8. Loop!Start
    BY <1>1, <2>1, <2>4, <2>6, <2>7 DEF Loop!Start
  <2> QED
    BY <2>8 DEF Loop!Next
<1>10. CASE ExecutorMeetsError
  <2>1. Loop!Break
    BY <1>1, <1>6, <1>10 DEF ExecutorMeetsError, Loop!Break
  <2> QED
    BY <2>1 DEF Loop!Next
<1>11. CASE ExecutorAppliesSuccess \/ ExecutorRecovers \/ ExecutorFails
  <2>1. executed' = executed + 1 /\ \E r : TakeResult(r)
    BY <1>11 DEF ExecutorAppliesSuccess, ExecutorRecovers, ExecutorFails
  <2>2. Loop!Finish
    BY <1>1, <1>6, <2>1 DEF Loop!Finish
  <2> QED
    BY <2>2 DEF Loop!Next
<1>12. ASSUME outcome # {}, InFlight' \in {InFlight, {}}, UNCHANGED executed
       PROVE  [Loop!Next]_(Loop!vars)
  BY <1>1, <1>12 DEF Loop!Next, Loop!Abandon, Loop!vars, Verdict
<1>13. CASE ExecutorStops
  <2>1. executorBox # <<>> /\ Head(executorBox).type = "Stop" /\ executorBox' = <<>>
        /\ UNCHANGED <<actionTask, executed>>
    BY <1>13 DEF ExecutorStops, Halt, IsNext, executorVars
  <2>2. outcome # {}
    <3>1. Head(executorBox) \notin ExecutorMsg \ Stop
      BY <2>1 DEF ExecutorMsg, AdoptPlan, SetRef, Stop
    <3> QED
      BY <2>1, <3>1, ReceiveType DEF IInv, Deciding
  <2>3. Returned(executorBox') = {}
    BY <2>1, NoPositionInEmpty DEF Returned
  <2>4. Returned(executorBox) = {} \/ actionTask = {}
    BY <1>3, <2>1, HasPosition DEF IInv, OneActionInFlight, Returned
  <2> QED
    BY <1>4, <1>12, <2>1, <2>2, <2>3, <2>4
<1>14. CASE ActionEnds
  <2>1. PICK t \in actionTask : \E r \in CommandResults[t.action] :
           executorBox' = Send(executorBox, "executor",
              [type |-> "ActionFinished", action |-> t.action, result |-> r])
    BY <1>14 DEF ActionEnds
  <2>2. PICK r \in CommandResults[t.action] :
           executorBox' = Send(executorBox, "executor",
              [type |-> "ActionFinished", action |-> t.action, result |-> r])
    BY <2>1
  <2>3. actionTask = {t} /\ t.action \in Action /\ actionTask' = {} /\ UNCHANGED executed
    BY <1>14, <2>1 DEF ActionEnds, IInv, TypeOK, ExecutorOK, Option, ActionTask
  <2>4. CASE "executor" \in stopped
    <3>1. executorBox = <<>> /\ executorBox' = <<>> /\ outcome # {}
      BY <2>2, <2>4 DEF Send, IInv, Quiescent, Deciding
    <3>2. Returned(executorBox') = {}
      BY <3>1, NoPositionInEmpty DEF Returned
    <3> QED
      BY <1>4, <1>12, <2>3, <3>1, <3>2
  <2>5. CASE "executor" \notin stopped
    <3> DEFINE m == [type |-> "ActionFinished", action |-> t.action, result |-> r]
    <3>1. m \in ExecutorMsg /\ m.type = "ActionFinished" /\ m.action = t.action
      BY <2>2, <2>3, RuntimeAssumption DEF ExecutorMsg
    <3>2. driver # "exited"
      BY <2>3 DEF IInv, Quiescent
    <3>3. Positions(executorBox, "ActionFinished") = {}
      BY <2>3, <2>5, <3>2, HasPosition DEF IInv, OneActionInFlight
    <3>4. executorBox' = Append(executorBox, m)
      BY <2>2, <2>5 DEF Send
    <3> HIDE DEF m
    <3>5. Returned(executorBox) = {} /\ Returned(executorBox') = {t.action}
      BY <1>2, <3>1, <3>3, <3>4, PostAddsResult DEF Returned
    <3>6. UNCHANGED InFlight
      BY <1>4, <2>3, <3>5
    <3> QED
      BY <1>1, <2>3, <3>6 DEF Loop!vars
  <2> QED
    BY <2>4, <2>5
<1> QED
  BY <1>7, <1>8, <1>9, <1>10, <1>11, <1>13, <1>14 DEF ExecutorStep

LEMMA ExitRefines ==
    ASSUME IInv, Exit
    PROVE  [Loop!Next]_(Loop!vars)
<1>1. InFlight' = {} /\ UNCHANGED <<executed, Verdict>>
  BY NoPositionInEmpty DEF Exit, InFlight, supervisorVars, Verdict
<1>2. Verdict # {}
  BY DEF Exit, IInv, Deciding, Verdict
<1> QED
  BY <1>1, <1>2 DEF Loop!Next, Loop!Abandon, Loop!vars

(* Every run of the actors is a run of the abstract loop. *)
THEOREM RuntimeImplementsLoop == Spec => ImplementsActionLoop
<1>1. Init => Loop!Init
  BY NoPositionInEmpty DEF Init, Loop!Init, InFlight, Verdict
<1>2. IInv /\ [Next]_vars => [Loop!Next]_(Loop!vars)
  <2> SUFFICES ASSUME IInv, [Next]_vars
               PROVE  [Loop!Next]_(Loop!vars)
    OBVIOUS
  <2>1. CASE OthersStep
    <3>1. UNCHANGED <<InFlight, executed>>
      BY <2>1, OthersKeepInFlight
    <3> QED
      BY <3>1, VerdictStep DEF Loop!Next, Loop!Decide, Loop!vars, Outcome, Loop!Verdict
  <2>2. CASE ExecutorStep \/ ActionEnds
    BY <2>2, ExecutorRefines
  <2>3. CASE Exit
    BY <2>3, ExitRefines
  <2>4. CASE UNCHANGED vars
    BY <2>4 DEF vars, boxes, executorVars, supervisorVars, driverVars, InFlight,
                Verdict, Loop!vars
  <2> QED
    BY <2>1, <2>2, <2>3, <2>4 DEF Next, OthersStep
<1> QED
  BY <1>1, <1>2, IInvCorrect, PTL DEF Spec, ImplementsActionLoop, Loop!Spec

-----------------------------------------------------------------------------
(***************************************************************************)
(* One planning at a time, and nothing after the verdict.                  *)
(***************************************************************************)

-----------------------------------------------------------------------------
(* What the other actors leave alone in the planner.                       *)

OthersPost ==
    /\ UNCHANGED plannerVars
    /\ "planner" \in stopped' <=> "planner" \in stopped
    /\ \/ UNCHANGED plannerBox
       \/ \E m \in PlannerMsg : /\ m.type # "PlanComputed"
                                /\ plannerBox' = Send(plannerBox, "planner", m)

LEMMA SupervisorPosts ==
    ASSUME TypeOK, SupervisorStep
    PROVE  OthersPost
<1> USE DEF OthersPost
<1>1. CASE SupervisorForwardsChange
  <2>1. [type |-> "PlanRequest", snapshot |-> Head(supervisorBox).snapshot] \in PlannerMsg
    BY <1>1, ReceiveType, SupervisorMessageFields
       DEF SupervisorForwardsChange, IsNext, PlannerMsg, TypeOK, BoxesOK
  <2> QED
    BY <1>1, <2>1 DEF SupervisorForwardsChange, OutsideSupervisor
<1>2. CASE ~SupervisorForwardsChange
  <2>1. UNCHANGED <<OutsideSupervisor, plannerBox>>
    BY <1>2 DEF SupervisorStep, SupervisorIgnoresPlan, SupervisorMeetsPlannerError,
           SupervisorHasNothingToRun, SupervisorDispatches, SupervisorTerminates,
           SupervisorWires, SupervisorStops
  <2>2. stopped' \in {stopped, stopped \cup {"supervisor"}}
    BY <1>2 DEF SupervisorStep, SupervisorIgnoresPlan, SupervisorMeetsPlannerError,
           SupervisorHasNothingToRun, SupervisorDispatches, SupervisorTerminates,
           SupervisorWires, SupervisorStops, Halt
  <2> QED
    BY <2>1, <2>2 DEF OutsideSupervisor
<1> QED
  BY <1>1, <1>2

LEMMA PlannerFrame ==
    ASSUME TypeOK, Next, ~PlannerStep, ~PlanReturns, ~Exit
    PROVE  OthersPost
<1> USE DEF OthersPost
<1>1. CASE WorldStep
  BY <1>1 DEF WorldStep, WorldAppliesReading, WorldAppliesActionEffects,
         WorldBootstraps, WorldWires, WorldStops, Halt, OutsideWorld
<1>2. CASE ExecutorStep \/ ActionEnds
  <2>1. UNCHANGED OutsideExecutor
    BY <1>2 DEF ExecutorStep, ExecutorKeepsPlan, ExecutorHitsCap, ExecutorStartsAction,
           ExecutorMeetsError, ExecutorAppliesSuccess, ExecutorRecovers, ExecutorFails,
           TakeResult, ExecutorWires, ExecutorStops, ActionEnds
  <2>2. stopped' \in {stopped, stopped \cup {"executor"}}
    BY <1>2 DEF ExecutorStep, ExecutorKeepsPlan, ExecutorHitsCap, ExecutorStartsAction,
           ExecutorMeetsError, ExecutorAppliesSuccess, ExecutorRecovers, ExecutorFails,
           TakeResult, ExecutorWires, ExecutorStops, ActionEnds, Halt
  <2> QED
    BY <2>1, <2>2 DEF OutsideExecutor
<1>3. CASE WireNext
  <2>1. [type |-> "SetRef", ref |-> Wiring[at].ref] \in PlannerMsg
    BY <1>3, WiringType DEF WireNext, SetRef, PlannerMsg, TypeOK, DriverOK
  <2> QED
    BY <1>3, <2>1 DEF WireNext, Post, OutsideDriver
<1>4. CASE StopNext
  <2>1. [type |-> "Stop"] \in PlannerMsg
    BY DEF PlannerMsg, Stop
  <2> QED
    BY <1>4, <2>1 DEF StopNext, Post, OutsideDriver
<1>5. CASE Interrupt \/ (DriverStep /\ ~Exit /\ ~WireNext /\ ~StopNext)
  BY <1>5 DEF DriverStep, Sweep, SweepEnds, StartSensors, BootstrapWorld,
         TakeOutcome, Interrupt, StopSensors, Post, OutsideDriver, boxes
<1>6. ASSUME NEW n \in Sensor, SensorStep(n) PROVE OthersPost
  BY <1>6 DEF SensorStep, SensorReports, SensorSkips, SensorStops, OutsideSensors,
         vars, boxes
<1>7. CASE Terminated
  BY <1>7 DEF Terminated, vars, boxes
<1> HIDE DEF OthersPost
<1> QED
  BY <1>1, <1>2, <1>3, <1>4, <1>5, <1>6, <1>7, SupervisorPosts DEF Next

-----------------------------------------------------------------------------
(* One plan in flight is kept.                                             *)

LEMMA OthersKeepPlan ==
    ASSUME TypeOK, OnePlanInFlight, driver # "exited", OthersPost
    PROVE  OnePlanInFlight'
<1>1. Positions(plannerBox', "PlanComputed") = Positions(plannerBox, "PlanComputed")
  <2>1. CASE UNCHANGED plannerBox
    BY <2>1
  <2>2. CASE \E m \in PlannerMsg : /\ m.type # "PlanComputed"
                                  /\ plannerBox' = Send(plannerBox, "planner", m)
    BY <2>2, PostKeepsPositions DEF TypeOK, BoxesOK
  <2> QED
    BY <2>1, <2>2 DEF OthersPost
<1> QED
  BY <1>1, HasPosition DEF OthersPost, OnePlanInFlight, plannerVars

LEMMA PlannerKeepsPlan ==
    ASSUME TypeOK, OnePlanInFlight, driver # "exited", "planner" \notin stopped,
           PlannerStep \/ PlanReturns
    PROVE  OnePlanInFlight'
<1> DEFINE P == Positions(plannerBox, "PlanComputed")
           Q == Positions(plannerBox', "PlanComputed")
           Kept == "planner" \notin stopped' =>
                      /\ planBusy' <=> (planTask' # {} \/ Q # {})
                      /\ Q # {} => planTask' = {}
                      /\ \A i, j \in Q : i = j
                      /\ planPending' # {} => planBusy'
<1>1. plannerBox \in Seq(PlannerMsg) /\ planBusy \in BOOLEAN
  BY DEF TypeOK, BoxesOK, PlannerOK
<1>2. /\ planBusy <=> (planTask # {} \/ P # {})
      /\ P # {} => planTask = {}
      /\ \A i, j \in P : i = j
      /\ planPending # {} => planBusy
  BY HasPosition DEF OnePlanInFlight
<1>3. SUFFICES Kept
  BY HasPosition DEF OnePlanInFlight
<1>4. ASSUME plannerBox # <<>>, plannerBox' = Tail(plannerBox),
             Head(plannerBox).type # "PlanComputed"
      PROVE  (Q # {} <=> P # {}) /\ \A i, j \in Q : i = j
  <2>1. /\ \A i \in Q : i + 1 \in P
        /\ \A i \in P : i - 1 \in Q
        /\ P \subseteq Nat /\ Q \subseteq Nat
    BY <1>1, <1>4, TailShiftsPositions
  <2> QED
    BY <1>2, <2>1
<1>5. CASE PlannerReports
  <2>1. P # {} /\ Q = {}
    BY <1>1, <1>2, <1>5, TailTakesResult DEF PlannerReports, IsNext
  <2> HIDE DEF P, Q
  <2>2. planTask = {} /\ planBusy
    BY <1>2, <2>1
  <2>3. CASE planPending = {} /\ planBusy' = FALSE /\ UNCHANGED <<planPending, planTask, planned>>
    BY <2>1, <2>2, <2>3
  <2>4. CASE /\ \E next \in planPending : SpawnPlan(next)
             /\ planPending' = {} /\ UNCHANGED planBusy
    BY <2>1, <2>2, <2>4 DEF SpawnPlan
  <2> QED
    BY <1>5, <2>3, <2>4 DEF PlannerReports
<1> HIDE DEF P, Q
<1>6. CASE PlannerStartsPlan
  BY <1>2, <1>4, <1>6 DEF PlannerStartsPlan, SpawnPlan, IsNext
<1>7. CASE PlannerCoalesces
  BY <1>2, <1>4, <1>7 DEF PlannerCoalesces, IsNext
<1>8. CASE PlannerWires
  BY <1>2, <1>4, <1>8 DEF PlannerWires, Wire, IsNext, plannerVars
<1>9. CASE PlannerStops
  BY <1>9 DEF PlannerStops, Halt
<1>10. CASE PlanReturns
  <2>1. PICK s \in planTask : \E r \in PlanResults[s.facts] :
           plannerBox' = Send(plannerBox, "planner",
              [type |-> "PlanComputed", result |-> r, snapshot |-> s])
    BY <1>10 DEF PlanReturns
  <2>2. PICK r \in PlanResults[s.facts] :
           plannerBox' = Send(plannerBox, "planner",
              [type |-> "PlanComputed", result |-> r, snapshot |-> s])
    BY <2>1
  <2>3. [type |-> "PlanComputed", result |-> r, snapshot |-> s] \in PlannerMsg
    BY <2>1, <2>2, PlanResultsType DEF TypeOK, PlannerOK, Option, Snapshot, PlannerMsg
  <2>4. P = {} /\ planBusy
    BY <1>2, <2>1
  <2>5. Q = {Len(plannerBox) + 1}
    <3> DEFINE m == [type |-> "PlanComputed", result |-> r, snapshot |-> s]
    <3>1. plannerBox' = Append(plannerBox, m)
      BY <2>2 DEF Send
    <3>2. m \in PlannerMsg /\ m.type = "PlanComputed"
      BY <2>3
    <3> HIDE DEF m
    <3>3. Positions(plannerBox, "PlanComputed") = {}
      BY <2>4 DEF P
    <3>4. Positions(Append(plannerBox, m), "PlanComputed") = {Len(plannerBox) + 1}
      BY <1>1, <3>2, <3>3, PostAddsResult
    <3> QED
      BY <3>1, <3>4 DEF Q
  <2>6. planTask' = {} /\ UNCHANGED <<planBusy, planPending>>
    BY <1>10 DEF PlanReturns
  <2> QED
    BY <2>4, <2>5, <2>6
<1> QED
  BY <1>5, <1>6, <1>7, <1>8, <1>9, <1>10 DEF PlannerStep

LEMMA OnePlanStep ==
    ASSUME IInv, OnePlanInFlight, [Next]_vars
    PROVE  OnePlanInFlight'
<1> USE DEF IInv
<1>1. CASE UNCHANGED vars
  BY <1>1 DEF OnePlanInFlight, vars, boxes, plannerVars, driverVars
<1>2. CASE driver = "exited"
  BY <1>1, <1>2, NothingAfterExit
<1>3. CASE Exit
  BY <1>3 DEF Exit, OnePlanInFlight
<1>4. CASE "planner" \in stopped /\ (PlannerStep \/ PlanReturns)
  <2>1. "planner" \in stopped'
    BY <1>4 DEF PlannerStep, PlannerStartsPlan, PlannerCoalesces, PlannerReports,
                PlannerWires, PlannerStops, Halt, PlanReturns
  <2> QED
    BY <2>1 DEF OnePlanInFlight
<1>5. CASE driver # "exited" /\ "planner" \notin stopped /\ (PlannerStep \/ PlanReturns)
  BY <1>5, PlannerKeepsPlan
<1>6. CASE driver # "exited" /\ Next /\ ~PlannerStep /\ ~PlanReturns /\ ~Exit
  BY <1>6, PlannerFrame, OthersKeepPlan
<1> QED
  BY <1>1, <1>2, <1>3, <1>4, <1>5, <1>6

(* One plan() call is in flight at a time, whatever is requested meanwhile. *)
THEOREM OnePlanAtATime == Spec => []OnePlanInFlight
<1>1. Init => OnePlanInFlight
  BY DEF Init, OnePlanInFlight, Has, Positions
<1> QED
  BY <1>1, OnePlanStep, IInvCorrect, PTL DEF Spec

-----------------------------------------------------------------------------
(* What may happen to a mailbox without a message of type t being posted.  *)
Undispatched(Msg, box, next, t) ==
    \/ next = box
    \/ next = <<>>
    \/ box # <<>> /\ next = Tail(box)
    \/ \E m \in Msg, actor \in Actor : m.type # t /\ next = Send(box, actor, m)

LEMMA PositionsFinite ==
    ASSUME NEW Msg, NEW box \in Seq(Msg), NEW t
    PROVE  IsFiniteSet(Positions(box, t))
<1>1. Positions(box, t) \in SUBSET (1..Len(box)) /\ 1 \in Int /\ Len(box) \in Int
  BY DEF Positions
<1>2. IsFiniteSet(1..Len(box))
  BY <1>1, FS_Interval
<1> QED
  BY <1>1, <1>2, FS_Subset

LEMMA TailCounts ==
    ASSUME NEW Msg, NEW box \in Seq(Msg), NEW t, box # <<>>
    PROVE  Cardinality(Positions(Tail(box), t)) <= Cardinality(Positions(box, t))
<1> DEFINE P == Positions(box, t)
           Q == Positions(Tail(box), t)
           up == [i \in Q |-> i + 1]
<1>1. /\ Len(Tail(box)) = Len(box) - 1 /\ Len(box) \in Nat \ {0}
      /\ \A i \in 1..Len(box) - 1 : Tail(box)[i] = box[i + 1]
      /\ DOMAIN box = 1..Len(box) /\ DOMAIN Tail(box) = 1..Len(box) - 1
  OBVIOUS
<1>2. Q \subseteq Nat /\ \A i \in Q : i + 1 \in P
  BY <1>1 DEF Positions
<1>3. IsFiniteSet(P)
  BY PositionsFinite
<1> HIDE DEF P, Q
<1>4. up \in Injection(Q, P)
  BY <1>2 DEF Injection, IsInjective
<1> QED
  BY <1>3, <1>4, FS_Injection DEF P, Q

LEMMA UndispatchedCounts ==
    ASSUME NEW Msg, NEW box \in Seq(Msg), NEW next, NEW t, Undispatched(Msg, box, next, t)
    PROVE  Cardinality(Positions(next, t)) <= Cardinality(Positions(box, t))
<1>1. Cardinality(Positions(box, t)) \in Nat
  BY PositionsFinite, FS_CardinalityType
<1>2. CASE next = box
  <2>1. Positions(next, t) = Positions(box, t)
    BY <1>2
  <2> QED
    BY <1>1, <2>1
<1>3. CASE next = <<>>
  <2>1. Positions(next, t) = {}
    BY <1>3, NoPositionInEmpty
  <2>2. Cardinality(Positions(next, t)) = 0
    BY <2>1, FS_EmptySet
  <2> QED
    BY <1>1, <2>2
<1>4. CASE box # <<>> /\ next = Tail(box)
  BY <1>4, TailCounts
<1>5. CASE \E m \in Msg, actor \in Actor : m.type # t /\ next = Send(box, actor, m)
  <2>1. Positions(next, t) = Positions(box, t)
    BY <1>5, PostKeepsPositions
  <2> QED
    BY <1>1, <2>1
<1> QED
  BY <1>2, <1>3, <1>4, <1>5 DEF Undispatched

(* Only the supervisor posts an AdoptPlan, and not once it is done. *)
LEMMA ExecutorNotAsked ==
    ASSUME TypeOK, done, Next
    PROVE  Undispatched(ExecutorMsg, executorBox, executorBox', "AdoptPlan")
<1> USE DEF Undispatched
<1>1. CASE ExecutorStep
  BY <1>1 DEF ExecutorStep, ExecutorKeepsPlan, ExecutorHitsCap, ExecutorStartsAction,
         ExecutorMeetsError, ExecutorAppliesSuccess, ExecutorRecovers, ExecutorFails,
         TakeResult, ExecutorWires, ExecutorStops, IsNext, Wire
<1>2. CASE ActionEnds
  <2>1. PICK t \in actionTask : \E r \in CommandResults[t.action] :
           executorBox' = Send(executorBox, "executor",
              [type |-> "ActionFinished", action |-> t.action, result |-> r])
    BY <1>2 DEF ActionEnds
  <2>2. t.action \in Action
    BY <2>1 DEF TypeOK, ExecutorOK, Option, ActionTask
  <2> QED
    BY <2>1, <2>2, RuntimeAssumption DEF ExecutorMsg, Actor
<1>3. CASE Exit
  BY <1>3 DEF Exit
<1>4. CASE WireNext
  <2>1. [type |-> "SetRef", ref |-> Wiring[at].ref] \in ExecutorMsg
    BY <1>4, WiringType DEF WireNext, SetRef, ExecutorMsg, TypeOK, DriverOK
  <2> QED
    BY <1>4, <2>1 DEF WireNext, Post, Actor
<1>5. CASE StopNext
  <2>1. [type |-> "Stop"] \in ExecutorMsg
    BY DEF ExecutorMsg, Stop
  <2> QED
    BY <1>5, <2>1 DEF StopNext, Post, Actor
<1>6. CASE Interrupt \/ (DriverStep /\ ~Exit /\ ~WireNext /\ ~StopNext)
  BY <1>6 DEF DriverStep, Sweep, SweepEnds, StartSensors, BootstrapWorld,
         TakeOutcome, Interrupt, StopSensors, Post, OutsideDriver, boxes
<1>7. CASE WorldStep \/ PlannerStep \/ PlanReturns
  BY <1>7 DEF WorldStep, WorldAppliesReading, WorldAppliesActionEffects, WorldBootstraps,
         WorldWires, WorldStops, OutsideWorld, PlannerStep, PlannerStartsPlan,
         PlannerCoalesces, PlannerReports, PlannerWires, PlannerStops, PlanReturns,
         OutsidePlanner
<1>8. CASE SupervisorStep
  BY <1>8 DEF SupervisorStep, SupervisorForwardsChange, SupervisorIgnoresPlan,
         SupervisorMeetsPlannerError, SupervisorHasNothingToRun, SupervisorDispatches,
         SupervisorTerminates, SupervisorWires, SupervisorStops
<1>9. CASE (\E n \in Sensor : SensorStep(n)) \/ Terminated
  BY <1>9 DEF SensorStep, SensorReports, SensorSkips, SensorStops, OutsideSensors,
         Terminated, vars, boxes
<1> HIDE DEF Undispatched
<1> QED
  BY <1>1, <1>2, <1>3, <1>4, <1>5, <1>6, <1>7, <1>8, <1>9 DEF Next

(* Nor does anybody else post a PlanRequest. *)
LEMMA PlannerNotAsked ==
    ASSUME TypeOK, done, Next
    PROVE  Undispatched(PlannerMsg, plannerBox, plannerBox', "PlanRequest")
<1> USE DEF Undispatched
<1>1. CASE PlannerStep
  BY <1>1 DEF PlannerStep, PlannerStartsPlan, PlannerCoalesces, PlannerReports,
         PlannerWires, PlannerStops, IsNext, Wire
<1>2. CASE PlanReturns
  <2>1. PICK s \in planTask : \E r \in PlanResults[s.facts] :
           plannerBox' = Send(plannerBox, "planner",
              [type |-> "PlanComputed", result |-> r, snapshot |-> s])
    BY <1>2 DEF PlanReturns
  <2>2. PICK r \in PlanResults[s.facts] :
           plannerBox' = Send(plannerBox, "planner",
              [type |-> "PlanComputed", result |-> r, snapshot |-> s])
    BY <2>1
  <2>3. [type |-> "PlanComputed", result |-> r, snapshot |-> s] \in PlannerMsg
    BY <2>1, <2>2, PlanResultsType DEF TypeOK, PlannerOK, Option, Snapshot, PlannerMsg
  <2> QED
    BY <2>2, <2>3 DEF Actor
<1>3. CASE Exit
  BY <1>3 DEF Exit
<1>4. CASE WireNext
  <2>1. [type |-> "SetRef", ref |-> Wiring[at].ref] \in PlannerMsg
    BY <1>4, WiringType DEF WireNext, SetRef, PlannerMsg, TypeOK, DriverOK
  <2> QED
    BY <1>4, <2>1 DEF WireNext, Post, Actor
<1>5. CASE StopNext
  <2>1. [type |-> "Stop"] \in PlannerMsg
    BY DEF PlannerMsg, Stop
  <2> QED
    BY <1>5, <2>1 DEF StopNext, Post, Actor
<1>6. CASE Interrupt \/ (DriverStep /\ ~Exit /\ ~WireNext /\ ~StopNext)
  BY <1>6 DEF DriverStep, Sweep, SweepEnds, StartSensors, BootstrapWorld,
         TakeOutcome, Interrupt, StopSensors, Post, OutsideDriver, boxes
<1>7. CASE WorldStep \/ ExecutorStep \/ ActionEnds
  BY <1>7 DEF WorldStep, WorldAppliesReading, WorldAppliesActionEffects, WorldBootstraps,
         WorldWires, WorldStops, OutsideWorld, ExecutorStep, ExecutorKeepsPlan,
         ExecutorHitsCap, ExecutorStartsAction, ExecutorMeetsError,
         ExecutorAppliesSuccess, ExecutorRecovers, ExecutorFails, TakeResult,
         ExecutorWires, ExecutorStops, ActionEnds, OutsideExecutor
<1>8. CASE SupervisorStep
  BY <1>8 DEF SupervisorStep, SupervisorForwardsChange, SupervisorIgnoresPlan,
         SupervisorMeetsPlannerError, SupervisorHasNothingToRun, SupervisorDispatches,
         SupervisorTerminates, SupervisorWires, SupervisorStops
<1>9. CASE (\E n \in Sensor : SensorStep(n)) \/ Terminated
  BY <1>9 DEF SensorStep, SensorReports, SensorSkips, SensorStops, OutsideSensors,
         Terminated, vars, boxes
<1> HIDE DEF Undispatched
<1> QED
  BY <1>1, <1>2, <1>3, <1>4, <1>5, <1>6, <1>7, <1>8, <1>9 DEF Next

(* A decided run dispatches no plan and asks for none, in any order of the  *)
(* messages that are still under way.                                       *)
THEOREM DecidedRunIsQuiet == Spec => NothingDispatchedOnceDone
<1> DEFINE Quiet ==
        done =>
           /\ Cardinality(Positions(executorBox', "AdoptPlan"))
                  <= Cardinality(Positions(executorBox, "AdoptPlan"))
           /\ Cardinality(Positions(plannerBox', "PlanRequest"))
                  <= Cardinality(Positions(plannerBox, "PlanRequest"))
<1>1. TypeOK /\ [Next]_vars => [Quiet]_vars
  <2> SUFFICES ASSUME TypeOK, Next, done PROVE Quiet
    OBVIOUS
  <2>1. executorBox \in Seq(ExecutorMsg) /\ plannerBox \in Seq(PlannerMsg)
    BY DEF TypeOK, BoxesOK
  <2>2. Cardinality(Positions(executorBox', "AdoptPlan"))
            <= Cardinality(Positions(executorBox, "AdoptPlan"))
    BY <2>1, ExecutorNotAsked, UndispatchedCounts
  <2>3. Cardinality(Positions(plannerBox', "PlanRequest"))
            <= Cardinality(Positions(plannerBox, "PlanRequest"))
    BY <2>1, PlannerNotAsked, UndispatchedCounts
  <2> QED
    BY <2>2, <2>3
<1> QED
  BY <1>1, TypeCorrect, PTL DEF Spec, NothingDispatchedOnceDone

-----------------------------------------------------------------------------
(***************************************************************************)
(* The state of the world and who has heard of it.                         *)
(***************************************************************************)

-----------------------------------------------------------------------------
(* Mailboxes: what a message taken or posted does to the others.           *)

LEMMA SeqMonotone ==
    ASSUME NEW S, NEW T, S \subseteq T, NEW box \in Seq(S)
    PROVE  box \in Seq(T)
  OBVIOUS

LEMMA TailPositions ==
    ASSUME NEW Msg, NEW box \in Seq(Msg), box # <<>>
    PROVE  /\ Len(box) \in Nat \ {0} /\ DOMAIN box = 1..Len(box)
           /\ box[1] = Head(box)
           /\ DOMAIN Tail(box) = 1..(Len(box) - 1)
           /\ \A i \in 1..(Len(box) - 1) : Tail(box)[i] = box[i + 1]
  OBVIOUS

LEMMA AppendPositions ==
    ASSUME NEW Msg, NEW box \in Seq(Msg), NEW m
    PROVE  /\ Len(box) \in Nat /\ DOMAIN box = 1..Len(box)
           /\ DOMAIN Append(box, m) = 1..(Len(box) + 1)
           /\ \A i \in 1..Len(box) : Append(box, m)[i] = box[i]
           /\ Append(box, m)[Len(box) + 1] = m
  OBVIOUS

(* What may happen to a mailbox while the messages of type t are left alone. *)
LeftAlone(box, next, t) ==
    \/ next = box
    \/ box # <<>> /\ next = Tail(box) /\ Head(box).type # t
    \/ \E m : m.type # t /\ next = Append(box, m)

LEMMA LeftAloneLatest ==
    ASSUME NEW Msg, NEW box \in Seq(Msg), NEW next, NEW t, LeftAlone(box, next, t)
    PROVE  /\ Has(next, t) <=> Has(box, t)
           /\ \A w : LatestIs(box, t, w) <=> LatestIs(next, t, w)
<1> USE DEF Has, LatestIs, Positions
<1>1. CASE next = box
  BY <1>1
<1>2. CASE box # <<>> /\ next = Tail(box) /\ Head(box).type # t
  <2>1. /\ \A i \in DOMAIN next : i + 1 \in DOMAIN box /\ next[i] = box[i + 1]
        /\ \A i \in DOMAIN box : box[i].type = t => i - 1 \in DOMAIN next /\ next[i - 1] = box[i]
        /\ DOMAIN box \subseteq Int /\ DOMAIN next \subseteq Int
    BY <1>2, TailPositions
  <2> HIDE DEF Has, LatestIs, Positions
  <2>2. /\ \A i \in Positions(next, t) : i + 1 \in Positions(box, t) /\ next[i] = box[i + 1]
        /\ \A i \in Positions(box, t) : i - 1 \in Positions(next, t) /\ next[i - 1] = box[i]
        /\ Positions(box, t) \subseteq Int /\ Positions(next, t) \subseteq Int
    BY <2>1 DEF Positions
  <2>3. ASSUME NEW w, LatestIs(box, t, w) PROVE LatestIs(next, t, w)
    <3>1. PICK i \in Positions(box, t) : box[i].snapshot = w /\ \A j \in Positions(box, t) : j <= i
      BY <2>3 DEF LatestIs
    <3>2. i - 1 \in Positions(next, t) /\ next[i - 1].snapshot = w
          /\ \A j \in Positions(next, t) : j <= i - 1
      BY <2>2, <3>1
    <3> QED
      BY <3>2 DEF LatestIs
  <2>4. ASSUME NEW w, LatestIs(next, t, w) PROVE LatestIs(box, t, w)
    <3>1. PICK i \in Positions(next, t) : next[i].snapshot = w /\ \A j \in Positions(next, t) : j <= i
      BY <2>4 DEF LatestIs
    <3>2. i + 1 \in Positions(box, t) /\ box[i + 1].snapshot = w
      BY <2>2, <3>1
    <3>3. \A j \in Positions(box, t) : j <= i + 1
      <4> TAKE j \in Positions(box, t)
      <4>1. j - 1 <= i /\ j \in Int /\ i \in Int
        BY <2>2, <3>1
      <4> QED
        BY <4>1
    <3> QED
      BY <3>2, <3>3 DEF LatestIs
  <2>5. Has(next, t) <=> Has(box, t)
    BY <2>2, HasPosition
  <2> QED
    BY <2>3, <2>4, <2>5
<1>3. ASSUME NEW m, m.type # t, next = Append(box, m)
      PROVE  Positions(next, t) = Positions(box, t) /\ \A i \in Positions(box, t) : next[i] = box[i]
  BY <1>3, AppendPositions
<1>4. CASE \E m : m.type # t /\ next = Append(box, m)
  <2>1. Positions(next, t) = Positions(box, t) /\ \A i \in Positions(box, t) : next[i] = box[i]
    BY <1>3, <1>4
  <2> HIDE DEF Has, Positions
  <2> QED
    BY <2>1, HasPosition
<1> QED
  BY <1>1, <1>2, <1>4 DEF LeftAlone

(* The message posted last is the latest of its type. *)
LEMMA PostedIsLatest ==
    ASSUME NEW Msg, NEW box \in Seq(Msg), NEW m
    PROVE  /\ LatestIs(Append(box, m), m.type, m.snapshot)
           /\ Has(Append(box, m), m.type)
  BY AppendPositions DEF LatestIs, Positions, Has

(* The latest message stays the latest, unless it is the one taken. *)
LEMMA TakenOrLatest ==
    ASSUME NEW Msg, NEW box \in Seq(Msg), box # <<>>, NEW w,
           NEW t, LatestIs(box, t, w), Head(box).type = t
    PROVE  \/ LatestIs(Tail(box), t, w)
           \/ ~Has(Tail(box), t) /\ Head(box).snapshot = w
<1>1. PICK i \in Positions(box, t) : box[i].snapshot = w /\ \A j \in Positions(box, t) : j <= i
  BY DEF LatestIs
<1>2. /\ \A j \in Positions(Tail(box), t) : j + 1 \in Positions(box, t) /\ Tail(box)[j] = box[j + 1]
      /\ Positions(Tail(box), t) \subseteq Nat \ {0} /\ i \in Nat \ {0}
      /\ i # 1 => i - 1 \in Positions(Tail(box), t) /\ Tail(box)[i - 1] = box[i]
      /\ box[1] = Head(box)
  BY TailPositions DEF Positions
<1>3. CASE i = 1
  <2>1. Positions(Tail(box), t) = {}
    BY <1>1, <1>2, <1>3
  <2> QED
    BY <1>1, <1>2, <1>3, <2>1, HasPosition
<1>4. CASE i # 1
  <2>1. \A j \in Positions(Tail(box), t) : j <= i - 1
    BY <1>1, <1>2
  <2> QED
    BY <1>1, <1>2, <1>4, <2>1 DEF LatestIs
<1> QED
  BY <1>3, <1>4

-----------------------------------------------------------------------------
(* Until there is an outcome nobody stops, and an actor is wired before    *)
(* anything else reaches it.                                               *)

Mail(a) == IF a = "world" THEN worldBox
           ELSE IF a = "supervisor" THEN supervisorBox
           ELSE IF a = "planner" THEN plannerBox ELSE executorBox

StartingUp == driver \in {"sweep", "wire", "sense"}

(* How many of the wiring messages have been posted. *)
Posted == IF driver = "sweep" THEN 0 ELSE IF driver = "wire" THEN at - 1 ELSE 6

NobodyStops ==
    /\ stopped = {}
    /\ \A a \in Actor : ~Has(Mail(a), "Stop")

(* Nothing but wiring is posted before the sensors start. *)
OnlyWiring(box) == \A i \in DOMAIN box : box[i].type = "SetRef"

NothingButWiring ==
    StartingUp =>
        /\ planTask = {} /\ actionTask = {}
        /\ sensors = [n \in Sensor |-> "off"]
        /\ \A a \in Actor : OnlyWiring(Mail(a))

WiringFirst(box) ==
    \A i, j \in DOMAIN box : i < j /\ box[j].type = "SetRef" => box[i].type = "SetRef"

(* A reference that has been posted is injected, or its message waits. *)
Arriving(box, ref) == \E i \in DOMAIN box : box[i].type = "SetRef" /\ box[i].ref = ref

WiringArrives ==
    \A k \in 1..Posted :
        Wiring[k].ref \in wired \/ Arriving(Mail(Wiring[k].to), Wiring[k].ref)

Live == /\ NobodyStops /\ NothingButWiring /\ WiringArrives
        /\ \A a \in Actor : WiringFirst(Mail(a))

LiveInv == outcome = {} => Live

Message == WorldMsg \cup SupervisorMsg \cup PlannerMsg \cup ExecutorMsg

LEMMA MailType ==
    ASSUME TypeOK, NEW a \in Actor
    PROVE  Mail(a) \in Seq(Message)
<1>1. /\ worldBox \in Seq(Message) /\ supervisorBox \in Seq(Message)
      /\ plannerBox \in Seq(Message) /\ executorBox \in Seq(Message)
  BY SeqMonotone DEF TypeOK, BoxesOK, Message
<1> QED
  BY <1>1 DEF Mail

(* What a step of an actor does to one mailbox before there is an outcome. *)
Moved(a) ==
    \/ Mail(a)' = Mail(a)
    \/ /\ Mail(a) # <<>> /\ Mail(a)' = Tail(Mail(a))
       /\ Head(Mail(a)).type = "SetRef" => Head(Mail(a)).ref \in wired'
    \/ ~StartingUp /\ \E m : m.type \notin {"SetRef", "Stop"} /\ Mail(a)' = Append(Mail(a), m)

LEMMA MovedKeeps ==
    ASSUME TypeOK, NEW a \in Actor, Moved(a)
    PROVE  /\ ~Has(Mail(a), "Stop") => ~Has(Mail(a)', "Stop")
           /\ WiringFirst(Mail(a)) => WiringFirst(Mail(a)')
           /\ StartingUp /\ OnlyWiring(Mail(a)) => OnlyWiring(Mail(a)')
           /\ \A ref : Arriving(Mail(a), ref) => ref \in wired' \/ Arriving(Mail(a)', ref)
<1> DEFINE box == Mail(a)
           next == Mail(a)'
<1>1. box \in Seq(Message)
  BY MailType
<1>2. CASE next = box
  BY <1>2
<1>3. CASE box # <<>> /\ next = Tail(box) /\ (Head(box).type = "SetRef" => Head(box).ref \in wired')
  <2>1. /\ \A i \in DOMAIN next : i + 1 \in DOMAIN box /\ next[i] = box[i + 1]
        /\ \A i \in DOMAIN box : i # 1 => i - 1 \in DOMAIN next /\ next[i - 1] = box[i]
        /\ DOMAIN next \subseteq Int /\ box[1] = Head(box)
    BY <1>1, <1>3, TailPositions
  <2>2. \A i, j \in DOMAIN next : i < j => i + 1 < j + 1
    BY <2>1
  <2> HIDE DEF box, next
  <2>3. ~Has(box, "Stop") => ~Has(next, "Stop")
    BY <2>1 DEF Has
  <2>4. WiringFirst(box) => WiringFirst(next)
    BY <2>1, <2>2 DEF WiringFirst
  <2>5. OnlyWiring(box) => OnlyWiring(next)
    BY <2>1 DEF OnlyWiring
  <2>6. ASSUME NEW ref, Arriving(box, ref)
        PROVE  ref \in wired' \/ Arriving(next, ref)
    <3>1. PICK i \in DOMAIN box : box[i].type = "SetRef" /\ box[i].ref = ref
      BY <2>6 DEF Arriving
    <3>2. CASE i = 1
      BY <1>3, <2>1, <3>1, <3>2
    <3>3. CASE i # 1
      <4>1. i - 1 \in DOMAIN next /\ next[i - 1] = box[i]
        BY <2>1, <3>3
      <4> QED
        BY <3>1, <4>1 DEF Arriving
    <3> QED
      BY <3>2, <3>3
  <2> QED
    BY <2>3, <2>4, <2>5, <2>6 DEF box, next
<1>4. ASSUME NEW m, m.type \notin {"SetRef", "Stop"}, next = Append(box, m), ~StartingUp
      PROVE  /\ ~Has(box, "Stop") => ~Has(next, "Stop")
             /\ WiringFirst(box) => WiringFirst(next)
             /\ \A ref : Arriving(box, ref) => Arriving(next, ref)
  <2>1. /\ DOMAIN box = 1..Len(box) /\ Len(box) \in Nat
        /\ DOMAIN next = 1..(Len(box) + 1) /\ next[Len(box) + 1] = m
        /\ \A i \in DOMAIN box : next[i] = box[i]
    BY <1>1, <1>4, AppendPositions
  <2>2. /\ \A i \in DOMAIN next : i \in DOMAIN box \/ i = Len(box) + 1
        /\ \A i, j \in DOMAIN next : i < j => i \in DOMAIN box
        /\ DOMAIN box \subseteq DOMAIN next
    BY <2>1
  <2> HIDE DEF box, next
  <2>3. ~Has(box, "Stop") => ~Has(next, "Stop")
    BY <1>4, <2>1, <2>2 DEF Has
  <2>4. WiringFirst(box) => WiringFirst(next)
    BY <1>4, <2>1, <2>2 DEF WiringFirst
  <2>5. \A ref : Arriving(box, ref) => Arriving(next, ref)
    BY <2>1, <2>2 DEF Arriving
  <2> QED
    BY <2>3, <2>4, <2>5
<1> QED
  BY <1>2, <1>3, <1>4 DEF Moved

(* What a step of an actor does, before there is an outcome. *)
Moves ==
    /\ UNCHANGED <<stopped, driver, at>> /\ wired \subseteq wired'
    /\ \A a \in Actor : Moved(a)
    /\ StartingUp => UNCHANGED <<planTask, actionTask, sensors>>

LEMMA MovesKeepLive ==
    ASSUME TypeOK, Live, Moves
    PROVE  Live'
<1>1. NobodyStops'
  BY MovedKeeps DEF Live, Moves, NobodyStops
<1>2. NothingButWiring'
  BY MovedKeeps DEF Live, Moves, NothingButWiring, StartingUp
<1>3. \A a \in Actor : WiringFirst(Mail(a)')
  BY MovedKeeps DEF Live, Moves
<1>4. WiringArrives'
  <2> SUFFICES ASSUME NEW k \in 1..Posted, Wiring[k].ref \notin wired'
               PROVE  Arriving(Mail(Wiring[k].to)', Wiring[k].ref)
    BY DEF WiringArrives, Posted, Moves
  <2>1. Arriving(Mail(Wiring[k].to), Wiring[k].ref)
    BY DEF Live, WiringArrives, Moves
  <2>2. k \in 1..6
    BY DEF Posted, TypeOK, DriverOK, Wiring
  <2>3. Wiring[k].to \in Actor
    BY <2>2 DEF Wiring, Actor
  <2> QED
    BY <2>1, <2>3, MovedKeeps DEF Moves
<1> QED
  BY <1>1, <1>2, <1>3, <1>4 DEF Live

(* Whoever handles anything but wiring is wired, and nobody is stopped. *)
LEMMA LiveHead ==
    ASSUME TypeOK, Live, NEW a \in Actor, Mail(a) # <<>>
    PROVE  /\ Head(Mail(a)).type # "Stop"
           /\ Head(Mail(a)).type # "SetRef" =>
                 /\ ~StartingUp
                 /\ \A k \in 1..6 : Wiring[k].to = a => Wiring[k].ref \in wired
<1>1. /\ DOMAIN Mail(a) = 1..Len(Mail(a)) /\ Len(Mail(a)) \in Nat \ {0}
      /\ Mail(a)[1] = Head(Mail(a))
  BY MailType, TailPositions
<1>2. 1 \in DOMAIN Mail(a) /\ \A j \in DOMAIN Mail(a) : j = 1 \/ 1 < j
  BY <1>1
<1>3. Head(Mail(a)).type # "Stop"
  BY <1>1, <1>2 DEF Live, NobodyStops, Has
<1>4. ASSUME Head(Mail(a)).type # "SetRef"
      PROVE  ~StartingUp /\ \A k \in 1..6 : Wiring[k].to = a => Wiring[k].ref \in wired
  <2>1. ~StartingUp
    BY <1>1, <1>2, <1>4 DEF Live, NothingButWiring, OnlyWiring
  <2>2. Posted = 6
    BY <2>1 DEF Posted, StartingUp
  <2>3. \A j \in DOMAIN Mail(a) : Mail(a)[j].type # "SetRef"
    BY <1>1, <1>2, <1>4 DEF Live, WiringFirst
  <2> QED
    BY <2>1, <2>2, <2>3 DEF Live, WiringArrives, Arriving
<1> QED
  BY <1>3, <1>4

(* Each actor, as it finds itself when it handles a message. *)
LEMMA LiveHeads ==
    ASSUME TypeOK, Live
    PROVE  /\ \A t : IsNext(worldBox, t) =>
                 t # "Stop" /\ (t # "SetRef" => ~StartingUp /\ "world.subscriber" \in wired)
           /\ \A t : IsNext(plannerBox, t) =>
                 t # "Stop" /\ (t # "SetRef" => ~StartingUp /\ "planner.supervisor" \in wired)
           /\ \A t : IsNext(supervisorBox, t) =>
                 t # "Stop" /\ (t # "SetRef" => /\ ~StartingUp
                                                /\ "supervisor.planners" \in wired
                                                /\ "supervisor.executor" \in wired)
           /\ \A t : IsNext(executorBox, t) =>
                 t # "Stop" /\ (t # "SetRef" => /\ ~StartingUp
                                                /\ "executor.world" \in wired
                                                /\ "executor.supervisor" \in wired)
<1>1. ASSUME NEW a \in Actor, NEW t, IsNext(Mail(a), t)
      PROVE  t # "Stop" /\ (t # "SetRef" => /\ ~StartingUp
                                            /\ \A k \in 1..6 : Wiring[k].to = a => Wiring[k].ref \in wired)
  BY <1>1, LiveHead DEF IsNext
<1>2. /\ 1 \in 1..6 /\ Wiring[1].to = "world" /\ Wiring[1].ref = "world.subscriber"
      /\ 2 \in 1..6 /\ Wiring[2].to = "planner" /\ Wiring[2].ref = "planner.supervisor"
      /\ 3 \in 1..6 /\ Wiring[3].to = "supervisor" /\ Wiring[3].ref = "supervisor.planners"
      /\ 4 \in 1..6 /\ Wiring[4].to = "supervisor" /\ Wiring[4].ref = "supervisor.executor"
      /\ 5 \in 1..6 /\ Wiring[5].to = "executor" /\ Wiring[5].ref = "executor.world"
      /\ 6 \in 1..6 /\ Wiring[6].to = "executor" /\ Wiring[6].ref = "executor.supervisor"
  BY DEF Wiring
<1>3. /\ {"world", "planner", "supervisor", "executor"} \subseteq Actor
      /\ Mail("world") = worldBox /\ Mail("planner") = plannerBox
      /\ Mail("supervisor") = supervisorBox /\ Mail("executor") = executorBox
  BY DEF Mail, Actor
<1>4. \A t : IsNext(worldBox, t) =>
         t # "Stop" /\ (t # "SetRef" => ~StartingUp /\ "world.subscriber" \in wired)
  <2>1. "world" \in Actor /\ Mail("world") = worldBox
    BY <1>3
  <2> QED
    BY <1>1, <1>2, <2>1
<1>5. \A t : IsNext(plannerBox, t) =>
         t # "Stop" /\ (t # "SetRef" => ~StartingUp /\ "planner.supervisor" \in wired)
  <2>1. "planner" \in Actor /\ Mail("planner") = plannerBox
    BY <1>3
  <2> QED
    BY <1>1, <1>2, <2>1
<1>6. \A t : IsNext(supervisorBox, t) =>
         t # "Stop" /\ (t # "SetRef" => /\ ~StartingUp
                                        /\ "supervisor.planners" \in wired
                                        /\ "supervisor.executor" \in wired)
  <2>1. "supervisor" \in Actor /\ Mail("supervisor") = supervisorBox
    BY <1>3
  <2> QED
    BY <1>1, <1>2, <2>1
<1>7. \A t : IsNext(executorBox, t) =>
         t # "Stop" /\ (t # "SetRef" => /\ ~StartingUp
                                        /\ "executor.world" \in wired
                                        /\ "executor.supervisor" \in wired)
  <2>1. "executor" \in Actor /\ Mail("executor") = executorBox
    BY <1>3
  <2> QED
    BY <1>1, <1>2, <2>1
<1> QED
  BY <1>4, <1>5, <1>6, <1>7

LEMMA WorldMoves ==
    ASSUME TypeOK, Live, WorldStep
    PROVE  Moves
<1>1. UNCHANGED <<driver, at, planTask, actionTask, sensors, plannerBox, executorBox>>
  BY DEF WorldStep, WorldAppliesReading, WorldAppliesActionEffects, WorldBootstraps,
         WorldWires, WorldStops, OutsideWorld, plannerVars, executorVars, sensorVars, driverVars
<1>2. ~IsNext(worldBox, "Stop") /\ stopped = {}
  BY LiveHeads DEF Live, NobodyStops
<1>3. UNCHANGED stopped /\ wired \subseteq wired'
  BY <1>2 DEF WorldStep, WorldAppliesReading, WorldAppliesActionEffects, WorldBootstraps,
         WorldWires, WorldStops, Wire, Halt
<1>4. /\ worldBox # <<>> /\ worldBox' = Tail(worldBox)
      /\ Head(worldBox).type = "SetRef" => Head(worldBox).ref \in wired'
  BY <1>2 DEF WorldStep, WorldAppliesReading, WorldAppliesActionEffects, WorldBootstraps,
         WorldWires, WorldStops, Wire, Halt, IsNext
<1>5. \A w : \/ Notify(w) = supervisorBox
             \/ \E m : m.type = "StateChanged" /\ Notify(w) = Append(supervisorBox, m)
  <2>1. \A w : \/ Notify(w) = supervisorBox
               \/ Notify(w) = Append(supervisorBox, [type |-> "StateChanged", snapshot |-> w])
    BY DEF Notify, Send
  <2>2. \A w : [type |-> "StateChanged", snapshot |-> w].type = "StateChanged"
    OBVIOUS
  <2> QED
    BY <2>1, <2>2
<1>6. ASSUME NEW t, t \notin {"SetRef", "Stop"}, IsNext(worldBox, t) PROVE ~StartingUp
  BY <1>6, LiveHeads
<1>7. \/ supervisorBox' = supervisorBox
      \/ ~StartingUp /\ \E m : m.type = "StateChanged" /\ supervisorBox' = Append(supervisorBox, m)
  <2>1. CASE WorldAppliesReading
    BY <1>5, <1>6, <2>1 DEF WorldAppliesReading
  <2>2. CASE WorldAppliesActionEffects
    BY <1>5, <1>6, <2>2 DEF WorldAppliesActionEffects
  <2>3. CASE WorldBootstraps
    BY <1>5, <1>6, <2>3 DEF WorldBootstraps
  <2>4. CASE WorldWires \/ WorldStops
    BY <2>4 DEF WorldWires, WorldStops
  <2> QED
    BY <2>1, <2>2, <2>3, <2>4 DEF WorldStep
<1>8. \A a \in Actor : Moved(a)
  BY <1>1, <1>4, <1>7 DEF Actor, Moved, Mail
<1> QED
  BY <1>1, <1>3, <1>8 DEF Moves

LEMMA PlannerMoves ==
    ASSUME TypeOK, Live, PlannerStep \/ PlanReturns
    PROVE  Moves
<1>1. UNCHANGED <<driver, at, actionTask, sensors, worldBox, executorBox>>
  BY DEF PlannerStep, PlannerStartsPlan, PlannerCoalesces, PlannerReports, PlannerWires,
         PlannerStops, PlanReturns, OutsidePlanner, executorVars, sensorVars, driverVars
<1>2. ~IsNext(plannerBox, "Stop") /\ stopped = {}
  BY LiveHeads DEF Live, NobodyStops
<1>3. UNCHANGED stopped /\ wired \subseteq wired'
  BY <1>2 DEF PlannerStep, PlannerStartsPlan, PlannerCoalesces, PlannerReports, PlannerWires,
         PlannerStops, PlanReturns, Wire, Halt
<1>4. ASSUME NEW t, t \notin {"SetRef", "Stop"}, IsNext(plannerBox, t) PROVE ~StartingUp
  BY <1>4, LiveHeads
<1>5. StartingUp => UNCHANGED planTask
  <2>1. StartingUp => planTask = {}
    BY DEF Live, NothingButWiring
  <2> QED
    BY <1>4, <2>1 DEF PlannerStep, PlannerStartsPlan, PlannerCoalesces, PlannerReports,
         PlannerWires, PlannerStops, PlanReturns, plannerVars
<1>6. \/ supervisorBox' = supervisorBox
      \/ ~StartingUp /\ \E m : m.type = "PlanReady" /\ supervisorBox' = Append(supervisorBox, m)
  <2>1. CASE PlannerReports
    BY <1>4, <2>1 DEF PlannerReports, Report, Send
  <2>2. CASE ~PlannerReports
    BY <2>2 DEF PlannerStep, PlannerStartsPlan, PlannerCoalesces, PlannerWires,
         PlannerStops, PlanReturns
  <2> QED
    BY <2>1, <2>2
<1>7. Moved("planner")
  <2>1. CASE PlannerStep
    BY <1>2, <2>1 DEF PlannerStep, PlannerStartsPlan, PlannerCoalesces, PlannerReports,
         PlannerWires, PlannerStops, Wire, Halt, IsNext, Moved, Mail
  <2>2. CASE PlanReturns
    <3>1. PICK s \in planTask : \E r \in PlanResults[s.facts] :
             plannerBox' = Send(plannerBox, "planner",
                [type |-> "PlanComputed", result |-> r, snapshot |-> s])
      BY <2>2 DEF PlanReturns
    <3>2. \E m : m.type = "PlanComputed" /\ plannerBox' = Append(plannerBox, m)
      BY <1>2, <3>1 DEF Send
    <3>3. ~StartingUp
      BY <3>1 DEF Live, NothingButWiring
    <3> QED
      BY <3>2, <3>3 DEF Moved, Mail
  <2> QED
    BY <2>1, <2>2
<1>8. \A a \in Actor : Moved(a)
  BY <1>1, <1>6, <1>7 DEF Actor, Moved, Mail
<1> QED
  BY <1>1, <1>3, <1>5, <1>8 DEF Moves

LEMMA SupervisorMoves ==
    ASSUME TypeOK, Live, SupervisorStep
    PROVE  Moves
<1>1. UNCHANGED <<driver, at, planTask, actionTask, sensors, worldBox>>
  BY DEF SupervisorStep, SupervisorForwardsChange, SupervisorIgnoresPlan,
         SupervisorMeetsPlannerError, SupervisorHasNothingToRun, SupervisorDispatches,
         SupervisorTerminates, SupervisorWires, SupervisorStops, OutsideSupervisor,
         plannerVars, executorVars, sensorVars, driverVars
<1>2. ~IsNext(supervisorBox, "Stop") /\ stopped = {}
  BY LiveHeads DEF Live, NobodyStops
<1>3. UNCHANGED stopped /\ wired \subseteq wired'
  BY <1>2 DEF SupervisorStep, SupervisorForwardsChange, SupervisorIgnoresPlan,
         SupervisorMeetsPlannerError, SupervisorHasNothingToRun, SupervisorDispatches,
         SupervisorTerminates, SupervisorWires, SupervisorStops, Wire, Halt
<1>4. /\ supervisorBox # <<>> /\ supervisorBox' = Tail(supervisorBox)
      /\ Head(supervisorBox).type = "SetRef" => Head(supervisorBox).ref \in wired'
  BY <1>2 DEF SupervisorStep, SupervisorForwardsChange, SupervisorIgnoresPlan,
         SupervisorMeetsPlannerError, SupervisorHasNothingToRun, SupervisorDispatches,
         SupervisorTerminates, SupervisorWires, SupervisorStops, Wire, Halt, IsNext
<1>5. \/ plannerBox' = plannerBox
      \/ ~StartingUp /\ \E m : m.type = "PlanRequest" /\ plannerBox' = Append(plannerBox, m)
  <2>1. CASE SupervisorForwardsChange
    BY <2>1, LiveHeads DEF SupervisorForwardsChange, Send
  <2>2. CASE ~SupervisorForwardsChange
    BY <2>2 DEF SupervisorStep, SupervisorIgnoresPlan, SupervisorMeetsPlannerError,
         SupervisorHasNothingToRun, SupervisorDispatches, SupervisorTerminates,
         SupervisorWires, SupervisorStops
  <2> QED
    BY <2>1, <2>2
<1>6. \/ executorBox' = executorBox
      \/ ~StartingUp /\ \E m : m.type = "AdoptPlan" /\ executorBox' = Append(executorBox, m)
  <2>1. CASE SupervisorDispatches
    BY <2>1, LiveHeads DEF SupervisorDispatches, Send
  <2>2. CASE ~SupervisorDispatches
    BY <2>2 DEF SupervisorStep, SupervisorForwardsChange, SupervisorIgnoresPlan,
         SupervisorMeetsPlannerError, SupervisorHasNothingToRun, SupervisorTerminates,
         SupervisorWires, SupervisorStops
  <2> QED
    BY <2>1, <2>2
<1>7. \A a \in Actor : Moved(a)
  BY <1>1, <1>4, <1>5, <1>6 DEF Actor, Moved, Mail
<1> QED
  BY <1>1, <1>3, <1>7 DEF Moves

LEMMA ExecutorMoves ==
    ASSUME TypeOK, Live, ExecutorStep \/ ActionEnds
    PROVE  Moves
<1>1. UNCHANGED <<driver, at, planTask, sensors, plannerBox>>
  BY DEF ExecutorStep, ExecutorKeepsPlan, ExecutorHitsCap, ExecutorStartsAction,
         ExecutorMeetsError, ExecutorAppliesSuccess, ExecutorRecovers, ExecutorFails,
         TakeResult, ExecutorWires, ExecutorStops, ActionEnds, OutsideExecutor,
         plannerVars, sensorVars, driverVars
<1>2. ~IsNext(executorBox, "Stop") /\ stopped = {}
  BY LiveHeads DEF Live, NobodyStops
<1>3. UNCHANGED stopped /\ wired \subseteq wired'
  BY <1>2 DEF ExecutorStep, ExecutorKeepsPlan, ExecutorHitsCap, ExecutorStartsAction,
         ExecutorMeetsError, ExecutorAppliesSuccess, ExecutorRecovers, ExecutorFails,
         TakeResult, ExecutorWires, ExecutorStops, ActionEnds, Wire, Halt
<1>4. ASSUME NEW t, t \notin {"SetRef", "Stop"}, IsNext(executorBox, t) PROVE ~StartingUp
  BY <1>4, LiveHeads
<1>5. /\ \A r : TakeResult(r) => ~StartingUp
      /\ ExecutorHitsCap \/ ExecutorStartsAction => ~StartingUp
  BY <1>4 DEF TakeResult, ExecutorHitsCap, ExecutorStartsAction
<1>6. StartingUp => UNCHANGED actionTask
  <2>1. StartingUp => actionTask = {}
    BY DEF Live, NothingButWiring
  <2> QED
    BY <1>5, <2>1 DEF ExecutorStep, ExecutorKeepsPlan, ExecutorHitsCap,
         ExecutorMeetsError, ExecutorAppliesSuccess, ExecutorRecovers, ExecutorFails,
         ExecutorWires, ExecutorStops, ActionEnds, executorVars
<1>7. \/ supervisorBox' = supervisorBox
      \/ ~StartingUp /\ \E m : m.type = "Terminate" /\ supervisorBox' = Append(supervisorBox, m)
  <2>1. \A o : Terminate(o) =>
           \/ supervisorBox' = supervisorBox
           \/ \E m : m.type = "Terminate" /\ supervisorBox' = Append(supervisorBox, m)
    <3> SUFFICES ASSUME NEW o, Terminate(o), supervisorBox' # supervisorBox
                 PROVE  \E m : m.type = "Terminate" /\ supervisorBox' = Append(supervisorBox, m)
      OBVIOUS
    <3>1. supervisorBox' = Append(supervisorBox, [type |-> "Terminate", outcome |-> o])
      BY DEF Terminate, Send
    <3> QED
      BY <3>1
  <2>2. CASE ExecutorHitsCap \/ ExecutorMeetsError \/ ExecutorFails
    BY <1>5, <2>1, <2>2 DEF ExecutorHitsCap, ExecutorMeetsError, ExecutorFails
  <2>3. CASE ~(ExecutorHitsCap \/ ExecutorMeetsError \/ ExecutorFails)
    BY <2>3 DEF ExecutorStep, ExecutorKeepsPlan, ExecutorStartsAction,
         ExecutorAppliesSuccess, ExecutorRecovers, ExecutorWires, ExecutorStops, ActionEnds
  <2> QED
    BY <2>2, <2>3
<1>8. \/ worldBox' = worldBox
      \/ /\ ~StartingUp
         /\ \E m : m.type = "ApplyActionEffects" /\ worldBox' = Append(worldBox, m)
  <2>1. \A adds, removes : TellEffects(adds, removes) =>
           \/ worldBox' = worldBox
           \/ \E m : m.type = "ApplyActionEffects" /\ worldBox' = Append(worldBox, m)
    <3> SUFFICES ASSUME NEW adds, NEW removes, TellEffects(adds, removes), worldBox' # worldBox
                 PROVE  \E m : m.type = "ApplyActionEffects" /\ worldBox' = Append(worldBox, m)
      OBVIOUS
    <3>1. worldBox' = Append(worldBox,
             [type |-> "ApplyActionEffects", adds |-> adds, removes |-> removes])
      BY DEF TellEffects, Send
    <3> QED
      BY <3>1
  <2>2. CASE ExecutorAppliesSuccess \/ ExecutorRecovers
    BY <1>5, <2>1, <2>2 DEF ExecutorAppliesSuccess, ExecutorRecovers
  <2>3. CASE ~(ExecutorAppliesSuccess \/ ExecutorRecovers)
    BY <2>3 DEF ExecutorStep, ExecutorKeepsPlan, ExecutorHitsCap, ExecutorStartsAction,
         ExecutorMeetsError, ExecutorFails, ExecutorWires, ExecutorStops, ActionEnds
  <2> QED
    BY <2>2, <2>3
<1>9. Moved("executor")
  <2>1. CASE ExecutorStep
    BY <1>2, <2>1 DEF ExecutorStep, ExecutorKeepsPlan, ExecutorHitsCap, ExecutorStartsAction,
         ExecutorMeetsError, ExecutorAppliesSuccess, ExecutorRecovers, ExecutorFails,
         TakeResult, ExecutorWires, ExecutorStops, Wire, Halt, IsNext, Moved, Mail
  <2>2. CASE ActionEnds
    <3>1. PICK t \in actionTask : \E r \in CommandResults[t.action] :
             executorBox' = Send(executorBox, "executor",
                [type |-> "ActionFinished", action |-> t.action, result |-> r])
      BY <2>2 DEF ActionEnds
    <3>2. \E m : m.type = "ActionFinished" /\ executorBox' = Append(executorBox, m)
      BY <1>2, <3>1 DEF Send
    <3>3. ~StartingUp
      BY <3>1 DEF Live, NothingButWiring
    <3> QED
      BY <3>2, <3>3 DEF Moved, Mail
  <2> QED
    BY <2>1, <2>2
<1>10. \A a \in Actor : Moved(a)
  BY <1>1, <1>7, <1>8, <1>9 DEF Actor, Moved, Mail
<1> QED
  BY <1>1, <1>3, <1>6, <1>10 DEF Moves

LEMMA SensorMoves ==
    ASSUME TypeOK, Live, NEW n \in Sensor, SensorStep(n)
    PROVE  Moves
<1>1. CASE SensorReports(n)
  <2>1. UNCHANGED <<driver, at, planTask, actionTask, sensors, stopped, wired,
                    plannerBox, executorBox, supervisorBox>>
    BY <1>1 DEF SensorReports, OutsideSensors, plannerVars, executorVars, driverVars
  <2>2. ~StartingUp
    BY <1>1 DEF SensorReports, Polling, Live, NothingButWiring
  <2>3. \/ worldBox' = worldBox
        \/ \E m : m.type = "ApplyReading" /\ worldBox' = Append(worldBox, m)
    BY <1>1 DEF SensorReports, Send
  <2>4. \A a \in Actor : Moved(a)
    BY <2>1, <2>2, <2>3 DEF Actor, Moved, Mail
  <2> QED
    BY <2>1, <2>4 DEF Moves
<1>2. CASE SensorSkips(n)
  <2>1. UNCHANGED vars
    BY <1>2 DEF SensorSkips
  <2>2. \A a \in Actor : Moved(a)
    BY <2>1 DEF vars, boxes, Actor, Moved, Mail
  <2> QED
    BY <2>1, <2>2 DEF vars, driverVars, plannerVars, executorVars, sensorVars, Moves
<1>3. CASE SensorStops(n)
  <2>1. UNCHANGED <<driver, at, planTask, actionTask, stopped, wired, boxes>>
    BY <1>3 DEF SensorStops, OutsideSensors, plannerVars, executorVars, driverVars, boxes
  <2>2. ~StartingUp
    BY <1>3 DEF SensorStops, Live, NothingButWiring
  <2>3. \A a \in Actor : Moved(a)
    BY <2>1 DEF boxes, Actor, Moved, Mail
  <2> QED
    BY <2>1, <2>2, <2>3 DEF Moves
<1> QED
  BY <1>1, <1>2, <1>3 DEF SensorStep

LEMMA PostedTo ==
    ASSUME stopped = {}, NEW to \in Actor, NEW m, Post(to, m), NEW a \in Actor
    PROVE  Mail(a)' = IF a = to THEN Append(Mail(a), m) ELSE Mail(a)
  BY DEF Post, Send, Mail, Actor

LEMMA WireKeepsLive ==
    ASSUME TypeOK, Live, WireNext
    PROVE  Live'
<1>1. PICK p \in 1..6 : p = at /\ Len(Wiring) = 6
  BY DEF WireNext, TypeOK, DriverOK, Wiring
<1> DEFINE to  == Wiring[p].to
           ref == Wiring[p].ref
           m   == [type |-> "SetRef", ref |-> Wiring[p].ref]
<1>2. to \in Actor /\ m.type = "SetRef" /\ m.ref = ref
  BY <1>1, WiringType
<1>3. StartingUp /\ stopped = {} /\ UNCHANGED <<stopped, wired, planTask, actionTask, sensors>>
  BY DEF WireNext, StartingUp, Live, NobodyStops, OutsideDriver, plannerVars, executorVars,
         sensorVars
<1>4. Post(to, m)
  BY <1>1 DEF WireNext
<1> HIDE DEF to, ref, m
<1>5. \A a \in Actor : Mail(a)' = Mail(a) \/ Mail(a)' = Append(Mail(a), m)
  BY <1>2, <1>3, <1>4, PostedTo
<1>6. ASSUME NEW a \in Actor
      PROVE  /\ OnlyWiring(Mail(a)')
             /\ \A r : Arriving(Mail(a), r) => Arriving(Mail(a)', r)
  <2>1. Mail(a) \in Seq(Message) /\ OnlyWiring(Mail(a))
    BY <1>3, MailType DEF Live, NothingButWiring
  <2>2. Mail(a)' = Mail(a) \/ Mail(a)' = Append(Mail(a), m)
    BY <1>5
  <2>3. CASE Mail(a)' = Append(Mail(a), m)
    <3>1. /\ DOMAIN Mail(a) = 1..Len(Mail(a)) /\ Len(Mail(a)) \in Nat
          /\ DOMAIN Mail(a)' = 1..(Len(Mail(a)) + 1)
          /\ Mail(a)'[Len(Mail(a)) + 1] = m
          /\ \A i \in 1..Len(Mail(a)) : Mail(a)'[i] = Mail(a)[i]
      BY <2>1, <2>3, AppendPositions
    <3>2. /\ \A i \in DOMAIN Mail(a)' : i \in DOMAIN Mail(a) \/ i = Len(Mail(a)) + 1
          /\ DOMAIN Mail(a) \subseteq DOMAIN Mail(a)'
      BY <3>1
    <3>3. OnlyWiring(Mail(a)')
      BY <1>2, <2>1, <3>1, <3>2 DEF OnlyWiring
    <3>4. \A r : Arriving(Mail(a), r) => Arriving(Mail(a)', r)
      BY <3>1, <3>2 DEF Arriving
    <3> QED
      BY <3>3, <3>4
  <2> QED
    BY <2>1, <2>2, <2>3
<1>7. Arriving(Mail(to)', ref)
  <2>1. Mail(to)' = Append(Mail(to), m) /\ Mail(to) \in Seq(Message)
    BY <1>2, <1>3, <1>4, PostedTo, MailType
  <2>2. /\ DOMAIN Mail(to)' = 1..(Len(Mail(to)) + 1) /\ Len(Mail(to)) \in Nat
        /\ Mail(to)'[Len(Mail(to)) + 1] = m
    BY <2>1, AppendPositions
  <2>3. Len(Mail(to)) + 1 \in DOMAIN Mail(to)'
    BY <2>2
  <2> QED
    BY <1>2, <2>2, <2>3 DEF Arriving
<1>8. NobodyStops' /\ NothingButWiring' /\ \A a \in Actor : WiringFirst(Mail(a)')
  <2>1. NobodyStops'
    BY <1>3, <1>6 DEF NobodyStops, Has, OnlyWiring
  <2>2. NothingButWiring'
    BY <1>3, <1>6 DEF Live, NothingButWiring
  <2>3. \A a \in Actor : WiringFirst(Mail(a)')
    BY <1>6 DEF OnlyWiring, WiringFirst
  <2> QED
    BY <2>1, <2>2, <2>3
<1>9. WiringArrives'
  <2>1. \A k \in 1..(p - 1) : Wiring[k].ref \in wired \/ Arriving(Mail(Wiring[k].to), Wiring[k].ref)
    BY <1>1 DEF Live, WiringArrives, Posted, WireNext
  <2>2. \A k \in 1..6 : Wiring[k].to \in Actor
    BY <1>1, WiringType
  <2>3. \A k \in 1..(p - 1) : Wiring[k].ref \in wired' \/ Arriving(Mail(Wiring[k].to)', Wiring[k].ref)
    BY <1>1, <1>3, <1>6, <2>1, <2>2
  <2>4. Wiring[p].ref \in wired' \/ Arriving(Mail(Wiring[p].to)', Wiring[p].ref)
    BY <1>7 DEF to, ref
  <2>5. \A k \in 1..p : Wiring[k].ref \in wired' \/ Arriving(Mail(Wiring[k].to)', Wiring[k].ref)
    BY <1>1, <2>3, <2>4
  <2>6. Posted' = p
    BY <1>1 DEF WireNext, Posted
  <2> QED
    BY <2>5, <2>6 DEF WiringArrives
<1> QED
  BY <1>8, <1>9 DEF Live

LEMMA DriverKeepsLive ==
    ASSUME TypeOK, Deciding, LiveInv, DriverStep \/ Interrupt
    PROVE  LiveInv'
<1>1. CASE TakeOutcome \/ Interrupt
  BY <1>1 DEF TakeOutcome, Interrupt, LiveInv
<1>2. CASE outcome # {} /\ ~TakeOutcome /\ ~Interrupt
  BY <1>2 DEF LiveInv, DriverStep, Sweep, SweepEnds, WireNext, StartSensors, BootstrapWorld,
         StopSensors, StopNext, Exit
<1> SUFFICES ASSUME Live, DriverStep, outcome = {}, ~TakeOutcome PROVE LiveInv'
  BY <1>1, <1>2 DEF LiveInv
<1>3. CASE WireNext
  BY <1>3, WireKeepsLive DEF LiveInv
<1>4. ASSUME UNCHANGED <<boxes, stopped, wired, planTask, actionTask>>,
             StartingUp' => StartingUp /\ UNCHANGED sensors, Posted' <= Posted
      PROVE  Live'
  <2>1. UNCHANGED <<worldBox, supervisorBox, plannerBox, executorBox>>
    BY <1>4 DEF boxes
  <2>2. \A a : Mail(a)' = Mail(a)
    BY <2>1 DEF Mail
  <2>3. NobodyStops' /\ \A a \in Actor : WiringFirst(Mail(a)')
    BY <1>4, <2>2 DEF Live, NobodyStops
  <2>4. NothingButWiring'
    BY <1>4, <2>2 DEF Live, NothingButWiring
  <2>5. Posted \in Int /\ Posted' \in Int
    BY DriverStepType DEF TypeOK, DriverOK, Posted
  <2>6. WiringArrives'
    BY <1>4, <2>2, <2>5 DEF Live, WiringArrives
  <2> QED
    BY <2>3, <2>4, <2>6 DEF Live
<1>5. CASE Sweep \/ SweepEnds \/ StartSensors
  <2>1. UNCHANGED <<boxes, stopped, wired, planTask, actionTask>>
    BY <1>5 DEF Sweep, SweepEnds, StartSensors, OutsideDriver, plannerVars, executorVars
  <2>2. StartingUp' => StartingUp /\ UNCHANGED sensors
    BY <1>5 DEF Sweep, SweepEnds, StartSensors, StartingUp, sensorVars
  <2>3. Posted' <= Posted
    BY <1>5 DEF Sweep, SweepEnds, StartSensors, Posted
  <2> QED
    BY <1>4, <2>1, <2>2, <2>3 DEF LiveInv
<1>6. CASE BootstrapWorld
  <2> DEFINE m == [type |-> "Bootstrap"]
  <2>1. m.type = "Bootstrap" /\ Post("world", m) /\ "world" \in Actor /\ stopped = {}
    BY <1>6 DEF BootstrapWorld, Actor, Live, NobodyStops
  <2> HIDE DEF m
  <2>2. ~StartingUp /\ ~StartingUp' /\ Posted = 6 /\ Posted' = 6 /\ UNCHANGED <<stopped, wired>>
    BY <1>6 DEF BootstrapWorld, StartingUp, Posted, OutsideDriver
  <2>3. \A a \in Actor : Moved(a)
    <3> SUFFICES ASSUME NEW a \in Actor PROVE Moved(a)
      OBVIOUS
    <3>1. Mail(a)' = Mail(a) \/ Mail(a)' = Append(Mail(a), m)
      BY <2>1, PostedTo
    <3> QED
      BY <2>1, <2>2, <3>1 DEF Moved
  <2>4. NobodyStops' /\ NothingButWiring' /\ \A a \in Actor : WiringFirst(Mail(a)')
    BY <2>2, <2>3, MovedKeeps DEF Live, NobodyStops, NothingButWiring
  <2>5. \A k \in 1..6 : Wiring[k].to \in Actor
    <3>1. Len(Wiring) = 6
      BY DEF Wiring
    <3> QED
      BY <3>1, WiringType
  <2>6. WiringArrives'
    BY <2>2, <2>3, <2>5, MovedKeeps DEF Live, WiringArrives
  <2> QED
    BY <2>4, <2>6 DEF Live, LiveInv
<1>7. CASE StopSensors \/ StopNext \/ Exit
  <2>1. Deciding => FALSE
    BY <1>7 DEF StopSensors, StopNext, Exit, Deciding
  <2> QED
    BY <2>1
<1> QED
  BY <1>3, <1>5, <1>6, <1>7 DEF DriverStep

LEMMA LiveStep ==
    ASSUME IInv, LiveInv, [Next]_vars
    PROVE  LiveInv'
<1> USE DEF IInv
<1>1. CASE UNCHANGED vars
  <2>1. \A a : Mail(a)' = Mail(a)
    BY <1>1 DEF vars, boxes, Mail
  <2> QED
    BY <1>1, <2>1 DEF vars, driverVars, plannerVars, executorVars, sensorVars, LiveInv, Live,
           NobodyStops, NothingButWiring, WiringArrives, StartingUp, Posted
<1>2. CASE DriverStep \/ Interrupt
  BY <1>2, DriverKeepsLive
<1>3. CASE ~DriverStep /\ ~Interrupt /\ Next /\ ~UNCHANGED vars
  <2>1. UNCHANGED outcome
    <3>1. CASE WorldStep
      BY <3>1 DEF WorldStep, WorldAppliesReading, WorldAppliesActionEffects, WorldBootstraps,
         WorldWires, WorldStops, OutsideWorld, driverVars
    <3>2. CASE PlannerStep \/ PlanReturns
      BY <3>2 DEF PlannerStep, PlannerStartsPlan, PlannerCoalesces, PlannerReports, PlannerWires,
         PlannerStops, PlanReturns, OutsidePlanner, driverVars
    <3>3. CASE SupervisorStep
      BY <3>3 DEF SupervisorStep, SupervisorForwardsChange, SupervisorIgnoresPlan,
         SupervisorMeetsPlannerError, SupervisorHasNothingToRun, SupervisorDispatches,
         SupervisorTerminates, SupervisorWires, SupervisorStops, OutsideSupervisor, driverVars
    <3>4. CASE ExecutorStep \/ ActionEnds
      BY <3>4 DEF ExecutorStep, ExecutorKeepsPlan, ExecutorHitsCap, ExecutorStartsAction,
         ExecutorMeetsError, ExecutorAppliesSuccess, ExecutorRecovers, ExecutorFails,
         TakeResult, ExecutorWires, ExecutorStops, ActionEnds, OutsideExecutor, driverVars
    <3>5. CASE \E n \in Sensor : SensorStep(n)
      BY <3>5 DEF SensorStep, SensorReports, SensorSkips, SensorStops, OutsideSensors, driverVars, vars
    <3> QED
      BY <1>3, <3>1, <3>2, <3>3, <3>4, <3>5 DEF Next, Terminated
  <2>2. CASE outcome # {}
    BY <2>1, <2>2 DEF LiveInv
  <2>3. CASE Live
    <3>1. Moves
      BY <1>3, <2>3, WorldMoves, PlannerMoves, SupervisorMoves, ExecutorMoves, SensorMoves
         DEF Next, Terminated
    <3> QED
      BY <2>3, <3>1, MovesKeepLive DEF LiveInv
  <2> QED
    BY <2>2, <2>3 DEF LiveInv
<1> QED
  BY <1>1, <1>2, <1>3

LEMMA LiveCorrect == Spec => []LiveInv
<1>1. Init => LiveInv
  BY DEF Init, LiveInv, Live, NobodyStops, NothingButWiring, WiringArrives, OnlyWiring,
         WiringFirst, Posted, Mail, Has, Actor
<1> QED
  BY <1>1, LiveStep, IInvCorrect, PTL DEF Spec

-----------------------------------------------------------------------------
(* No update is lost.                                                      *)

(* The newest world has been planned, or is on its way to the planner. *)
Fresh ==
    \/ LatestIs(supervisorBox, "StateChanged", world)
    \/ /\ ~Has(supervisorBox, "StateChanged")
       /\ \/ LatestIs(plannerBox, "PlanRequest", world)
          \/ /\ ~Has(plannerBox, "PlanRequest")
             /\ \/ planPending = {world}
                \/ planPending = {} /\ planned = world

(* The steps that have nothing to do with updates. *)
Untouched ==
    /\ UNCHANGED <<world, planPending, planned>>
    /\ LeftAlone(supervisorBox, supervisorBox', "StateChanged")
    /\ LeftAlone(plannerBox, plannerBox', "PlanRequest")

LEMMA UntouchedStaysFresh ==
    ASSUME TypeOK, Untouched, Fresh
    PROVE  Fresh'
<1>1. /\ Has(supervisorBox', "StateChanged") <=> Has(supervisorBox, "StateChanged")
      /\ \A w : LatestIs(supervisorBox, "StateChanged", w)
                    <=> LatestIs(supervisorBox', "StateChanged", w)
  BY LeftAloneLatest DEF Untouched, TypeOK, BoxesOK
<1>2. /\ Has(plannerBox', "PlanRequest") <=> Has(plannerBox, "PlanRequest")
      /\ \A w : LatestIs(plannerBox, "PlanRequest", w)
                    <=> LatestIs(plannerBox', "PlanRequest", w)
  BY LeftAloneLatest DEF Untouched, TypeOK, BoxesOK
<1>3. LatestIs(supervisorBox, "StateChanged", world) => LatestIs(supervisorBox', "StateChanged", world')
  BY <1>1 DEF Untouched
<1>4. LatestIs(plannerBox, "PlanRequest", world) => LatestIs(plannerBox', "PlanRequest", world')
  BY <1>2 DEF Untouched
<1> QED
  BY <1>1, <1>2, <1>3, <1>4 DEF Fresh, Untouched

LEMMA NotifyIsLatest ==
    ASSUME TypeOK, stopped = {}, "world.subscriber" \in wired, supervisorBox' = Notify(world')
    PROVE  LatestIs(supervisorBox', "StateChanged", world')
<1> DEFINE m == [type |-> "StateChanged", snapshot |-> world']
<1>1. supervisorBox' = Append(supervisorBox, m)
  BY DEF Notify, Send
<1>2. m.type = "StateChanged" /\ m.snapshot = world' /\ supervisorBox \in Seq(SupervisorMsg)
  BY DEF TypeOK, BoxesOK
<1> HIDE DEF m
<1>3. LatestIs(Append(supervisorBox, m), m.type, m.snapshot)
  BY <1>2, PostedIsLatest
<1> QED
  BY <1>1, <1>2, <1>3

LEMMA WorldStaysFresh ==
    ASSUME TypeOK, Live, WorldStep, Fresh \/ WorldBootstraps
    PROVE  Fresh'
<1>1. UNCHANGED <<planPending, planned, plannerBox>> /\ stopped = {}
  BY DEF WorldStep, WorldAppliesReading, WorldAppliesActionEffects, WorldBootstraps,
         WorldWires, WorldStops, OutsideWorld, plannerVars, Live, NobodyStops
<1>2. CASE UNCHANGED <<world, supervisorBox>> /\ Fresh
  BY <1>1, <1>2, UntouchedStaysFresh DEF Untouched, LeftAlone
<1>3. CASE WorldAppliesReading
  BY <1>1, <1>2, <1>3, LiveHeads, NotifyIsLatest DEF WorldAppliesReading, Fresh, WorldBootstraps, IsNext
<1>4. CASE WorldAppliesActionEffects
  BY <1>1, <1>4, LiveHeads, NotifyIsLatest DEF WorldAppliesActionEffects, Fresh
<1>5. CASE WorldBootstraps
  BY <1>1, <1>5, LiveHeads, NotifyIsLatest DEF WorldBootstraps, worldVars, Fresh
<1>6. CASE WorldWires
  BY <1>2, <1>6 DEF WorldWires, worldVars, Wire, WorldBootstraps, IsNext
<1>7. CASE WorldStops
  BY <1>7, LiveHeads DEF WorldStops, Halt
<1> QED
  BY <1>3, <1>4, <1>5, <1>6, <1>7 DEF WorldStep

LEMMA PlannerStaysFresh ==
    ASSUME TypeOK, Live, OnePlanInFlight, driver # "exited", PlannerStep \/ PlanReturns, Fresh
    PROVE  Fresh'
<1>1. /\ stopped = {} /\ UNCHANGED world
      /\ plannerBox \in Seq(PlannerMsg) /\ supervisorBox \in Seq(SupervisorMsg)
      /\ planPending # {} => planBusy
  BY DEF PlannerStep, PlannerStartsPlan, PlannerCoalesces, PlannerReports, PlannerWires,
         PlannerStops, PlanReturns, OutsidePlanner, worldVars, Live, NobodyStops,
         TypeOK, BoxesOK, OnePlanInFlight
<1>2. ASSUME IsNext(plannerBox, "PlanRequest"), ~LatestIs(supervisorBox, "StateChanged", world)
      PROVE  /\ ~Has(supervisorBox, "StateChanged")
             /\ \/ LatestIs(Tail(plannerBox), "PlanRequest", world)
                \/ /\ ~Has(Tail(plannerBox), "PlanRequest")
                   /\ Head(plannerBox).snapshot = world
  <2>1. plannerBox # <<>> /\ Head(plannerBox).type = "PlanRequest"
    BY <1>2 DEF IsNext
  <2>2. Has(plannerBox, "PlanRequest")
    BY <1>1, <2>1, TailPositions DEF Has
  <2>3. ~Has(supervisorBox, "StateChanged") /\ LatestIs(plannerBox, "PlanRequest", world)
    BY <1>2, <2>2 DEF Fresh
  <2> QED
    BY <1>1, <2>1, <2>3, TakenOrLatest
<1>3. CASE PlannerStartsPlan
  BY <1>1, <1>2, <1>3 DEF PlannerStartsPlan, SpawnPlan, Fresh
<1>4. CASE PlannerCoalesces
  BY <1>1, <1>2, <1>4 DEF PlannerCoalesces, Fresh
<1>5. CASE PlannerReports
  <2>1. LeftAlone(plannerBox, plannerBox', "PlanRequest")
    BY <1>5 DEF PlannerReports, LeftAlone, IsNext
  <2>2. LeftAlone(supervisorBox, supervisorBox', "StateChanged")
    <3>1. \/ supervisorBox' = supervisorBox
          \/ \E m : m.type = "PlanReady" /\ supervisorBox' = Append(supervisorBox, m)
      BY <1>5 DEF PlannerReports, Report, Send
    <3> QED
      BY <3>1 DEF LeftAlone
  <2>3. CASE planPending = {} /\ UNCHANGED <<planPending, planned>>
    BY <1>1, <2>1, <2>2, <2>3, UntouchedStaysFresh DEF Untouched
  <2>4. CASE \E s \in planPending : planned' = s /\ planPending' = {}
    <3>1. PICK s \in planPending : planned' = s /\ planPending' = {}
      BY <2>4
    <3>2. planPending = {s}
      BY <3>1 DEF TypeOK, PlannerOK, Option
    <3>3. /\ Has(supervisorBox', "StateChanged") <=> Has(supervisorBox, "StateChanged")
          /\ \A w : LatestIs(supervisorBox, "StateChanged", w)
                        <=> LatestIs(supervisorBox', "StateChanged", w)
          /\ Has(plannerBox', "PlanRequest") <=> Has(plannerBox, "PlanRequest")
          /\ \A w : LatestIs(plannerBox, "PlanRequest", w)
                        <=> LatestIs(plannerBox', "PlanRequest", w)
      BY <1>1, <2>1, <2>2, LeftAloneLatest
    <3>4. /\ LatestIs(supervisorBox, "StateChanged", world)
                 => LatestIs(supervisorBox', "StateChanged", world')
          /\ LatestIs(plannerBox, "PlanRequest", world)
                 => LatestIs(plannerBox', "PlanRequest", world')
      BY <1>1, <3>3
    <3>5. planPending = {world} \/ planPending = {} => planned' = world'
      BY <1>1, <3>1, <3>2
    <3> QED
      BY <3>1, <3>3, <3>4, <3>5 DEF Fresh
  <2> QED
    BY <1>5, <2>3, <2>4 DEF PlannerReports, SpawnPlan
<1>6. CASE PlannerWires
  BY <1>1, <1>6, UntouchedStaysFresh DEF PlannerWires, plannerVars, Wire, IsNext, Untouched, LeftAlone
<1>7. CASE PlannerStops
  BY <1>7, LiveHeads DEF PlannerStops, Halt
<1>8. CASE PlanReturns
  <2>1. PICK s \in planTask : \E r \in PlanResults[s.facts] :
           plannerBox' = Send(plannerBox, "planner",
              [type |-> "PlanComputed", result |-> r, snapshot |-> s])
    BY <1>8 DEF PlanReturns
  <2>2. \E m : m.type = "PlanComputed" /\ plannerBox' = Append(plannerBox, m)
    BY <1>1, <2>1 DEF Send
  <2>3. LeftAlone(plannerBox, plannerBox', "PlanRequest")
    BY <2>2 DEF LeftAlone
  <2> QED
    BY <1>1, <1>8, <2>3, UntouchedStaysFresh DEF PlanReturns, Untouched, LeftAlone
<1> QED
  BY <1>3, <1>4, <1>5, <1>6, <1>7, <1>8 DEF PlannerStep

LEMMA SupervisorStaysFresh ==
    ASSUME TypeOK, Live, SupervisorStep, ~done, Fresh
    PROVE  Fresh'
<1>1. /\ stopped = {} /\ UNCHANGED <<world, planPending, planned>>
      /\ plannerBox \in Seq(PlannerMsg) /\ supervisorBox \in Seq(SupervisorMsg)
  BY DEF SupervisorStep, SupervisorForwardsChange, SupervisorIgnoresPlan,
         SupervisorMeetsPlannerError, SupervisorHasNothingToRun, SupervisorDispatches,
         SupervisorTerminates, SupervisorWires, SupervisorStops, OutsideSupervisor,
         worldVars, plannerVars, Live, NobodyStops, TypeOK, BoxesOK
<1>2. CASE SupervisorForwardsChange
  <2> DEFINE s == Head(supervisorBox).snapshot
             m == [type |-> "PlanRequest", snapshot |-> Head(supervisorBox).snapshot]
  <2>1. /\ supervisorBox # <<>> /\ Head(supervisorBox).type = "StateChanged"
        /\ supervisorBox' = Tail(supervisorBox)
    BY <1>2 DEF SupervisorForwardsChange, IsNext
  <2>2. plannerBox' = Append(plannerBox, m)
    BY <1>1, <1>2, LiveHeads DEF SupervisorForwardsChange, Send
  <2>3. m.type = "PlanRequest" /\ m.snapshot = s
    OBVIOUS
  <2> HIDE DEF m
  <2>4. LatestIs(plannerBox', "PlanRequest", s)
    <3>1. LatestIs(Append(plannerBox, m), m.type, m.snapshot)
      BY <1>1, PostedIsLatest
    <3> QED
      BY <2>2, <2>3, <3>1
  <2>5. Has(supervisorBox, "StateChanged")
    BY <1>1, <2>1, TailPositions DEF Has
  <2>6. LatestIs(supervisorBox, "StateChanged", world)
    BY <2>5 DEF Fresh
  <2>7. \/ LatestIs(Tail(supervisorBox), "StateChanged", world)
        \/ ~Has(Tail(supervisorBox), "StateChanged") /\ s = world
    BY <1>1, <2>1, <2>6, TakenOrLatest
  <2> QED
    BY <1>1, <2>1, <2>4, <2>7 DEF Fresh
<1>3. CASE ~SupervisorForwardsChange
  <2>1. ~IsNext(supervisorBox, "Stop")
    BY LiveHeads
  <2>2. /\ UNCHANGED plannerBox
        /\ supervisorBox # <<>> /\ Head(supervisorBox).type # "StateChanged"
        /\ supervisorBox' = Tail(supervisorBox)
    BY <1>3, <2>1 DEF SupervisorStep, SupervisorIgnoresPlan, SupervisorMeetsPlannerError,
         SupervisorHasNothingToRun, SupervisorDispatches, SupervisorTerminates,
         SupervisorWires, SupervisorStops, Wire, Halt, IsNext
  <2> QED
    BY <1>1, <2>2, UntouchedStaysFresh DEF Untouched, LeftAlone
<1> QED
  BY <1>2, <1>3

LEMMA ExecutorStaysFresh ==
    ASSUME TypeOK, Live, ExecutorStep \/ ActionEnds, Fresh
    PROVE  Fresh'
<1>1. UNCHANGED <<world, planPending, planned, plannerBox>>
  BY DEF ExecutorStep, ExecutorKeepsPlan, ExecutorHitsCap, ExecutorStartsAction,
         ExecutorMeetsError, ExecutorAppliesSuccess, ExecutorRecovers, ExecutorFails,
         TakeResult, ExecutorWires, ExecutorStops, ActionEnds, OutsideExecutor,
         worldVars, plannerVars
<1>2. \A o : Terminate(o) => LeftAlone(supervisorBox, supervisorBox', "StateChanged")
  <2> SUFFICES ASSUME NEW o, Terminate(o), supervisorBox' # supervisorBox
               PROVE  \E m : m.type # "StateChanged" /\ supervisorBox' = Append(supervisorBox, m)
    BY DEF LeftAlone
  <2>1. supervisorBox' = Append(supervisorBox, [type |-> "Terminate", outcome |-> o])
    BY DEF Terminate, Send
  <2> QED
    BY <2>1
<1>3. LeftAlone(supervisorBox, supervisorBox', "StateChanged")
  <2>1. CASE UNCHANGED supervisorBox
    BY <2>1 DEF LeftAlone
  <2> QED
    BY <1>2, <2>1 DEF ExecutorStep, ExecutorKeepsPlan, ExecutorHitsCap, ExecutorStartsAction,
         ExecutorMeetsError, ExecutorAppliesSuccess, ExecutorRecovers, ExecutorFails,
         ExecutorWires, ExecutorStops, ActionEnds
<1> QED
  BY <1>1, <1>3, UntouchedStaysFresh DEF Untouched, LeftAlone

(* While the runtime waits for an outcome nothing undoes its first plan:   *)
(* planning starts with the Bootstrap, and ends when the run is decided.   *)
LEMMA BootstrapWaits ==
    ASSUME TypeOK, Next, ~DriverStep, ~WorldStops, driver # "exited"
    PROVE  WorldBootstraps \/ LeftAlone(worldBox, worldBox', "Bootstrap")
<1>1. CASE WorldStep
  BY <1>1 DEF WorldStep, WorldAppliesReading, WorldAppliesActionEffects, WorldWires,
         Wire, IsNext, LeftAlone
<1>2. CASE PlannerStep \/ PlanReturns \/ SupervisorStep
  BY <1>2 DEF PlannerStep, PlannerStartsPlan, PlannerCoalesces, PlannerReports, PlannerWires,
         PlannerStops, PlanReturns, OutsidePlanner, SupervisorStep, SupervisorForwardsChange,
         SupervisorIgnoresPlan, SupervisorMeetsPlannerError, SupervisorHasNothingToRun,
         SupervisorDispatches, SupervisorTerminates, SupervisorWires, SupervisorStops,
         OutsideSupervisor, LeftAlone
<1>3. CASE ExecutorStep \/ ActionEnds
  <2>1. \A adds, removes : TellEffects(adds, removes) => LeftAlone(worldBox, worldBox', "Bootstrap")
    <3> SUFFICES ASSUME NEW adds, NEW removes, TellEffects(adds, removes), worldBox' # worldBox
                 PROVE  \E m : m.type # "Bootstrap" /\ worldBox' = Append(worldBox, m)
      BY DEF LeftAlone
    <3>1. worldBox' = Append(worldBox,
             [type |-> "ApplyActionEffects", adds |-> adds, removes |-> removes])
      BY DEF TellEffects, Send
    <3> QED
      BY <3>1
  <2>2. CASE UNCHANGED worldBox
    BY <2>2 DEF LeftAlone
  <2> QED
    BY <1>3, <2>1, <2>2 DEF ExecutorStep, ExecutorKeepsPlan, ExecutorHitsCap,
         ExecutorStartsAction, ExecutorMeetsError, ExecutorAppliesSuccess, ExecutorRecovers,
         ExecutorFails, ExecutorWires, ExecutorStops, ActionEnds
<1>4. ASSUME NEW n \in Sensor, SensorStep(n) PROVE LeftAlone(worldBox, worldBox', "Bootstrap")
  BY <1>4 DEF SensorStep, SensorReports, SensorSkips, SensorStops, Send, vars, boxes, LeftAlone
<1>5. CASE Interrupt
  BY <1>5 DEF Interrupt, boxes, LeftAlone
<1> QED
  BY <1>1, <1>2, <1>3, <1>4, <1>5 DEF Next, Terminated

LEMMA PlanningStep ==
    ASSUME IInv, LiveInv, Next, Planning'
    PROVE  /\ driver = "select" /\ outcome = {} /\ Live /\ ~done
           /\ ~DriverStep /\ ~Interrupt
           /\ Planning \/ WorldBootstraps
<1> USE DEF IInv
<1>1. driver' = "select" /\ ~done' /\ ~Has(worldBox', "Bootstrap")
  BY DEF Planning
<1>2. ~BootstrapWorld \/ outcome # {}
  <2> SUFFICES ASSUME BootstrapWorld, outcome = {} PROVE FALSE
    OBVIOUS
  <2>1. worldBox' = Append(worldBox, [type |-> "Bootstrap"]) /\ worldBox \in Seq(WorldMsg)
    BY DEF BootstrapWorld, Post, Send, LiveInv, Live, NobodyStops, TypeOK, BoxesOK
  <2>2. Has(worldBox', [type |-> "Bootstrap"].type)
    BY <2>1, PostedIsLatest
  <2> QED
    BY <1>1, <2>2
<1>3. driver = "bootstrap" => outcome = {}
  BY DEF Deciding
<1>4. driver = "select"
  <2>1. CASE DriverStep \/ Interrupt
    BY <1>1, <1>2, <1>3, <2>1 DEF DriverStep, Sweep, SweepEnds, WireNext, StartSensors, BootstrapWorld,
         TakeOutcome, StopSensors, StopNext, Exit, Interrupt
  <2>2. CASE WorldStep \/ PlannerStep \/ PlanReturns
    BY <1>1, <2>2 DEF WorldStep, WorldAppliesReading, WorldAppliesActionEffects, WorldBootstraps,
         WorldWires, WorldStops, OutsideWorld, PlannerStep, PlannerStartsPlan, PlannerCoalesces,
         PlannerReports, PlannerWires, PlannerStops, PlanReturns, OutsidePlanner, driverVars
  <2>3. CASE SupervisorStep
    BY <1>1, <2>3 DEF SupervisorStep, SupervisorForwardsChange, SupervisorIgnoresPlan,
         SupervisorMeetsPlannerError, SupervisorHasNothingToRun, SupervisorDispatches,
         SupervisorTerminates, SupervisorWires, SupervisorStops, OutsideSupervisor, driverVars
  <2>4. CASE ExecutorStep \/ ActionEnds
    BY <1>1, <2>4 DEF ExecutorStep, ExecutorKeepsPlan, ExecutorHitsCap, ExecutorStartsAction,
         ExecutorMeetsError, ExecutorAppliesSuccess, ExecutorRecovers, ExecutorFails,
         TakeResult, ExecutorWires, ExecutorStops, ActionEnds, OutsideExecutor, driverVars
  <2>5. CASE (\E n \in Sensor : SensorStep(n)) \/ Terminated
    BY <1>1, <2>5 DEF SensorStep, SensorReports, SensorSkips, SensorStops, OutsideSensors,
         driverVars, vars, Terminated
  <2> QED
    BY <2>1, <2>2, <2>3, <2>4, <2>5 DEF Next
<1>5. outcome = {} /\ Live
  BY <1>4 DEF Deciding, LiveInv
<1>6. ~DriverStep /\ ~Interrupt
  BY <1>1, <1>4 DEF DriverStep, Sweep, SweepEnds, WireNext, StartSensors, BootstrapWorld,
         TakeOutcome, StopSensors, StopNext, Exit, Interrupt
<1>7. ~done
  <2>1. completion # {} => completion' = completion
    BY DecidedOnce
  <2>2. Deciding'
    BY IInvStep
  <2> QED
    BY <1>1, <2>1, <2>2 DEF Deciding
<1>8. WorldBootstraps \/ LeftAlone(worldBox, worldBox', "Bootstrap")
  <2>1. ~WorldStops
    BY <1>5, LiveHeads DEF WorldStops, Halt
  <2> QED
    BY <1>4, <1>6, <2>1, BootstrapWaits
<1>9. Planning \/ WorldBootstraps
  <2>1. LeftAlone(worldBox, worldBox', "Bootstrap") => ~Has(worldBox, "Bootstrap")
    BY <1>1, LeftAloneLatest DEF TypeOK, BoxesOK
  <2> QED
    BY <1>4, <1>7, <1>8, <2>1 DEF Planning
<1> QED
  BY <1>4, <1>5, <1>6, <1>7, <1>9

LEMMA NoLostUpdateStep ==
    ASSUME IInv, LiveInv, OnePlanInFlight, NoLostUpdate, [Next]_vars
    PROVE  NoLostUpdate'
<1>1. NoLostUpdate <=> (Planning => Fresh)
  BY DEF NoLostUpdate, Fresh
<1>2. NoLostUpdate' <=> (Planning' => Fresh')
  BY DEF NoLostUpdate, Fresh
<1>3. CASE UNCHANGED vars
  BY <1>3 DEF vars, boxes, driverVars, plannerVars, supervisorVars, worldVars, NoLostUpdate,
         Planning, LatestIs, Positions, Has
<1>4. CASE Next /\ ~UNCHANGED vars
  <2> SUFFICES ASSUME Planning' PROVE Fresh'
    BY <1>2
  <2>1. /\ driver = "select" /\ Live /\ ~done /\ ~DriverStep /\ ~Interrupt
        /\ Fresh \/ WorldBootstraps
    BY <1>1, <1>4, PlanningStep
  <2>2. TypeOK
    BY DEF IInv
  <2>3. CASE WorldStep
    BY <2>1, <2>2, <2>3, WorldStaysFresh
  <2>4. CASE WorldBootstraps
    BY <2>1, <2>2, <2>4, WorldStaysFresh DEF WorldStep
  <2>5. CASE Fresh /\ (PlannerStep \/ PlanReturns)
    BY <2>1, <2>2, <2>5, PlannerStaysFresh
  <2>6. CASE Fresh /\ SupervisorStep
    BY <2>1, <2>2, <2>6, SupervisorStaysFresh
  <2>7. CASE Fresh /\ (ExecutorStep \/ ActionEnds)
    BY <2>2, <2>1, <2>7, ExecutorStaysFresh
  <2>8. ASSUME Fresh, NEW n \in Sensor, SensorStep(n)
        PROVE  Fresh'
    <3>1. Untouched
      BY <2>8 DEF SensorStep, SensorReports, SensorSkips, SensorStops, OutsideSensors, vars,
             boxes, worldVars, plannerVars, Untouched, LeftAlone
    <3> QED
      BY <2>2, <2>8, <3>1, UntouchedStaysFresh
  <2> QED
    BY <1>4, <2>1, <2>3, <2>4, <2>5, <2>6, <2>7, <2>8 DEF Next, Terminated
<1> QED
  BY <1>3, <1>4

(* Whatever is coalesced or overtaken, the planner has planned the present *)
(* world last, or the present world is on its way to it.                   *)
THEOREM UpdatesAreNeverLost == Spec => []NoLostUpdate
<1>1. Init => NoLostUpdate
  BY DEF Init, NoLostUpdate, Planning
<1> QED
  BY <1>1, NoLostUpdateStep, IInvCorrect, LiveCorrect, OnePlanAtATime, PTL DEF Spec

-----------------------------------------------------------------------------
(* The runtime does not fall asleep with work left.                        *)

(* What the plan in flight answers is what was handed to plan() last. *)
AnswersPlanned ==
    "planner" \notin stopped /\ driver # "exited" =>
        /\ planTask \subseteq {planned}
        /\ \A i \in Positions(plannerBox, "PlanComputed") :
              plannerBox[i].snapshot = planned

LEMMA AnswersStep ==
    ASSUME IInv, OnePlanInFlight, AnswersPlanned, [Next]_vars
    PROVE  AnswersPlanned'
<1> USE DEF IInv
<1> DEFINE P == Positions(plannerBox, "PlanComputed")
           Q == Positions(plannerBox', "PlanComputed")
<1>1. CASE UNCHANGED vars
  BY <1>1 DEF AnswersPlanned, vars, boxes, plannerVars, driverVars, Positions
<1>2. CASE driver = "exited"
  BY <1>1, <1>2, NothingAfterExit
<1>3. CASE Exit
  BY <1>3 DEF Exit, AnswersPlanned
<1>4. CASE "planner" \in stopped /\ (PlannerStep \/ PlanReturns)
  <2>1. "planner" \in stopped'
    BY <1>4 DEF PlannerStep, PlannerStartsPlan, PlannerCoalesces, PlannerReports,
                PlannerWires, PlannerStops, Halt, PlanReturns
  <2> QED
    BY <2>1 DEF AnswersPlanned
<1>5. CASE driver # "exited" /\ Next /\ ~PlannerStep /\ ~PlanReturns /\ ~Exit
  <2>1. OthersPost /\ plannerBox \in Seq(PlannerMsg)
    BY <1>5, PlannerFrame DEF TypeOK, BoxesOK
  <2>2. Q = P /\ \A i \in P : plannerBox'[i] = plannerBox[i]
    <3>1. CASE UNCHANGED plannerBox
      BY <3>1
    <3>2. CASE \E m \in PlannerMsg : /\ m.type # "PlanComputed"
                                    /\ plannerBox' = Send(plannerBox, "planner", m)
      BY <2>1, <3>2, PostKeepsPositions
    <3> QED
      BY <2>1, <3>1, <3>2 DEF OthersPost
  <2> HIDE DEF P, Q
  <2>3. "planner" \notin stopped' => planTask \subseteq {planned} /\ \A i \in P : plannerBox[i].snapshot = planned
    BY <1>5, <2>1 DEF AnswersPlanned, OthersPost, P
  <2>4. UNCHANGED <<planTask, planned>>
    BY <2>1 DEF OthersPost, plannerVars
  <2> QED
    BY <2>2, <2>3, <2>4 DEF AnswersPlanned, Q
<1>6. CASE driver # "exited" /\ "planner" \notin stopped /\ (PlannerStep \/ PlanReturns)
  <2>1. /\ plannerBox \in Seq(PlannerMsg)
        /\ planBusy <=> (planTask # {} \/ P # {})
        /\ P # {} => planTask = {}
        /\ \A i, j \in P : i = j
        /\ planTask \subseteq {planned}
        /\ \A i \in P : plannerBox[i].snapshot = planned
    BY <1>6, HasPosition DEF OnePlanInFlight, AnswersPlanned, TypeOK, BoxesOK
  <2>2. SUFFICES /\ "planner" \notin stopped' => planTask' \subseteq {planned'}
                 /\ "planner" \notin stopped' => \A i \in Q : plannerBox'[i].snapshot = planned'
    BY DEF AnswersPlanned
  <2>3. ASSUME plannerBox # <<>>, plannerBox' = Tail(plannerBox), Head(plannerBox).type # "PlanComputed"
        PROVE  \A i \in Q : i + 1 \in P /\ plannerBox'[i] = plannerBox[i + 1]
    BY <2>1, <2>3, TailShiftsPositions
  <2>4. CASE PlannerStartsPlan
    <3>1. P = {}
      BY <2>1, <2>4 DEF PlannerStartsPlan
    <3> HIDE DEF P, Q
    <3> QED
      BY <2>3, <2>4, <3>1 DEF PlannerStartsPlan, SpawnPlan, IsNext
  <2>5. CASE PlannerCoalesces \/ PlannerWires
    <3> HIDE DEF P, Q
    <3>1. /\ \A i \in Q : i + 1 \in P /\ plannerBox'[i] = plannerBox[i + 1]
          /\ UNCHANGED <<planTask, planned>>
      BY <2>3, <2>5 DEF PlannerCoalesces, PlannerWires, Wire, IsNext, plannerVars
    <3> QED
      BY <2>1, <3>1
  <2>6. CASE PlannerReports
    <3>1. P # {} /\ Q = {}
      BY <2>1, <2>6, TailTakesResult DEF PlannerReports, IsNext
    <3> HIDE DEF P, Q
    <3>2. planTask = {}
      BY <2>1, <3>1
    <3> QED
      BY <2>6, <3>1, <3>2 DEF PlannerReports, SpawnPlan
  <2>7. CASE PlannerStops
    BY <2>7 DEF PlannerStops, Halt
  <2>8. CASE PlanReturns
    <3>1. PICK s \in planTask : \E r \in PlanResults[s.facts] :
             plannerBox' = Send(plannerBox, "planner",
                [type |-> "PlanComputed", result |-> r, snapshot |-> s])
      BY <2>8 DEF PlanReturns
    <3>2. PICK m : /\ m.type = "PlanComputed" /\ m.snapshot = s
                   /\ plannerBox' = Append(plannerBox, m)
      BY <1>6, <3>1 DEF Send
    <3>3. P = {} /\ s = planned /\ UNCHANGED planned /\ planTask' = {}
      BY <2>1, <2>8, <3>1 DEF PlanReturns
    <3>4. \A i \in Q : i = Len(plannerBox) + 1
      BY <2>1, <3>2, <3>3, AppendPositions DEF Positions
    <3>5. plannerBox'[Len(plannerBox) + 1] = m
      BY <2>1, <3>2, AppendPositions
    <3> HIDE DEF P, Q
    <3> QED
      BY <3>2, <3>3, <3>4, <3>5
  <2> QED
    BY <1>6, <2>4, <2>5, <2>6, <2>7, <2>8 DEF PlannerStep
<1> QED
  BY <1>1, <1>2, <1>3, <1>4, <1>5, <1>6

(* In the world w the planner has an action to offer. *)
Steps(w) == \E r \in PlanResults[w.facts] : r.kind = "steps"

Runnable(m) == m.type = "PlanReady" /\ m.result.kind = "steps"

HasRunnable(box) == \E i \in DOMAIN box : Runnable(box[i])

(* A plan has been asked for, is being made or waits to be adopted, an      *)
(* action runs or its result waits to be applied, or the run is to end.     *)
Awake ==
    \/ Has(supervisorBox, "StateChanged")
    \/ Has(plannerBox, "PlanRequest") \/ planPending # {}
    \/ planTask # {} \/ Has(plannerBox, "PlanComputed")
    \/ HasRunnable(supervisorBox)
    \/ Has(executorBox, "AdoptPlan")
    \/ actionTask # {} \/ Has(executorBox, "ActionFinished")
    \/ Has(worldBox, "ApplyActionEffects")
    \/ Has(supervisorBox, "Terminate")

StaysAwake == Planning /\ Steps(planned) => Awake

(* In one world the planner either always has a step to offer or never. *)
LEMMA OneKindOfAnswer ==
    ASSUME NEW s \in State, NEW p \in PlanResults[s], NEW q \in PlanResults[s]
    PROVE  p.kind = q.kind
  BY DEF PlanResults, NoSteps, Starting

Grown(box, next) == next = box \/ \E m : next = Append(box, m)

LEMMA GrownKeeps ==
    ASSUME NEW Msg, NEW box \in Seq(Msg), NEW next, Grown(box, next)
    PROVE  /\ \A t : Has(box, t) => Has(next, t)
           /\ HasRunnable(box) => HasRunnable(next)
<1>1. CASE next = box
  BY <1>1
<1>2. ASSUME NEW m, next = Append(box, m)
      PROVE  DOMAIN box \subseteq DOMAIN next /\ \A i \in DOMAIN box : next[i] = box[i]
  BY <1>2, AppendPositions
<1> QED
  BY <1>1, <1>2 DEF Grown, Has, HasRunnable

LEMMA TakenKeeps ==
    ASSUME NEW Msg, NEW box \in Seq(Msg), box # <<>>
    PROVE  /\ \A t : Has(box, t) /\ Head(box).type # t => Has(Tail(box), t)
           /\ HasRunnable(box) /\ ~Runnable(Head(box)) => HasRunnable(Tail(box))
<1>1. \A i \in DOMAIN box : i = 1 \/ (i - 1 \in DOMAIN Tail(box) /\ Tail(box)[i - 1] = box[i])
  BY TailPositions
<1>2. box[1] = Head(box)
  OBVIOUS
<1>3. \A t : Has(box, t) /\ Head(box).type # t => Has(Tail(box), t)
  BY <1>1, <1>2 DEF Has
<1>4. HasRunnable(box) /\ ~Runnable(Head(box)) => HasRunnable(Tail(box))
  BY <1>1, <1>2 DEF HasRunnable
<1> QED
  BY <1>3, <1>4

LEMMA WorldStaysAwake ==
    ASSUME TypeOK, Live, WorldStep, Awake \/ WorldBootstraps
    PROVE  Awake'
<1>1. /\ UNCHANGED <<plannerBox, executorBox, planPending, planTask, actionTask>>
      /\ stopped = {}
      /\ worldBox \in Seq(WorldMsg) /\ supervisorBox \in Seq(SupervisorMsg)
  BY DEF WorldStep, WorldAppliesReading, WorldAppliesActionEffects, WorldBootstraps,
         WorldWires, WorldStops, OutsideWorld, plannerVars, executorVars, Live, NobodyStops,
         TypeOK, BoxesOK
<1>2. ASSUME "world.subscriber" \in wired, NEW w, supervisorBox' = Notify(w)
      PROVE  Has(supervisorBox', "StateChanged")
  <2>1. supervisorBox' = Append(supervisorBox, [type |-> "StateChanged", snapshot |-> w])
    BY <1>1, <1>2 DEF Notify, Send
  <2>2. Has(supervisorBox', [type |-> "StateChanged", snapshot |-> w].type)
    BY <1>1, <2>1, PostedIsLatest
  <2> QED
    BY <2>2
<1>3. CASE WorldAppliesActionEffects
  BY <1>2, <1>3, LiveHeads DEF WorldAppliesActionEffects, Awake
<1>4. CASE WorldBootstraps
  BY <1>2, <1>4, LiveHeads DEF WorldBootstraps, Awake
<1>5. CASE WorldAppliesReading \/ WorldWires
  <2>1. /\ worldBox # <<>> /\ worldBox' = Tail(worldBox)
        /\ Head(worldBox).type \notin {"ApplyActionEffects", "Bootstrap"}
    BY <1>5 DEF WorldAppliesReading, WorldWires, Wire, IsNext
  <2>2. Has(supervisorBox', "StateChanged") \/ UNCHANGED supervisorBox
    BY <1>2, <1>5, LiveHeads DEF WorldAppliesReading, WorldWires
  <2>3. Has(worldBox, "ApplyActionEffects") => Has(worldBox', "ApplyActionEffects")
    BY <1>1, <2>1, TakenKeeps
  <2>4. Awake
    BY <2>1 DEF WorldBootstraps, IsNext
  <2> QED
    BY <1>1, <2>2, <2>3, <2>4 DEF Awake
<1>6. CASE WorldStops
  BY <1>6, LiveHeads DEF WorldStops, Halt
<1> QED
  BY <1>3, <1>4, <1>5, <1>6 DEF WorldStep

LEMMA PlannerStaysAwake ==
    ASSUME IInv, Live, AnswersPlanned, driver # "exited", PlannerStep \/ PlanReturns,
           Steps(planned) => Awake, Steps(planned')
    PROVE  Awake'
<1>1. /\ UNCHANGED <<worldBox, executorBox, actionTask>> /\ stopped = {}
      /\ plannerBox \in Seq(SoundPlannerMsg) /\ plannerBox \in Seq(PlannerMsg)
      /\ supervisorBox \in Seq(SupervisorMsg)
  BY DEF PlannerStep, PlannerStartsPlan, PlannerCoalesces, PlannerReports, PlannerWires,
         PlannerStops, PlanReturns, OutsidePlanner, executorVars, Live, NobodyStops,
         IInv, Provenance, TypeOK, BoxesOK
<1>2. CASE PlannerStartsPlan
  BY <1>2 DEF PlannerStartsPlan, SpawnPlan, Awake
<1>3. CASE PlannerCoalesces
  BY <1>3 DEF PlannerCoalesces, Awake
<1>4. CASE PlannerReports
  <2> DEFINE answer == Head(plannerBox)
             m == [type |-> "PlanReady", result |-> Head(plannerBox).result,
                   snapshot |-> Head(plannerBox).snapshot]
  <2>1. plannerBox # <<>> /\ answer.type = "PlanComputed" /\ answer \in SoundPlannerMsg
    BY <1>1, <1>4, ReceiveType DEF PlannerReports, IsNext
  <2>2. supervisorBox' = Append(supervisorBox, m)
    BY <1>1, <1>4, LiveHeads DEF PlannerReports, Report, Send, IInv
  <2>3. CASE planTask' # {}
    BY <2>3 DEF Awake
  <2>4. CASE UNCHANGED planned
    <3>1. answer.snapshot = planned
      <4>1. 1 \in Positions(plannerBox, "PlanComputed") /\ plannerBox[1] = answer
        BY <1>1, <2>1, TailPositions DEF Positions
      <4> QED
        BY <1>1, <4>1 DEF AnswersPlanned
    <3>2. planned.facts \in State
      BY DEF IInv, TypeOK, PlannerOK, Snapshot
    <3>3. answer.result \in PlanResults[planned.facts]
      BY <2>1, <3>1 DEF SoundPlannerMsg
    <3>4. answer.result.kind = "steps"
      BY <2>4, <3>2, <3>3, OneKindOfAnswer DEF Steps
    <3>5. Runnable(m)
      BY <3>4 DEF Runnable
    <3> HIDE DEF m
    <3>6. Len(supervisorBox) + 1 \in DOMAIN supervisorBox' /\ supervisorBox'[Len(supervisorBox) + 1] = m
      BY <1>1, <2>2, AppendPositions
    <3> QED
      BY <3>5, <3>6 DEF HasRunnable, Awake
  <2> QED
    BY <1>4, <2>3, <2>4 DEF PlannerReports, SpawnPlan
<1>5. CASE PlannerWires
  <2>1. /\ plannerBox # <<>> /\ plannerBox' = Tail(plannerBox) /\ Head(plannerBox).type = "SetRef"
        /\ UNCHANGED <<planPending, planTask, planned, supervisorBox>>
    BY <1>5 DEF PlannerWires, Wire, IsNext, plannerVars
  <2>2. \A t \in {"PlanRequest", "PlanComputed"} : Has(plannerBox, t) => Has(plannerBox', t)
    BY <1>1, <2>1, TakenKeeps
  <2> QED
    BY <1>1, <2>1, <2>2 DEF Awake
<1>6. CASE PlannerStops
  BY <1>6, LiveHeads DEF PlannerStops, Halt, IInv
<1>7. CASE PlanReturns
  <2>1. PICK s \in planTask : \E r \in PlanResults[s.facts] :
           plannerBox' = Send(plannerBox, "planner",
              [type |-> "PlanComputed", result |-> r, snapshot |-> s])
    BY <1>7 DEF PlanReturns
  <2>2. PICK m : m.type = "PlanComputed" /\ plannerBox' = Append(plannerBox, m)
    BY <1>1, <2>1 DEF Send
  <2>3. Has(plannerBox', "PlanComputed")
    BY <1>1, <2>2, PostedIsLatest
  <2> QED
    BY <2>3 DEF Awake
<1> QED
  BY <1>2, <1>3, <1>4, <1>5, <1>6, <1>7 DEF PlannerStep

LEMMA SupervisorStaysAwake ==
    ASSUME TypeOK, Live, SupervisorStep, ~done', Awake
    PROVE  Awake'
<1>1. /\ UNCHANGED <<worldBox, planPending, planTask, actionTask>> /\ stopped = {}
      /\ plannerBox \in Seq(PlannerMsg) /\ executorBox \in Seq(ExecutorMsg)
      /\ supervisorBox \in Seq(SupervisorMsg)
      /\ ~IsNext(supervisorBox, "Stop")
  BY LiveHeads DEF SupervisorStep, SupervisorForwardsChange, SupervisorIgnoresPlan,
         SupervisorMeetsPlannerError, SupervisorHasNothingToRun, SupervisorDispatches,
         SupervisorTerminates, SupervisorWires, SupervisorStops, OutsideSupervisor,
         plannerVars, executorVars, Live, NobodyStops, TypeOK, BoxesOK
<1>2. CASE SupervisorForwardsChange
  <2>1. ~done
    BY <1>2 DEF SupervisorForwardsChange, supervisorVars
  <2>2. \E m : m.type = "PlanRequest" /\ plannerBox' = Append(plannerBox, m)
    <3>1. IsNext(supervisorBox, "StateChanged") /\ "StateChanged" # "SetRef"
      BY <1>2 DEF SupervisorForwardsChange
    <3>2. "supervisor.planners" \in wired
      BY <3>1, LiveHeads
    <3> QED
      BY <1>1, <1>2, <2>1, <3>2 DEF SupervisorForwardsChange, Send
  <2>3. Has(plannerBox', "PlanRequest")
    BY <1>1, <2>2, PostedIsLatest
  <2> QED
    BY <2>3 DEF Awake
<1>3. CASE SupervisorDispatches
  <2>1. \E m : m.type = "AdoptPlan" /\ executorBox' = Append(executorBox, m)
    <3>1. IsNext(supervisorBox, "PlanReady") /\ "PlanReady" # "SetRef"
      BY <1>3 DEF SupervisorDispatches
    <3>2. "supervisor.executor" \in wired
      BY <3>1, LiveHeads
    <3> QED
      BY <1>1, <1>3, <3>2 DEF SupervisorDispatches, Send
  <2>2. Has(executorBox', "AdoptPlan")
    BY <1>1, <2>1, PostedIsLatest
  <2> QED
    BY <2>2 DEF Awake
<1>4. CASE SupervisorTerminates \/ SupervisorMeetsPlannerError
  BY <1>4 DEF SupervisorTerminates, SupervisorMeetsPlannerError, Finish
<1>5. CASE SupervisorIgnoresPlan
  BY <1>5 DEF SupervisorIgnoresPlan, supervisorVars
<1>6. CASE SupervisorHasNothingToRun \/ SupervisorWires
  <2>1. /\ supervisorBox # <<>> /\ supervisorBox' = Tail(supervisorBox)
        /\ Head(supervisorBox).type \in {"PlanReady", "SetRef"}
        /\ ~Runnable(Head(supervisorBox))
        /\ UNCHANGED <<plannerBox, executorBox>>
    BY <1>6 DEF SupervisorHasNothingToRun, SupervisorWires, Wire, IsNext, Runnable
  <2>2. /\ \A t \in {"StateChanged", "Terminate"} : Has(supervisorBox, t) => Has(supervisorBox', t)
        /\ HasRunnable(supervisorBox) => HasRunnable(supervisorBox')
    BY <1>1, <2>1, TakenKeeps
  <2> QED
    BY <1>1, <2>1, <2>2 DEF Awake
<1> QED
  BY <1>1, <1>2, <1>3, <1>4, <1>5, <1>6 DEF SupervisorStep, SupervisorStops, Halt

LEMMA ExecutorStaysAwake ==
    ASSUME TypeOK, Live, OneActionInFlight, driver # "exited", ExecutorStep \/ ActionEnds, Awake
    PROVE  Awake'
<1>1. /\ UNCHANGED <<plannerBox, planPending, planTask>> /\ stopped = {}
      /\ worldBox \in Seq(WorldMsg) /\ executorBox \in Seq(ExecutorMsg)
      /\ supervisorBox \in Seq(SupervisorMsg)
      /\ ~IsNext(executorBox, "Stop")
  BY LiveHeads DEF ExecutorStep, ExecutorKeepsPlan, ExecutorHitsCap, ExecutorStartsAction,
         ExecutorMeetsError, ExecutorAppliesSuccess, ExecutorRecovers, ExecutorFails,
         TakeResult, ExecutorWires, ExecutorStops, ActionEnds, OutsideExecutor,
         plannerVars, Live, NobodyStops, TypeOK, BoxesOK
<1>2. ASSUME NEW o, "executor.supervisor" \in wired, Terminate(o)
      PROVE  Awake'
  <2>1. \E m : m.type = "Terminate" /\ supervisorBox' = Append(supervisorBox, m)
    BY <1>1, <1>2 DEF Terminate, Send
  <2>2. Has(supervisorBox', "Terminate")
    BY <1>1, <2>1, PostedIsLatest
  <2> QED
    BY <2>2 DEF Awake
<1>3. ASSUME NEW adds, NEW removes, "executor.world" \in wired, TellEffects(adds, removes)
      PROVE  Awake'
  <2>1. \E m : m.type = "ApplyActionEffects" /\ worldBox' = Append(worldBox, m)
    BY <1>1, <1>3 DEF TellEffects, Send
  <2>2. Has(worldBox', "ApplyActionEffects")
    BY <1>1, <2>1, PostedIsLatest
  <2> QED
    BY <2>2 DEF Awake
<1>4. \A r : TakeResult(r) => "executor.supervisor" \in wired /\ "executor.world" \in wired
  BY LiveHeads DEF TakeResult
<1>5. CASE ExecutorKeepsPlan
  <2>1. /\ executorBox # <<>> /\ executorBox' = Tail(executorBox)
        /\ Head(executorBox).type = "AdoptPlan" /\ execBusy /\ UNCHANGED actionTask
    BY <1>5 DEF ExecutorKeepsPlan, IsNext
  <2>2. actionTask # {} \/ Has(executorBox, "ActionFinished")
    BY <1>1, <2>1 DEF OneActionInFlight
  <2>3. Has(executorBox, "ActionFinished") => Has(executorBox', "ActionFinished")
    BY <1>1, <2>1, TakenKeeps
  <2> QED
    BY <2>1, <2>2, <2>3 DEF Awake
<1>6. CASE ExecutorHitsCap
  BY <1>2, <1>6, LiveHeads DEF ExecutorHitsCap
<1>7. CASE ExecutorStartsAction
  BY <1>7 DEF ExecutorStartsAction, Awake
<1>8. CASE ExecutorMeetsError \/ ExecutorFails
  BY <1>2, <1>4, <1>8 DEF ExecutorMeetsError, ExecutorFails
<1>9. CASE ExecutorAppliesSuccess \/ ExecutorRecovers
  BY <1>3, <1>4, <1>9 DEF ExecutorAppliesSuccess, ExecutorRecovers
<1>10. CASE ExecutorWires
  <2>1. /\ executorBox # <<>> /\ executorBox' = Tail(executorBox)
        /\ Head(executorBox).type = "SetRef"
        /\ UNCHANGED <<actionTask, worldBox, supervisorBox>>
    BY <1>10 DEF ExecutorWires, Wire, IsNext, executorVars
  <2>2. \A t \in {"AdoptPlan", "ActionFinished"} : Has(executorBox, t) => Has(executorBox', t)
    BY <1>1, <2>1, TakenKeeps
  <2> QED
    BY <1>1, <2>1, <2>2 DEF Awake
<1>11. CASE ActionEnds
  <2>1. PICK t \in actionTask : \E r \in CommandResults[t.action] :
           executorBox' = Send(executorBox, "executor",
              [type |-> "ActionFinished", action |-> t.action, result |-> r])
    BY <1>11 DEF ActionEnds
  <2>2. \E m : m.type = "ActionFinished" /\ executorBox' = Append(executorBox, m)
    BY <1>1, <2>1 DEF Send
  <2>3. Has(executorBox', "ActionFinished")
    BY <1>1, <2>2, PostedIsLatest
  <2> QED
    BY <2>3 DEF Awake
<1> QED
  BY <1>1, <1>5, <1>6, <1>7, <1>8, <1>9, <1>10, <1>11 DEF ExecutorStep, ExecutorStops, Halt

LEMMA StaysAwakeStep ==
    ASSUME IInv, LiveInv, AnswersPlanned, StaysAwake, [Next]_vars
    PROVE  StaysAwake'
<1>1. CASE UNCHANGED vars
  BY <1>1 DEF vars, boxes, driverVars, plannerVars, supervisorVars, executorVars, worldVars,
         StaysAwake, Planning, Steps, Awake, Has, HasRunnable
<1>2. CASE Next /\ ~UNCHANGED vars
  <2> SUFFICES ASSUME Planning', Steps(planned') PROVE Awake'
    BY DEF StaysAwake
  <2>1. /\ driver = "select" /\ Live /\ ~DriverStep /\ ~Interrupt
        /\ (Steps(planned) => Awake) \/ WorldBootstraps
    BY <1>2, PlanningStep DEF StaysAwake
  <2>2. TypeOK /\ OneActionInFlight /\ ~done'
    BY DEF IInv, Planning
  <2>3. CASE WorldStep
    <3>1. UNCHANGED planned
      BY <2>3 DEF WorldStep, WorldAppliesReading, WorldAppliesActionEffects, WorldBootstraps,
         WorldWires, WorldStops, OutsideWorld, plannerVars
    <3> QED
      BY <2>1, <2>2, <2>3, <3>1, WorldStaysAwake
  <2>4. CASE WorldBootstraps
    BY <2>3, <2>4 DEF WorldStep
  <2>5. CASE ~WorldBootstraps /\ (PlannerStep \/ PlanReturns)
    BY <2>1, <2>5, PlannerStaysAwake
  <2>6. CASE ~WorldBootstraps /\ SupervisorStep
    <3>1. UNCHANGED planned
      BY <2>6 DEF SupervisorStep, SupervisorForwardsChange, SupervisorIgnoresPlan,
         SupervisorMeetsPlannerError, SupervisorHasNothingToRun, SupervisorDispatches,
         SupervisorTerminates, SupervisorWires, SupervisorStops, OutsideSupervisor, plannerVars
    <3> QED
      BY <2>1, <2>2, <2>6, <3>1, SupervisorStaysAwake
  <2>7. CASE ~WorldBootstraps /\ (ExecutorStep \/ ActionEnds)
    <3>1. UNCHANGED planned
      BY <2>7 DEF ExecutorStep, ExecutorKeepsPlan, ExecutorHitsCap, ExecutorStartsAction,
         ExecutorMeetsError, ExecutorAppliesSuccess, ExecutorRecovers, ExecutorFails,
         TakeResult, ExecutorWires, ExecutorStops, ActionEnds, OutsideExecutor, plannerVars
    <3> QED
      BY <2>1, <2>2, <2>7, <3>1, ExecutorStaysAwake
  <2>8. ASSUME ~WorldBootstraps, NEW n \in Sensor, SensorStep(n)
        PROVE  Awake'
    <3>1. /\ UNCHANGED <<planned, planPending, planTask, actionTask, plannerBox, executorBox, supervisorBox>>
          /\ Grown(worldBox, worldBox')
      BY <2>8 DEF SensorStep, SensorReports, SensorSkips, SensorStops, OutsideSensors, vars,
             boxes, plannerVars, executorVars, Send, Grown
    <3>2. Has(worldBox, "ApplyActionEffects") => Has(worldBox', "ApplyActionEffects")
      BY <2>2, <3>1, GrownKeeps DEF TypeOK, BoxesOK
    <3> QED
      BY <2>1, <2>8, <3>1, <3>2 DEF Awake
  <2> QED
    BY <1>2, <2>1, <2>3, <2>4, <2>5, <2>6, <2>7, <2>8 DEF Next, Terminated
<1> QED
  BY <1>1, <1>2

(* The runtime never comes to rest with work left: when nothing is under    *)
(* way the present world has been planned, and there was nothing to do.     *)
THEOREM RestsOnlyWhenDone == Spec => []NeverIdleWithWorkLeft
<1>1. IInv /\ LiveInv /\ OnePlanInFlight /\ NoLostUpdate /\ StaysAwake => NeverIdleWithWorkLeft
  <2> SUFFICES ASSUME IInv, LiveInv, OnePlanInFlight, NoLostUpdate, StaysAwake, Planning, Idle, WorkLeft
               PROVE  FALSE
    BY DEF NeverIdleWithWorkLeft
  <2>1. \A t : /\ ~Has(worldBox, t) /\ ~Has(supervisorBox, t)
               /\ ~Has(plannerBox, t) /\ ~Has(executorBox, t)
    BY DEF Idle, Has
  <2>2. ~HasRunnable(supervisorBox) /\ planTask = {} /\ actionTask = {}
    BY DEF Idle, HasRunnable
  <2>3. planPending = {}
    <3>1. "planner" \notin stopped
      BY DEF IInv, Deciding, Planning, LiveInv, Live, NobodyStops
    <3> QED
      BY <2>1, <2>2, <3>1 DEF OnePlanInFlight, Planning
  <2>4. \A t, w : ~LatestIs(supervisorBox, t, w) /\ ~LatestIs(plannerBox, t, w)
    BY <2>1, HasPosition DEF LatestIs
  <2>5. planned = world
    BY <2>1, <2>3, <2>4 DEF NoLostUpdate
  <2>6. Steps(planned)
    BY <2>5 DEF WorkLeft, Steps
  <2> QED
    BY <2>1, <2>2, <2>3, <2>6 DEF StaysAwake, Awake
<1>2. Init => AnswersPlanned /\ StaysAwake
  BY DEF Init, AnswersPlanned, StaysAwake, Planning, Positions
<1> QED
  BY <1>1, <1>2, AnswersStep, StaysAwakeStep, IInvCorrect, LiveCorrect, OnePlanAtATime,
     UpdatesAreNeverLost, PTL DEF Spec

-----------------------------------------------------------------------------
(* A captured value is kept only with its fact.                            *)

(* Every capturing sensor sets, or removes, the fact of its own name when   *)
(* it succeeds: the default, and any on_success that names it.              *)
CapturesOwnFact ==
    \A n \in Sensor : SensorSpec[n].capture =>
        \A e \in SensorSpec[n].onSuccess : n \in e.add \cup e.remove

SoundReading ==
    {r \in Reading : r.captured # {} => r.sensor \in r.added \cup r.removed}

SoundWorldMsg == {m \in WorldMsg : m.type = "ApplyReading" => m.reading \in SoundReading}

ValuesInv == worldBox \in Seq(SoundWorldMsg) /\ ValuesHaveFacts

LEMMA ReadingsAreSound ==
    ASSUME CapturesOwnFact, NEW n \in Sensor
    PROVE  ReadSensor(n) \subseteq SoundReading
<1> SUFFICES ASSUME NEW success \in BOOLEAN, NEW c \in Captures(n, success), c # {}
             PROVE  n \in EffectsFor(n, success).add \cup EffectsFor(n, success).remove
  BY ReadSensorType DEF ReadSensor, ReadingOf, SoundReading
<1> DEFINE declared == SensorSpec[n].onSuccess
           chosen == CHOOSE e \in declared : TRUE
<1>1. success /\ SensorSpec[n].capture
  BY DEF Captures
<1>2. declared # {} => chosen \in declared
  OBVIOUS
<1>3. EffectsFor(n, success) = IF declared = {} THEN [add |-> {n}, remove |-> {}] ELSE chosen
  BY <1>1 DEF EffectsFor
<1>4. \A e \in declared : n \in e.add \cup e.remove
  BY <1>1 DEF CapturesOwnFact
<1> HIDE DEF declared, chosen
<1> QED
  BY <1>2, <1>3, <1>4

LEMMA ReadingKeepsValues ==
    ASSUME NEW w \in Snapshot, NEW r \in SoundReading,
           \A n \in Sensor : w.values[n] # {} => n \in w.facts,
           NEW n \in Sensor, ApplyReading(w, r).values[n] # {}
    PROVE  n \in ApplyReading(w, r).facts
<1> DEFINE kept == [i \in Sensor |-> IF i \in r.removed THEN {}
                                     ELSE IF i = r.sensor /\ r.captured # {}
                                          THEN r.captured ELSE w.values[i]]
<1>1. /\ ApplyReading(w, r).values = kept
      /\ ApplyReading(w, r).facts = (w.facts \cup r.added) \ r.removed
  BY DEF ApplyReading, Snapshot
<1>2. n \notin r.removed /\ ((n = r.sensor /\ r.captured # {}) \/ w.values[n] # {})
  BY <1>1
<1> QED
  BY <1>1, <1>2 DEF SoundReading

LEMMA EffectsKeepValues ==
    ASSUME NEW w \in Snapshot, NEW adds, NEW removes,
           \A n \in Sensor : w.values[n] # {} => n \in w.facts,
           NEW n \in Sensor, ApplyEffects(w, adds, removes).values[n] # {}
    PROVE  n \in ApplyEffects(w, adds, removes).facts
  BY DEF ApplyEffects

LEMMA ValuesStep ==
    ASSUME CapturesOwnFact, TypeOK, ValuesInv, [Next]_vars
    PROVE  ValuesInv'
<1> USE DEF ValuesInv
<1>1. worldBox # <<>> => Head(worldBox) \in SoundWorldMsg /\ Tail(worldBox) \in Seq(SoundWorldMsg)
  BY ReceiveType
<1>2. world \in Snapshot
  BY DEF TypeOK
<1>3. ASSUME UNCHANGED world, worldBox' \in Seq(SoundWorldMsg) PROVE ValuesInv'
  BY <1>3 DEF ValuesHaveFacts
<1>4. CASE WorldAppliesReading
  <2>1. Head(worldBox).reading \in SoundReading /\ worldBox' = Tail(worldBox) /\ worldBox # <<>>
    BY <1>1, <1>4 DEF WorldAppliesReading, IsNext, SoundWorldMsg
  <2>2. \A n \in Sensor : ApplyReading(world, Head(worldBox).reading).values[n] # {}
                             => n \in ApplyReading(world, Head(worldBox).reading).facts
    BY <1>2, <2>1, ReadingKeepsValues DEF ValuesHaveFacts
  <2> QED
    BY <1>1, <1>4, <2>1, <2>2 DEF WorldAppliesReading, ValuesHaveFacts
<1>5. CASE WorldAppliesActionEffects
  <2>1. worldBox' = Tail(worldBox) /\ worldBox # <<>>
    BY <1>5 DEF WorldAppliesActionEffects, IsNext
  <2>2. \A n \in Sensor :
           ApplyEffects(world, Head(worldBox).adds, Head(worldBox).removes).values[n] # {}
              => n \in ApplyEffects(world, Head(worldBox).adds, Head(worldBox).removes).facts
    BY <1>2, EffectsKeepValues DEF ValuesHaveFacts
  <2> QED
    BY <1>1, <1>5, <2>1, <2>2 DEF WorldAppliesActionEffects, ValuesHaveFacts
<1>6. CASE WorldBootstraps \/ WorldWires \/ WorldStops
  <2>1. UNCHANGED world
    BY <1>6 DEF WorldBootstraps, WorldWires, WorldStops, Wire, worldVars, OutsideWorld, boxes
  <2>2. CASE WorldBootstraps
    BY <1>1, <1>3, <2>1, <2>2 DEF WorldBootstraps, IsNext
  <2>3. CASE WorldWires
    BY <1>1, <1>3, <2>1, <2>3 DEF WorldWires, Wire, IsNext
  <2>4. CASE WorldStops
    BY <1>3, <2>1, <2>4 DEF WorldStops, Halt
  <2> QED
    BY <1>6, <2>2, <2>3, <2>4
<1>7. CASE PlannerStep \/ PlanReturns \/ SupervisorStep
  BY <1>3, <1>7 DEF PlannerStep, PlannerStartsPlan, PlannerCoalesces, PlannerReports, PlannerWires,
         PlannerStops, PlanReturns, OutsidePlanner, SupervisorStep, SupervisorForwardsChange,
         SupervisorIgnoresPlan, SupervisorMeetsPlannerError, SupervisorHasNothingToRun,
         SupervisorDispatches, SupervisorTerminates, SupervisorWires, SupervisorStops,
         OutsideSupervisor, worldVars
<1>8. CASE ExecutorStep \/ ActionEnds
  <2>1. UNCHANGED world
    BY <1>8 DEF ExecutorStep, ExecutorKeepsPlan, ExecutorHitsCap, ExecutorStartsAction,
         ExecutorMeetsError, ExecutorAppliesSuccess, ExecutorRecovers, ExecutorFails,
         TakeResult, ExecutorWires, ExecutorStops, ActionEnds, OutsideExecutor, worldVars
  <2>2. ASSUME NEW adds \in SUBSET Fact, NEW removes \in SUBSET Fact, TellEffects(adds, removes)
        PROVE  worldBox' \in Seq(SoundWorldMsg)
    <3>1. [type |-> "ApplyActionEffects", adds |-> adds, removes |-> removes] \in SoundWorldMsg
      BY DEF SoundWorldMsg, WorldMsg
    <3> QED
      BY <2>2, <3>1, SendType DEF TellEffects
  <2>3. \A a \in Action : /\ Library[a].adds \subseteq Fact
                          /\ Library[a].removes \subseteq Fact
                          /\ Library[a].onFailure \subseteq Effects
    BY LibraryAssumption DEF ActionSpec, Option
  <2>4. ASSUME NEW r, TakeResult(r) PROVE Head(executorBox).action \in Action
    BY <2>4, ReceiveType, ExecutorMessageFields DEF TakeResult, IsNext, TypeOK, BoxesOK
  <2>5. CASE ExecutorAppliesSuccess
    <3> DEFINE spec == Library[Head(executorBox).action]
    <3>1. spec.adds \in SUBSET Fact /\ spec.removes \in SUBSET Fact
          /\ TellEffects(spec.adds, spec.removes)
      BY <2>3, <2>4, <2>5 DEF ExecutorAppliesSuccess
    <3> QED
      BY <1>3, <2>1, <2>2, <3>1
  <2>6. CASE ExecutorRecovers
    <3>1. PICK e \in Library[Head(executorBox).action].onFailure : TellEffects(e.add, e.remove)
      BY <2>6 DEF ExecutorRecovers
    <3>2. e.add \in SUBSET Fact /\ e.remove \in SUBSET Fact
      BY <2>3, <2>4, <2>6, <3>1 DEF ExecutorRecovers, Effects
    <3> QED
      BY <1>3, <2>1, <2>2, <3>1, <3>2
  <2>7. CASE ~ExecutorAppliesSuccess /\ ~ExecutorRecovers
    BY <1>3, <1>8, <2>1, <2>7 DEF ExecutorStep, ExecutorKeepsPlan, ExecutorHitsCap,
         ExecutorStartsAction, ExecutorMeetsError, ExecutorFails, ExecutorWires, ExecutorStops,
         ActionEnds
  <2> QED
    BY <2>5, <2>6, <2>7
<1>9. ASSUME NEW n \in Sensor, SensorStep(n) PROVE ValuesInv'
  <2>1. CASE SensorReports(n)
    <3>1. PICK r \in ReadSensor(n) :
             worldBox' = Send(worldBox, "world", [type |-> "ApplyReading", reading |-> r])
      BY <2>1 DEF SensorReports
    <3>2. r \in SoundReading
      BY <3>1, ReadingsAreSound
    <3>3. [type |-> "ApplyReading", reading |-> r] \in SoundWorldMsg
      BY <3>2 DEF SoundWorldMsg, SoundReading, WorldMsg
    <3> QED
      BY <1>3, <2>1, <3>1, <3>3, SendType DEF SensorReports, OutsideSensors, worldVars
  <2>2. CASE SensorSkips(n) \/ SensorStops(n)
    BY <1>3, <2>2 DEF SensorSkips, SensorStops, OutsideSensors, worldVars, vars, boxes
  <2> QED
    BY <1>9, <2>1, <2>2 DEF SensorStep
<1>10. CASE Sweep
  <2>1. UNCHANGED worldBox
    BY <1>10 DEF Sweep, boxes
  <2>2. CASE \E r \in ReadSensor(SweepOrder[at]) : world' = ApplyReading(world, r)
    <3>1. SweepOrder[at] \in Sensor
      BY <1>10, SensingAssumption DEF Sweep, TypeOK, DriverOK
    <3>2. PICK r \in ReadSensor(SweepOrder[at]) : world' = ApplyReading(world, r)
      BY <2>2
    <3>3. r \in SoundReading
      BY <3>1, <3>2, ReadingsAreSound
    <3>4. \A n \in Sensor : ApplyReading(world, r).values[n] # {} => n \in ApplyReading(world, r).facts
      BY <1>2, <3>3, ReadingKeepsValues DEF ValuesHaveFacts
    <3> QED
      BY <2>1, <3>2, <3>4 DEF ValuesHaveFacts
  <2> QED
    BY <1>3, <1>10, <2>1, <2>2 DEF Sweep
<1>11. ASSUME NEW m \in SetRef \cup Stop \cup [type : {"Bootstrap"}], NEW actor, Post(actor, m)
       PROVE  worldBox' \in Seq(SoundWorldMsg)
  <2>1. m \in SoundWorldMsg
    BY DEF SoundWorldMsg, WorldMsg, SetRef, Stop
  <2> QED
    BY <1>11, <2>1, SendType DEF Post
<1>12. CASE WireNext
  <2>1. [type |-> "SetRef", ref |-> Wiring[at].ref] \in SetRef
    BY <1>12, WiringType DEF WireNext, SetRef, TypeOK, DriverOK
  <2> QED
    BY <1>3, <1>11, <1>12, <2>1 DEF WireNext, worldVars
<1>13. CASE BootstrapWorld \/ StopNext
  BY <1>3, <1>11, <1>13 DEF BootstrapWorld, StopNext, Stop, worldVars
<1>14. CASE Exit
  BY <1>3, <1>14 DEF Exit, worldVars
<1>15. CASE Interrupt \/ (DriverStep /\ ~Sweep /\ ~WireNext /\ ~BootstrapWorld /\ ~StopNext /\ ~Exit)
  BY <1>3, <1>15 DEF DriverStep, SweepEnds, StartSensors, TakeOutcome, Interrupt, StopSensors,
         worldVars, boxes
<1>16. CASE UNCHANGED vars
  BY <1>3, <1>16 DEF vars, worldVars, boxes
<1> QED
  BY <1>4, <1>5, <1>6, <1>7, <1>8, <1>9, <1>10, <1>12, <1>13, <1>14, <1>15, <1>16
     DEF Next, WorldStep, Terminated

(* Where every capturing sensor owns the fact of its name, no value outlives *)
(* its fact.  The run RenamedFact shows that the hypothesis is needed.       *)
THEOREM ValuesKeepTheirFacts ==
    ASSUME CapturesOwnFact
    PROVE  Spec => []ValuesHaveFacts
<1>1. Init => ValuesInv
  BY DEF Init, ValuesInv, ValuesHaveFacts
<1>2. TypeOK /\ ValuesInv /\ [Next]_vars => ValuesInv'
  BY ValuesStep
<1>3. ValuesInv => ValuesHaveFacts
  BY DEF ValuesInv
<1> QED
  BY <1>1, <1>2, <1>3, TypeCorrect, PTL DEF Spec

-----------------------------------------------------------------------------
(* While no sensor reports, the loop has one turn: one message or task at a *)
(* time carries the run on, and what it carries is up to date.              *)

(* What keeps the loop turning, where it waits. *)
TurnTypes(p) ==
    IF p = "world" THEN {"Bootstrap", "ApplyActionEffects", "ApplyReading"}
    ELSE IF p = "supervisor" THEN {"StateChanged", "PlanReady"}
    ELSE IF p = "planner" THEN {"PlanRequest", "PlanComputed"}
    ELSE {"AdoptPlan", "ActionFinished"}

Place == Actor \cup {"plan", "action"}

Carries(box, types) == {i \in DOMAIN box : box[i].type \in types}

Turn(p) == IF p = "plan" THEN planTask
           ELSE IF p = "action" THEN actionTask
           ELSE Carries(Mail(p), TurnTypes(p))

Carrier(p, x) == IF p \in Actor THEN Mail(p)[x] ELSE x

Single(S) == \A x, y \in S : x = y

(* The effects of all executed actions are in the world, or on their way,  *)
(* and the snapshot carried has seen them.                                 *)
UpToDate(p, m) ==
    /\ p = "world" =>
          /\ m.type # "ApplyReading"
          /\ executed = world.epoch + (IF m.type = "Bootstrap" THEN 0 ELSE 1)
    /\ p # "world" => executed = world.epoch
    /\ \/ p \in {"supervisor", "planner", "action"}
       \/ p = "executor" /\ m.type = "AdoptPlan"
       => m.snapshot.epoch = executed
    /\ p = "plan" => m.epoch = executed

BeforeBootstrap == driver \in {"sweep", "wire", "sense", "bootstrap"}

OneTurn == /\ \A p \in Place : Single(Turn(p))
           /\ \A p, q \in Place : Turn(p) # {} /\ Turn(q) # {} => p = q

TurnInv ==
    /\ OneTurn
    /\ \A p \in Place : \A x \in Turn(p) : UpToDate(p, Carrier(p, x))
    /\ planPending = {}
    /\ BeforeBootstrap => executed = world.epoch /\ \A p \in Place : Turn(p) = {}
    /\ planBusy =>
          /\ ~BeforeBootstrap
          /\ \A p \in {"world", "supervisor", "executor", "action"} : Turn(p) = {}
          /\ ~Has(plannerBox, "PlanRequest")

(* What may happen to a mailbox, or a task, while no turn reaches it. *)
NoTurnAdded(box, next, types) ==
    \/ next = box \/ next = <<>>
    \/ box # <<>> /\ next = Tail(box)
    \/ \E m : m.type \notin types /\ next = Append(box, m)

Stays(p) == IF p \in Actor THEN NoTurnAdded(Mail(p), Mail(p)', TurnTypes(p))
            ELSE Turn(p)' \subseteq Turn(p)

LEMMA TurnStays ==
    ASSUME TypeOK, NEW p \in Place, Stays(p)
    PROVE  /\ \A x \in Turn(p)' : \E y \in Turn(p) : Carrier(p, x)' = Carrier(p, y)
           /\ Single(Turn(p)) => Single(Turn(p)')
<1>1. CASE p \notin Actor
  BY <1>1 DEF Stays, Carrier, Single
<1>2. CASE p \in Actor
  <2> DEFINE box == Mail(p)
             next == Mail(p)'
  <2>1. box \in Seq(Message)
    BY <1>2, MailType
  <2>2. /\ Turn(p) = Carries(box, TurnTypes(p)) /\ Turn(p)' = Carries(next, TurnTypes(p))
        /\ \A x : Carrier(p, x) = box[x] /\ Carrier(p, x)' = next[x]
    BY <1>2 DEF Turn, Carrier, Actor, TurnTypes
  <2> SUFFICES /\ \A x \in Carries(next, TurnTypes(p)) :
                     \E y \in Carries(box, TurnTypes(p)) : next[x] = box[y]
               /\ Single(Carries(box, TurnTypes(p))) => Single(Carries(next, TurnTypes(p)))
    BY <2>2
  <2>3. CASE next = box
    BY <2>3
  <2>4. CASE next = <<>>
    BY <2>4 DEF Carries, Single
  <2>5. CASE box # <<>> /\ next = Tail(box)
    <3>1. /\ DOMAIN next \subseteq Int
          /\ \A i \in DOMAIN next : i + 1 \in DOMAIN box /\ next[i] = box[i + 1]
      BY <2>1, <2>5, TailPositions
    <3>2. \A i \in Carries(next, TurnTypes(p)) :
             i \in Int /\ i + 1 \in Carries(box, TurnTypes(p)) /\ next[i] = box[i + 1]
      BY <3>1 DEF Carries
    <3> HIDE DEF box, next
    <3> QED
      BY <3>2 DEF Single
  <2>6. CASE \E m : m.type \notin TurnTypes(p) /\ next = Append(box, m)
    <3>1. /\ \A i \in DOMAIN next : i \in DOMAIN box \/ next[i].type \notin TurnTypes(p)
          /\ \A i \in DOMAIN box : next[i] = box[i]
      BY <2>1, <2>6, AppendPositions
    <3>2. \A i \in Carries(next, TurnTypes(p)) :
             i \in Carries(box, TurnTypes(p)) /\ next[i] = box[i]
      BY <3>1 DEF Carries
    <3> HIDE DEF box, next
    <3> QED
      BY <3>2 DEF Single
  <2> QED
    BY <1>2, <2>3, <2>4, <2>5, <2>6 DEF Stays, NoTurnAdded
<1> QED
  BY <1>1, <1>2

(* A mailbox whose turn is taken has none left. *)
LEMMA TurnTaken ==
    ASSUME TypeOK, NEW p \in Actor, Single(Turn(p)), Mail(p) # <<>>,
           Head(Mail(p)).type \in TurnTypes(p)
    PROVE  /\ 1 \in Turn(p) /\ Carrier(p, 1) = Head(Mail(p))
           /\ Mail(p)' = Tail(Mail(p)) => Turn(p)' = {}
<1> DEFINE box == Mail(p)
<1>1. box \in Seq(Message)
  BY MailType
<1>2. /\ Turn(p) = Carries(box, TurnTypes(p)) /\ Turn(p)' = Carries(Mail(p)', TurnTypes(p))
      /\ \A x : Carrier(p, x) = box[x]
  BY DEF Turn, Carrier, Actor, TurnTypes
<1>3. /\ 1 \in DOMAIN box /\ box[1] = Head(box) /\ DOMAIN Tail(box) \subseteq Nat \ {0}
      /\ \A i \in DOMAIN Tail(box) : i + 1 \in DOMAIN box /\ Tail(box)[i] = box[i + 1]
  BY <1>1, TailPositions
<1> HIDE DEF box
<1>4. 1 \in Carries(box, TurnTypes(p))
  BY <1>3 DEF Carries, box
<1>5. \A i \in Carries(Tail(box), TurnTypes(p)) :
         i \in Nat \ {0} /\ i + 1 \in Carries(box, TurnTypes(p))
  BY <1>3 DEF Carries
<1>6. Carries(Tail(box), TurnTypes(p)) = {}
  BY <1>2, <1>4, <1>5 DEF Single
<1> QED
  BY <1>2, <1>3, <1>4, <1>6 DEF box

(* A mailbox that gets the turn has no other. *)
LEMMA TurnHanded ==
    ASSUME TypeOK, NEW p \in Actor, Turn(p) = {}, NEW m,
           Mail(p)' = Mail(p) \/ Mail(p)' = Append(Mail(p), m)
    PROVE  /\ Single(Turn(p)')
           /\ \A x \in Turn(p)' : Carrier(p, x)' = m
<1> DEFINE box == Mail(p)
           next == Mail(p)'
<1>1. box \in Seq(Message)
  BY MailType
<1>2. /\ Turn(p) = Carries(box, TurnTypes(p)) /\ Turn(p)' = Carries(next, TurnTypes(p))
      /\ \A x : Carrier(p, x)' = next[x]
  BY DEF Turn, Carrier, Actor, TurnTypes
<1>3. CASE next = box
  BY <1>2, <1>3 DEF Single
<1>4. CASE next = Append(box, m)
  <2>1. /\ \A i \in DOMAIN next : i \in DOMAIN box \/ i = Len(box) + 1
        /\ \A i \in DOMAIN box : next[i] = box[i]
        /\ next[Len(box) + 1] = m
    BY <1>1, <1>4, AppendPositions
  <2> HIDE DEF box, next
  <2>2. \A i \in Carries(next, TurnTypes(p)) : i = Len(box) + 1
    BY <1>2, <2>1 DEF Carries
  <2> QED
    BY <1>2, <2>1, <2>2 DEF Single
<1> QED
  BY <1>3, <1>4

(* Who has the turn has it alone. *)
LEMMA TurnAlone ==
    ASSUME TurnInv, NEW p \in Place, Turn(p) # {}
    PROVE  \A q \in Place \ {p} : Turn(q) = {}
  BY DEF TurnInv, OneTurn

(* A step in which no turn is taken up. *)
LEMMA StaysKeepTurn ==
    ASSUME TypeOK, TurnInv, \A p \in Place : Stays(p),
           UNCHANGED <<executed, planPending>>, world'.epoch = world.epoch,
           BeforeBootstrap' => BeforeBootstrap, planBusy' => planBusy
    PROVE  TurnInv'
<1>1. \A p \in Place : /\ \A x \in Turn(p)' : \E y \in Turn(p) : Carrier(p, x)' = Carrier(p, y)
                       /\ Single(Turn(p)) => Single(Turn(p)')
  BY TurnStays
<1>2. \A p \in Place : Turn(p) = {} => Turn(p)' = {}
  BY <1>1
<1>3. OneTurn'
  BY <1>1, <1>2 DEF TurnInv, OneTurn
<1>4. \A p \in Place : \A x \in Turn(p)' : UpToDate(p, Carrier(p, x))'
  <2> SUFFICES ASSUME NEW p \in Place, NEW x \in Turn(p)'
               PROVE  UpToDate(p, Carrier(p, x))'
    OBVIOUS
  <2>1. PICK y \in Turn(p) : Carrier(p, x)' = Carrier(p, y)
    BY <1>1
  <2>2. UpToDate(p, Carrier(p, y))
    BY DEF TurnInv
  <2> QED
    BY <2>1, <2>2 DEF UpToDate
<1>5. planBusy' => ~Has(plannerBox, "PlanRequest")' /\ ~BeforeBootstrap'
  <2> SUFFICES ASSUME planBusy' PROVE ~Has(plannerBox, "PlanRequest")'
    BY DEF TurnInv
  <2>1. ~Has(plannerBox, "PlanRequest")
    BY DEF TurnInv
  <2>2. "planner" \in Actor /\ "planner" \in Place /\ Mail("planner") = plannerBox
        /\ Mail("planner")' = plannerBox'
    BY DEF Actor, Place, Mail
  <2>3. \A x \in DOMAIN plannerBox' : plannerBox'[x].type = "PlanRequest" => x \in Turn("planner")'
    BY <2>2 DEF Turn, Carries, TurnTypes
  <2>4. \A y \in Turn("planner") : Carrier("planner", y).type # "PlanRequest"
    BY <2>1, <2>2 DEF Turn, Carries, Carrier, Has
  <2>5. \A x : Carrier("planner", x)' = plannerBox'[x]
    BY <2>2 DEF Carrier
  <2> QED
    BY <1>1, <2>2, <2>3, <2>4, <2>5 DEF Has
<1>6. {"world", "supervisor", "executor", "action"} \subseteq Place
  BY DEF Place, Actor
<1> QED
  BY <1>2, <1>3, <1>4, <1>5, <1>6 DEF TurnInv

(* A step that hands the turn to p, or drops it. *)
LEMMA PassingKeepsTurn ==
    ASSUME NEW p \in Place, \A q \in Place \ {p} : Turn(q)' = {},
           Single(Turn(p)'), \A x \in Turn(p)' : UpToDate(p, Carrier(p, x))',
           planPending' = {}, ~BeforeBootstrap',
           planBusy' => p \in {"plan", "planner"} /\ ~Has(plannerBox', "PlanRequest")
    PROVE  TurnInv'
<1>1. OneTurn'
  BY DEF OneTurn, Single
<1>2. \A q \in Place : \A x \in Turn(q)' : UpToDate(q, Carrier(q, x))'
  BY Zenon
<1>3. planBusy' => \A q \in {"world", "supervisor", "executor", "action"} : Turn(q)' = {}
  BY DEF Place, Actor
<1>4. planBusy' => ~Has(plannerBox, "PlanRequest")'
  BY DEF Has
<1> QED
  BY <1>1, <1>2, <1>3, <1>4 DEF TurnInv

LEMMA PlacesApart ==
    /\ Actor = {"world", "supervisor", "planner", "executor"}
    /\ Place = {"world", "supervisor", "planner", "executor", "plan", "action"}
    /\ Mail("world") = worldBox /\ Mail("supervisor") = supervisorBox
    /\ Mail("planner") = plannerBox /\ Mail("executor") = executorBox
    /\ Turn("plan") = planTask /\ Turn("action") = actionTask
    /\ Mail("world")' = worldBox' /\ Mail("supervisor")' = supervisorBox'
    /\ Mail("planner")' = plannerBox' /\ Mail("executor")' = executorBox'
    /\ Turn("plan")' = planTask' /\ Turn("action")' = actionTask'
  BY DEF Actor, Place, Mail, Turn

LEMMA SameTurn ==
    ASSUME NEW p \in Actor, Mail(p)' = Mail(p)
    PROVE  Turn(p)' = Turn(p)
  BY DEF Turn, Carries, Actor, TurnTypes

LEMMA AllStay ==
    ASSUME NoTurnAdded(worldBox, worldBox', TurnTypes("world")),
           NoTurnAdded(supervisorBox, supervisorBox', TurnTypes("supervisor")),
           NoTurnAdded(plannerBox, plannerBox', TurnTypes("planner")),
           NoTurnAdded(executorBox, executorBox', TurnTypes("executor")),
           planTask' \subseteq planTask, actionTask' \subseteq actionTask
    PROVE  \A p \in Place : Stays(p)
  BY PlacesApart DEF Stays

(* Whoever takes up the turn is alone and finds what it carries up to date. *)
LEMMA TurnHead ==
    ASSUME TypeOK, TurnInv, NEW p \in Actor, Mail(p) # <<>>,
           Head(Mail(p)).type \in TurnTypes(p)
    PROVE  /\ UpToDate(p, Head(Mail(p)))
           /\ \A q \in Place \ {p} : Turn(q) = {}
           /\ ~BeforeBootstrap
           /\ p # "planner" => ~planBusy
           /\ Mail(p)' = Tail(Mail(p)) => Turn(p)' = {}
<1>1. p \in Place /\ Single(Turn(p))
  BY DEF Place, TurnInv, OneTurn
<1>2. /\ 1 \in Turn(p) /\ Carrier(p, 1) = Head(Mail(p))
      /\ Mail(p)' = Tail(Mail(p)) => Turn(p)' = {}
  BY <1>1, TurnTaken
<1>3. UpToDate(p, Head(Mail(p))) /\ ~BeforeBootstrap
  BY <1>1, <1>2 DEF TurnInv
<1>4. p # "planner" => ~planBusy
  BY <1>2 DEF TurnInv, Actor
<1> QED
  BY <1>1, <1>2, <1>3, <1>4, TurnAlone

(* The turn passes from one place, where it was, to another. *)
LEMMA TurnPasses ==
    ASSUME TypeOK, TurnInv, NEW to \in Place, NEW m,
           \A q \in Place \ {to} : Turn(q)' = {}, Turn(to) = {},
           IF to \in Actor THEN Mail(to)' \in {Mail(to), Append(Mail(to), m)}
                           ELSE Turn(to)' \subseteq {m},
           Turn(to)' # {} => UpToDate(to, m)',
           planPending' = {}, ~BeforeBootstrap, driver' = driver,
           planBusy' => to = "plan" \/ (to = "planner" /\ m.type = "PlanComputed")
    PROVE  TurnInv'
<1>1. Single(Turn(to)') /\ \A x \in Turn(to)' : Carrier(to, x)' = m
  <2>1. CASE to \in Actor
    BY <2>1, TurnHanded
  <2>2. CASE to \notin Actor
    BY <2>2 DEF Single, Carrier
  <2> QED
    BY <2>1, <2>2
<1>2. \A x \in Turn(to)' : UpToDate(to, Carrier(to, x))'
  BY <1>1 DEF UpToDate
<1>3. planBusy' => ~Has(plannerBox', "PlanRequest")
  <2> SUFFICES ASSUME planBusy' PROVE ~Has(plannerBox', "PlanRequest")
    OBVIOUS
  <2>1. \A x \in DOMAIN plannerBox' : plannerBox'[x].type = "PlanRequest" => x \in Turn("planner")'
    BY PlacesApart DEF Turn, Carries, TurnTypes
  <2>2. \A x : Carrier("planner", x)' = plannerBox'[x]
    BY PlacesApart DEF Carrier
  <2> QED
    BY <1>1, <2>1, <2>2, PlacesApart DEF Has
<1>4. ~BeforeBootstrap'
  BY DEF BeforeBootstrap
<1> QED
  BY <1>1, <1>2, <1>3, <1>4, PassingKeepsTurn

LEMMA WorldKeepsTurn ==
    ASSUME TypeOK, TurnInv, WorldStep
    PROVE  TurnInv'
<1> USE PlacesApart
<1>1. UNCHANGED <<plannerVars, executorVars, driverVars, plannerBox, executorBox>>
  BY DEF WorldStep, WorldAppliesReading, WorldAppliesActionEffects, WorldBootstraps,
         WorldWires, WorldStops, OutsideWorld
<1>2. world.epoch \in Nat /\ executed \in Nat
  BY DEF TypeOK, Snapshot, ExecutorOK
<1>3. ASSUME NEW types \in {"ApplyReading", "ApplyActionEffects", "Bootstrap"},
             IsNext(worldBox, types), worldBox' = Tail(worldBox)
      PROVE  /\ UpToDate("world", Head(worldBox)) /\ ~planBusy /\ ~BeforeBootstrap
             /\ \A q \in Place \ {"supervisor"} : Turn(q)' = {}
             /\ Turn("supervisor") = {}
  <2>1. types \in TurnTypes("world")
    BY DEF TurnTypes
  <2>2. /\ UpToDate("world", Head(worldBox)) /\ ~BeforeBootstrap /\ ~planBusy
        /\ \A q \in Place \ {"world"} : Turn(q) = {}
        /\ Turn("world")' = {}
    BY <1>3, <2>1, TurnHead DEF IsNext
  <2>3. \A q \in {"planner", "executor", "plan", "action"} : Turn(q)' = Turn(q)
    BY <1>1, SameTurn DEF plannerVars, executorVars
  <2> QED
    BY <2>2, <2>3
<1>4. ASSUME NEW w, IsNext(worldBox, "ApplyActionEffects") \/ IsNext(worldBox, "Bootstrap"),
             worldBox' = Tail(worldBox), supervisorBox' = Notify(w),
             executed = w.epoch, executed = world'.epoch
      PROVE  TurnInv'
  <2> DEFINE m == [type |-> "StateChanged", snapshot |-> w]
  <2>1. m.type = "StateChanged" /\ m.snapshot = w
    OBVIOUS
  <2>2. supervisorBox' \in {supervisorBox, Append(supervisorBox, m)}
    BY <1>4 DEF Notify, Send
  <2> HIDE DEF m
  <2>3. /\ ~planBusy /\ ~BeforeBootstrap
        /\ \A q \in Place \ {"supervisor"} : Turn(q)' = {}
        /\ Turn("supervisor") = {}
    BY <1>3, <1>4
  <2>4. PICK n : n = m
    OBVIOUS
  <2>5. UpToDate("supervisor", n)'
    BY <1>1, <1>4, <2>1, <2>4 DEF UpToDate, executorVars
  <2>6. planPending' = {} /\ planBusy' = planBusy /\ driver' = driver
    BY <1>1 DEF plannerVars, driverVars, TurnInv
  <2> QED
    BY <2>2, <2>3, <2>4, <2>5, <2>6, TurnPasses
<1>5. ~WorldAppliesReading
  <2> SUFFICES ASSUME WorldAppliesReading PROVE FALSE
    OBVIOUS
  <2>1. UpToDate("world", Head(worldBox))
    BY <1>3 DEF WorldAppliesReading
  <2> QED
    BY <2>1 DEF UpToDate, WorldAppliesReading, IsNext
<1>6. CASE WorldAppliesActionEffects
  <2>1. PICK w : w = world'
    OBVIOUS
  <2>2. UpToDate("world", Head(worldBox))
    BY <1>3, <1>6 DEF WorldAppliesActionEffects
  <2>3. executed = world.epoch + 1
    BY <1>6, <2>2 DEF UpToDate, WorldAppliesActionEffects, IsNext
  <2>4. world'.epoch = world.epoch + 1
    BY <1>6 DEF WorldAppliesActionEffects, ApplyEffects
  <2> QED
    BY <1>4, <1>6, <2>1, <2>3, <2>4 DEF WorldAppliesActionEffects
<1>7. CASE WorldBootstraps
  <2>1. PICK w : w = world
    OBVIOUS
  <2>2. UpToDate("world", Head(worldBox))
    BY <1>3, <1>7 DEF WorldBootstraps
  <2>3. executed = world.epoch
    BY <1>2, <1>7, <2>2 DEF UpToDate, WorldBootstraps, IsNext
  <2> QED
    BY <1>4, <1>7, <2>1, <2>3 DEF WorldBootstraps, worldVars
<1>8. CASE WorldWires \/ WorldStops
  <2>1. /\ UNCHANGED <<world, supervisorBox>>
        /\ worldBox # <<>> /\ worldBox' \in {<<>>, Tail(worldBox)}
    BY <1>8 DEF WorldWires, WorldStops, Wire, Halt, IsNext, worldVars
  <2>2. \A p \in Place : Stays(p)
    BY <1>1, <2>1, AllStay DEF NoTurnAdded, plannerVars, executorVars
  <2> QED
    BY <1>1, <2>1, <2>2, StaysKeepTurn
       DEF plannerVars, executorVars, driverVars, BeforeBootstrap
<1> QED
  BY <1>5, <1>6, <1>7, <1>8 DEF WorldStep

LEMMA PlannerKeepsTurn ==
    ASSUME TypeOK, TurnInv, PlannerStep \/ PlanReturns
    PROVE  TurnInv'
<1> USE PlacesApart
<1>1. UNCHANGED <<worldVars, executorVars, driverVars, worldBox, executorBox>>
  BY DEF PlannerStep, PlannerStartsPlan, PlannerCoalesces, PlannerReports, PlannerWires,
         PlannerStops, PlanReturns, OutsidePlanner
<1>2. planPending = {}
  BY DEF TurnInv
<1>3. \A q \in {"world", "executor", "action"} : Turn(q)' = Turn(q)
  BY <1>1, SameTurn DEF executorVars
<1>4. ASSUME NEW t \in {"PlanRequest", "PlanComputed"}, IsNext(plannerBox, t)
      PROVE  /\ Head(plannerBox).snapshot.epoch = executed /\ executed = world.epoch
             /\ ~BeforeBootstrap
             /\ \A q \in Place \ {"planner"} : Turn(q) = {}
             /\ plannerBox' = Tail(plannerBox) => Turn("planner")' = {}
  <2>1. t \in TurnTypes("planner")
    BY DEF TurnTypes
  <2>2. /\ UpToDate("planner", Head(plannerBox)) /\ ~BeforeBootstrap
        /\ \A q \in Place \ {"planner"} : Turn(q) = {}
        /\ plannerBox' = Tail(plannerBox) => Turn("planner")' = {}
    BY <1>4, <2>1, TurnHead DEF IsNext
  <2> QED
    BY <2>2 DEF UpToDate
<1>5. CASE PlannerStartsPlan
  <2>1. PICK s : s = Head(plannerBox).snapshot
    OBVIOUS
  <2>2. /\ s.epoch = executed /\ executed = world.epoch /\ ~BeforeBootstrap
        /\ \A q \in Place \ {"planner"} : Turn(q) = {}
        /\ Turn("planner")' = {}
    BY <1>4, <1>5, <2>1 DEF PlannerStartsPlan
  <2>3. planTask' = {s} /\ supervisorBox' = supervisorBox /\ planPending' = {}
    BY <1>2, <1>5, <2>1 DEF PlannerStartsPlan, SpawnPlan
  <2>4. \A q \in Place \ {"plan"} : Turn(q)' = {}
    BY <1>3, <2>2, <2>3, SameTurn
  <2>5. UpToDate("plan", s)'
    BY <1>1, <2>2 DEF UpToDate, executorVars, worldVars
  <2>6. driver' = driver
    BY <1>1 DEF driverVars
  <2> QED
    BY <2>2, <2>3, <2>4, <2>5, <2>6, TurnPasses
<1>6. ~PlannerCoalesces
  <2> SUFFICES ASSUME PlannerCoalesces PROVE FALSE
    OBVIOUS
  <2>1. ~Has(plannerBox, "PlanRequest")
    BY DEF TurnInv, PlannerCoalesces
  <2>2. 1 \in DOMAIN plannerBox /\ plannerBox[1] = Head(plannerBox)
    BY TailPositions DEF PlannerCoalesces, IsNext, TypeOK, BoxesOK
  <2> QED
    BY <2>1, <2>2 DEF Has, PlannerCoalesces, IsNext
<1>7. CASE PlannerReports
  <2> DEFINE m == [type |-> "PlanReady", result |-> Head(plannerBox).result,
                   snapshot |-> Head(plannerBox).snapshot]
  <2>1. m.type = "PlanReady" /\ m.snapshot = Head(plannerBox).snapshot
    OBVIOUS
  <2>2. supervisorBox' \in {supervisorBox, Append(supervisorBox, m)}
    BY <1>7 DEF PlannerReports, Report, Send
  <2> HIDE DEF m
  <2>3. PICK n : n = m
    OBVIOUS
  <2>4. /\ n.snapshot.epoch = executed /\ executed = world.epoch /\ ~BeforeBootstrap
        /\ \A q \in Place \ {"planner"} : Turn(q) = {}
        /\ Turn("planner")' = {}
    BY <1>4, <1>7, <2>1, <2>3 DEF PlannerReports
  <2>5. planBusy' = FALSE /\ planTask' = planTask /\ planPending' = {}
    BY <1>2, <1>7 DEF PlannerReports
  <2>6. \A q \in Place \ {"supervisor"} : Turn(q)' = {}
    BY <1>3, <2>4, <2>5
  <2>7. UpToDate("supervisor", n)'
    BY <1>1, <2>1, <2>3, <2>4 DEF UpToDate, executorVars, worldVars
  <2>8. driver' = driver
    BY <1>1 DEF driverVars
  <2> QED
    BY <2>2, <2>3, <2>4, <2>5, <2>6, <2>7, <2>8, TurnPasses
<1>8. CASE PlannerWires \/ PlannerStops
  <2>1. /\ UNCHANGED <<plannerVars, supervisorBox>>
        /\ plannerBox # <<>> /\ plannerBox' \in {<<>>, Tail(plannerBox)}
    BY <1>8 DEF PlannerWires, PlannerStops, Wire, Halt, IsNext
  <2>2. \A p \in Place : Stays(p)
    BY <1>1, <2>1, AllStay DEF NoTurnAdded, plannerVars, executorVars
  <2> QED
    BY <1>1, <2>1, <2>2, StaysKeepTurn
       DEF plannerVars, executorVars, driverVars, worldVars, BeforeBootstrap
<1>9. CASE PlanReturns
  <2>1. PICK s \in planTask, r \in PlanResult :
           plannerBox' = Send(plannerBox, "planner",
                              [type |-> "PlanComputed", result |-> r, snapshot |-> s])
    <3>1. PICK s \in planTask : \E r \in PlanResults[s.facts] :
             plannerBox' = Send(plannerBox, "planner",
                                [type |-> "PlanComputed", result |-> r, snapshot |-> s])
      BY <1>9 DEF PlanReturns
    <3>2. s.facts \in State
      BY <3>1 DEF TypeOK, PlannerOK, Option, Snapshot
    <3> QED
      BY <3>1, <3>2, PlanResultsType
  <2>2. PICK m : m = [type |-> "PlanComputed", result |-> r, snapshot |-> s]
    OBVIOUS
  <2>3. m.type = "PlanComputed" /\ m.snapshot = s
    BY <2>2
  <2>4. plannerBox' \in {plannerBox, Append(plannerBox, m)}
    BY <2>1, <2>2 DEF Send
  <2>5. Turn("plan") # {} /\ UpToDate("plan", s) /\ ~BeforeBootstrap
    <3>1. s \in Turn("plan") /\ Carrier("plan", s) = s
      BY <2>1 DEF Carrier
    <3> QED
      BY <3>1 DEF TurnInv
  <2>6. \A q \in Place \ {"plan"} : Turn(q) = {}
    BY <2>5, TurnAlone
  <2>7. supervisorBox' = supervisorBox /\ planTask' = {} /\ planPending' = {}
    BY <1>2, <1>9 DEF PlanReturns
  <2>8. \A q \in Place \ {"planner"} : Turn(q)' = {}
    BY <1>3, <2>6, <2>7, SameTurn
  <2>9. UpToDate("planner", m)'
    BY <1>1, <2>3, <2>5 DEF UpToDate, executorVars, worldVars
  <2>10. driver' = driver
    BY <1>1 DEF driverVars
  <2> QED
    BY <2>3, <2>4, <2>5, <2>6, <2>7, <2>8, <2>9, <2>10, TurnPasses
<1> QED
  BY <1>5, <1>6, <1>7, <1>8, <1>9 DEF PlannerStep

LEMMA SupervisorKeepsTurn ==
    ASSUME TypeOK, TurnInv, SupervisorStep
    PROVE  TurnInv'
<1> USE PlacesApart
<1>1. UNCHANGED <<worldVars, plannerVars, driverVars, latest, execBusy, executed, actionTask, worldBox>>
  BY DEF SupervisorStep, SupervisorForwardsChange, SupervisorIgnoresPlan,
         SupervisorMeetsPlannerError, SupervisorHasNothingToRun, SupervisorDispatches,
         SupervisorTerminates, SupervisorWires, SupervisorStops, OutsideSupervisor, executorVars
<1>2. planPending = {} /\ planPending' = {} /\ driver' = driver
      /\ planTask' = planTask /\ planBusy' = planBusy
  BY <1>1 DEF TurnInv, plannerVars, driverVars
<1>3. \A q \in {"world", "plan", "action"} : Turn(q)' = Turn(q)
  BY <1>1, <1>2, SameTurn
<1>4. ASSUME NEW t \in {"StateChanged", "PlanReady"}, IsNext(supervisorBox, t),
             supervisorBox' = Tail(supervisorBox)
      PROVE  /\ Head(supervisorBox).snapshot.epoch = executed /\ executed = world.epoch
             /\ ~BeforeBootstrap /\ ~planBusy
             /\ \A q \in Place \ {"supervisor"} : Turn(q) = {}
             /\ Turn("supervisor")' = {}
  <2>1. t \in TurnTypes("supervisor")
    BY DEF TurnTypes
  <2>2. /\ UpToDate("supervisor", Head(supervisorBox)) /\ ~BeforeBootstrap /\ ~planBusy
        /\ \A q \in Place \ {"supervisor"} : Turn(q) = {}
        /\ Turn("supervisor")' = {}
    BY <1>4, <2>1, TurnHead DEF IsNext
  <2> QED
    BY <2>2 DEF UpToDate
<1>5. CASE SupervisorForwardsChange
  <2> DEFINE m == [type |-> "PlanRequest", snapshot |-> Head(supervisorBox).snapshot]
  <2>1. m.type = "PlanRequest" /\ m.snapshot = Head(supervisorBox).snapshot
    OBVIOUS
  <2>2. plannerBox' \in {plannerBox, Append(plannerBox, m)}
    BY <1>5 DEF SupervisorForwardsChange, Send
  <2> HIDE DEF m
  <2>3. PICK n : n = m
    OBVIOUS
  <2>4. /\ n.snapshot.epoch = executed /\ executed = world.epoch /\ ~BeforeBootstrap /\ ~planBusy
        /\ \A q \in Place \ {"supervisor"} : Turn(q) = {}
        /\ Turn("supervisor")' = {}
    BY <1>4, <1>5, <2>1, <2>3 DEF SupervisorForwardsChange
  <2>5. executorBox' = executorBox
    BY <1>5 DEF SupervisorForwardsChange
  <2>6. \A q \in Place \ {"planner"} : Turn(q)' = {}
    BY <1>3, <2>4, <2>5, SameTurn
  <2>7. UpToDate("planner", n)'
    BY <1>1, <2>4 DEF UpToDate, worldVars
  <2> QED
    BY <1>2, <2>2, <2>3, <2>4, <2>6, <2>7, TurnPasses
<1>6. CASE SupervisorDispatches
  <2> DEFINE m == [type |-> "AdoptPlan", first |-> Head(supervisorBox).result.first,
                   snapshot |-> Head(supervisorBox).snapshot]
  <2>1. m.type = "AdoptPlan" /\ m.snapshot = Head(supervisorBox).snapshot
    OBVIOUS
  <2>2. executorBox' \in {executorBox, Append(executorBox, m)}
    BY <1>6 DEF SupervisorDispatches, Send
  <2> HIDE DEF m
  <2>3. PICK n : n = m
    OBVIOUS
  <2>4. /\ n.snapshot.epoch = executed /\ executed = world.epoch /\ ~BeforeBootstrap /\ ~planBusy
        /\ \A q \in Place \ {"supervisor"} : Turn(q) = {}
        /\ Turn("supervisor")' = {}
    BY <1>4, <1>6, <2>1, <2>3 DEF SupervisorDispatches
  <2>5. plannerBox' = plannerBox
    BY <1>6 DEF SupervisorDispatches
  <2>6. \A q \in Place \ {"executor"} : Turn(q)' = {}
    BY <1>3, <2>4, <2>5, SameTurn
  <2>7. UpToDate("executor", n)'
    BY <1>1, <2>4 DEF UpToDate, worldVars
  <2> QED
    BY <1>2, <2>2, <2>3, <2>4, <2>6, <2>7, TurnPasses
<1>7. CASE ~SupervisorForwardsChange /\ ~SupervisorDispatches
  <2>1. /\ UNCHANGED <<plannerBox, executorBox>>
        /\ supervisorBox # <<>> /\ supervisorBox' \in {<<>>, Tail(supervisorBox)}
    BY <1>7 DEF SupervisorStep, SupervisorIgnoresPlan,
           SupervisorMeetsPlannerError, SupervisorHasNothingToRun,
           SupervisorTerminates, SupervisorWires, SupervisorStops, Wire, Halt, IsNext
  <2>2. \A p \in Place : Stays(p)
    BY <1>1, <1>2, <2>1, AllStay DEF NoTurnAdded
  <2> QED
    BY <1>1, <1>2, <2>2, StaysKeepTurn DEF worldVars, BeforeBootstrap
<1> QED
  BY <1>5, <1>6, <1>7

LEMMA ExecutorKeepsTurn ==
    ASSUME TypeOK, TurnInv, ExecutorStep \/ ActionEnds
    PROVE  TurnInv'
<1> USE PlacesApart
<1>1. UNCHANGED <<worldVars, plannerVars, driverVars, plannerBox>>
  BY DEF ExecutorStep, ExecutorKeepsPlan, ExecutorHitsCap, ExecutorStartsAction,
         ExecutorMeetsError, ExecutorAppliesSuccess, ExecutorRecovers, ExecutorFails,
         TakeResult, ExecutorWires, ExecutorStops, ActionEnds, OutsideExecutor
<1>2. /\ planPending = {} /\ planPending' = {} /\ driver' = driver
      /\ planTask' = planTask /\ planBusy' = planBusy
      /\ world' = world
  BY <1>1 DEF TurnInv, plannerVars, driverVars, worldVars
<1>3. \A q \in {"planner", "plan"} : Turn(q)' = Turn(q)
  BY <1>1, <1>2, SameTurn
<1>4. ASSUME NEW t \in {"AdoptPlan", "ActionFinished"}, IsNext(executorBox, t),
             executorBox' = Tail(executorBox)
      PROVE  /\ UpToDate("executor", Head(executorBox))
             /\ executed = world.epoch
             /\ ~BeforeBootstrap /\ ~planBusy
             /\ \A q \in Place \ {"executor"} : Turn(q) = {}
             /\ Turn("executor")' = {}
  <2>1. t \in TurnTypes("executor")
    BY DEF TurnTypes
  <2>2. /\ UpToDate("executor", Head(executorBox)) /\ ~BeforeBootstrap /\ ~planBusy
        /\ \A q \in Place \ {"executor"} : Turn(q) = {}
        /\ Turn("executor")' = {}
    BY <1>4, <2>1, TurnHead DEF IsNext
  <2> QED
    BY <2>2 DEF UpToDate
<1>5. ASSUME NEW o, Terminate(o)
      PROVE  NoTurnAdded(supervisorBox, supervisorBox', TurnTypes("supervisor"))
  <2> DEFINE m == [type |-> "Terminate", outcome |-> o]
  <2>1. m.type \notin TurnTypes("supervisor")
    BY DEF TurnTypes
  <2>2. supervisorBox' \in {supervisorBox, Append(supervisorBox, m)}
    BY <1>5 DEF Terminate, Send
  <2> HIDE DEF m
  <2> QED
    BY <2>1, <2>2 DEF NoTurnAdded
<1>6. ASSUME NoTurnAdded(supervisorBox, supervisorBox', TurnTypes("supervisor")),
             executorBox # <<>>, executorBox' \in {<<>>, Tail(executorBox)},
             UNCHANGED <<worldBox, actionTask, executed>>
      PROVE  TurnInv'
  <2>1. \A p \in Place : Stays(p)
    BY <1>1, <1>2, <1>6, AllStay DEF NoTurnAdded
  <2> QED
    BY <1>2, <1>6, <2>1, StaysKeepTurn DEF BeforeBootstrap
<1>7. CASE ExecutorKeepsPlan \/ ExecutorWires \/ ExecutorStops
  <2>1. /\ UNCHANGED <<supervisorBox, worldBox, actionTask, executed>>
        /\ executorBox # <<>> /\ executorBox' \in {<<>>, Tail(executorBox)}
    BY <1>7 DEF ExecutorKeepsPlan, ExecutorWires, ExecutorStops, Wire, Halt, IsNext, executorVars
  <2> QED
    BY <1>6, <2>1 DEF NoTurnAdded
<1>8. CASE ExecutorHitsCap
  BY <1>5, <1>6, <1>8 DEF ExecutorHitsCap, IsNext
<1>9. CASE ExecutorMeetsError
  BY <1>5, <1>6, <1>9 DEF ExecutorMeetsError, TakeResult, IsNext
<1>10. CASE ExecutorStartsAction
  <2>1. PICK t : t = [action |-> Head(executorBox).first, snapshot |-> Head(executorBox).snapshot]
    OBVIOUS
  <2>2. actionTask' = {t} /\ t.snapshot = Head(executorBox).snapshot
        /\ UNCHANGED <<worldBox, supervisorBox, executed>>
    BY <1>10, <2>1 DEF ExecutorStartsAction
  <2>3. /\ UpToDate("executor", Head(executorBox))
        /\ executed = world.epoch
        /\ ~BeforeBootstrap /\ ~planBusy
        /\ \A q \in Place \ {"executor"} : Turn(q) = {}
        /\ Turn("executor")' = {}
    BY <1>4, <1>10 DEF ExecutorStartsAction
  <2>4. \A q \in Place \ {"action"} : Turn(q)' = {}
    BY <1>3, <2>2, <2>3, SameTurn
  <2>5. t.snapshot.epoch = executed
    BY <1>10, <2>2, <2>3 DEF UpToDate, ExecutorStartsAction, IsNext
  <2>6. UpToDate("action", t)'
    BY <1>2, <2>2, <2>3, <2>5 DEF UpToDate
  <2> QED
    BY <1>2, <2>2, <2>3, <2>4, <2>6, TurnPasses
<1>11. CASE ActionEnds
  <2>1. PICK t \in actionTask : \E r \in CommandResults[t.action] :
           executorBox' = Send(executorBox, "executor",
                 [type |-> "ActionFinished", action |-> t.action, result |-> r])
    BY <1>11 DEF ActionEnds
  <2>2. PICK r \in CommandResults[t.action] :
           executorBox' = Send(executorBox, "executor",
                 [type |-> "ActionFinished", action |-> t.action, result |-> r])
    BY <2>1
  <2>3. PICK m : m = [type |-> "ActionFinished", action |-> t.action, result |-> r]
    OBVIOUS
  <2>4. m.type = "ActionFinished" /\ executorBox' \in {executorBox, Append(executorBox, m)}
    BY <2>2, <2>3 DEF Send
  <2>5. Turn("action") # {} /\ UpToDate("action", t) /\ ~BeforeBootstrap /\ ~planBusy
    <3>1. t \in Turn("action") /\ Carrier("action", t) = t
      BY <2>1 DEF Carrier
    <3> QED
      BY <3>1 DEF TurnInv
  <2>6. \A q \in Place \ {"action"} : Turn(q) = {}
    BY <2>5, TurnAlone
  <2>7. actionTask' = {} /\ UNCHANGED <<worldBox, supervisorBox, executed>>
    BY <1>11 DEF ActionEnds
  <2>8. \A q \in Place \ {"executor"} : Turn(q)' = {}
    BY <1>3, <2>6, <2>7, SameTurn
  <2>9. UpToDate("executor", m)'
    BY <1>2, <2>4, <2>5, <2>7 DEF UpToDate
  <2> QED
    BY <1>2, <2>4, <2>5, <2>6, <2>8, <2>9, TurnPasses
<1>12. ASSUME NEW adds, NEW removes, NEW r, TakeResult(r), TellEffects(adds, removes),
              executed' = executed + 1, UNCHANGED supervisorBox
       PROVE  TurnInv'
  <2>1. PICK m : m = [type |-> "ApplyActionEffects", adds |-> adds, removes |-> removes]
    OBVIOUS
  <2>2. m.type = "ApplyActionEffects" /\ worldBox' \in {worldBox, Append(worldBox, m)}
    BY <1>12, <2>1 DEF TellEffects, Send
  <2>3. /\ executed = world.epoch
        /\ ~BeforeBootstrap /\ ~planBusy
        /\ \A q \in Place \ {"executor"} : Turn(q) = {}
        /\ Turn("executor")' = {}
    BY <1>4, <1>12 DEF TakeResult
  <2>4. actionTask' = actionTask
    BY <1>12 DEF TakeResult
  <2>5. \A q \in Place \ {"world"} : Turn(q)' = {}
    BY <1>3, <1>12, <2>3, <2>4, SameTurn
  <2>6. UpToDate("world", m)'
    BY <1>2, <1>12, <2>2, <2>3 DEF UpToDate
  <2> QED
    BY <1>2, <2>2, <2>3, <2>5, <2>6, TurnPasses
<1>13. CASE ExecutorAppliesSuccess
  <2>1. TakeResult("success") /\ executed' = executed + 1 /\ UNCHANGED supervisorBox
        /\ TellEffects(Library[Head(executorBox).action].adds, Library[Head(executorBox).action].removes)
    BY <1>13 DEF ExecutorAppliesSuccess
  <2>2. PICK adds, removes : adds = Library[Head(executorBox).action].adds
                             /\ removes = Library[Head(executorBox).action].removes
    OBVIOUS
  <2> QED
    BY <1>12, <2>1, <2>2
<1>14. CASE ExecutorRecovers
  <2>1. PICK e \in Library[Head(executorBox).action].onFailure : TellEffects(e.add, e.remove)
    BY <1>14 DEF ExecutorRecovers
  <2>2. TakeResult("failure") /\ executed' = executed + 1 /\ UNCHANGED supervisorBox
    BY <1>14 DEF ExecutorRecovers
  <2>3. PICK adds, removes : adds = e.add /\ removes = e.remove
    OBVIOUS
  <2> QED
    BY <1>12, <2>1, <2>2, <2>3
<1>15. CASE ExecutorFails
  <2>1. /\ ~BeforeBootstrap /\ ~planBusy
        /\ \A q \in Place \ {"executor"} : Turn(q) = {}
        /\ Turn("executor")' = {}
    BY <1>4, <1>15 DEF ExecutorFails, TakeResult
  <2>2. UNCHANGED <<worldBox, actionTask>> /\ Terminate("ActionFailed")
    BY <1>15 DEF ExecutorFails, TakeResult
  <2>3. Stays("supervisor")
    BY <1>5, <2>2 DEF Stays
  <2>4. Turn("supervisor")' = {}
    BY <2>1, <2>3, TurnStays
  <2>5. \A q \in Place : Turn(q)' = {}
    BY <1>3, <2>1, <2>2, <2>4, SameTurn
  <2>6. Turn("action") = {} /\ Turn("action")' \subseteq {0}
    BY <2>1, <2>5
  <2> QED
    BY <1>2, <2>1, <2>5, <2>6, TurnPasses
<1> QED
  BY <1>7, <1>8, <1>9, <1>10, <1>11, <1>13, <1>14, <1>15 DEF ExecutorStep

(* Wiring and stopping hand nobody the turn. *)
LEMMA PostingStays ==
    ASSUME NEW m, m.type \in {"SetRef", "Stop"}, NEW a, Post(a, m),
           UNCHANGED <<planTask, actionTask>>
    PROVE  \A p \in Place : Stays(p)
<1>1. \A p : m.type \notin TurnTypes(p)
  BY DEF TurnTypes
<1>2. /\ worldBox' \in {worldBox, Append(worldBox, m)}
      /\ supervisorBox' \in {supervisorBox, Append(supervisorBox, m)}
      /\ plannerBox' \in {plannerBox, Append(plannerBox, m)}
      /\ executorBox' \in {executorBox, Append(executorBox, m)}
  BY DEF Post, Send
<1> QED
  BY <1>1, <1>2, AllStay DEF NoTurnAdded

LEMMA DriverKeepsTurn ==
    ASSUME TypeOK, TurnInv, DriverStep \/ Interrupt
    PROVE  TurnInv'
<1> USE PlacesApart
<1>1. UNCHANGED <<executed, planPending, planBusy>>
  BY DEF DriverStep, Interrupt, Sweep, SweepEnds, WireNext, StartSensors, BootstrapWorld,
         TakeOutcome, StopSensors, StopNext, Exit, OutsideDriver, plannerVars, executorVars
<1>2. BeforeBootstrap' => BeforeBootstrap
  BY DEF BeforeBootstrap, DriverStep, Interrupt, Sweep, SweepEnds, WireNext, StartSensors,
         BootstrapWorld, TakeOutcome, StopSensors, StopNext, Exit
<1>3. ASSUME \A p \in Place : Stays(p), world'.epoch = world.epoch PROVE TurnInv'
  BY <1>1, <1>2, <1>3, StaysKeepTurn
<1>4. ASSUME UNCHANGED boxes, UNCHANGED <<planTask, actionTask>>
      PROVE  \A p \in Place : Stays(p)
  BY <1>4, AllStay DEF NoTurnAdded, boxes
<1>5. CASE Sweep
  <2>1. world'.epoch = world.epoch
    BY <1>5 DEF Sweep, ApplyReading, TypeOK, Snapshot
  <2> QED
    BY <1>3, <1>4, <1>5, <2>1 DEF Sweep, OutsideDriver, plannerVars, executorVars
<1>6. CASE SweepEnds \/ StartSensors \/ TakeOutcome \/ StopSensors \/ Interrupt
  BY <1>3, <1>4, <1>6 DEF SweepEnds, StartSensors, TakeOutcome, StopSensors, Interrupt,
     OutsideDriver, plannerVars, executorVars, worldVars
<1>7. CASE WireNext
  <2>1. PICK m : m = [type |-> "SetRef", ref |-> Wiring[at].ref]
    OBVIOUS
  <2>2. m.type = "SetRef" /\ Post(Wiring[at].to, m)
    BY <1>7, <2>1 DEF WireNext
  <2>3. UNCHANGED <<planTask, actionTask, world>>
    BY <1>7 DEF WireNext, OutsideDriver, plannerVars, executorVars, worldVars
  <2>4. \A p \in Place : Stays(p)
    BY <2>2, <2>3, PostingStays
  <2> QED
    BY <1>3, <2>3, <2>4
<1>8. CASE StopNext
  <2>1. PICK m : m = [type |-> "Stop"]
    OBVIOUS
  <2>2. m.type = "Stop" /\ Post(StopOrder[at], m)
    BY <1>8, <2>1 DEF StopNext
  <2>3. UNCHANGED <<planTask, actionTask, world>>
    BY <1>8 DEF StopNext, OutsideDriver, plannerVars, executorVars, worldVars
  <2>4. \A p \in Place : Stays(p)
    BY <2>2, <2>3, PostingStays
  <2> QED
    BY <1>3, <2>3, <2>4
<1>9. CASE BootstrapWorld
  <2>1. PICK m : m = [type |-> "Bootstrap"]
    OBVIOUS
  <2>2. m.type = "Bootstrap" /\ worldBox' \in {worldBox, Append(worldBox, m)}
        /\ UNCHANGED <<supervisorBox, plannerBox, executorBox>>
    BY <1>9, <2>1 DEF BootstrapWorld, Post, Send
  <2>3. executed = world.epoch /\ ~planBusy /\ \A p \in Place : Turn(p) = {}
    BY <1>9 DEF BootstrapWorld, TurnInv, BeforeBootstrap
  <2>4. UNCHANGED <<planTask, actionTask, world>>
    BY <1>9 DEF BootstrapWorld, OutsideDriver, plannerVars, executorVars, worldVars
  <2>5. \A q \in Place \ {"world"} : Turn(q)' = {}
    BY <2>2, <2>3, <2>4, SameTurn
  <2>6. Single(Turn("world")') /\ \A x \in Turn("world")' : Carrier("world", x)' = m
    BY <2>2, <2>3, TurnHanded
  <2>7. UpToDate("world", m)'
    <3>1. executed \in Nat /\ world.epoch \in Nat
      BY DEF TypeOK, ExecutorOK, Snapshot
    <3> QED
      BY <1>1, <2>2, <2>3, <2>4, <3>1 DEF UpToDate
  <2>8. \A x \in Turn("world")' : UpToDate("world", Carrier("world", x))'
    BY <2>6, <2>7 DEF UpToDate
  <2>9. planPending' = {} /\ ~BeforeBootstrap' /\ ~planBusy'
    BY <1>1, <1>9, <2>3 DEF BootstrapWorld, TurnInv, BeforeBootstrap
  <2> QED
    BY <2>5, <2>6, <2>8, <2>9, PassingKeepsTurn
<1>10. CASE Exit
  <2>1. \A p \in Place : Stays(p)
    BY <1>10, AllStay DEF Exit, NoTurnAdded
  <2> QED
    BY <1>3, <1>10, <2>1 DEF Exit, worldVars
<1> QED
  BY <1>5, <1>6, <1>7, <1>8, <1>9, <1>10 DEF DriverStep

LEMMA TurnStep ==
    ASSUME MaxReadings = 0, TypeOK, TurnInv, [Next]_vars
    PROVE  TurnInv'
<1>1. ASSUME NEW n \in Sensor, SensorStep(n) PROVE TurnInv'
  <2>1. ~SensorReports(n)
    BY DEF SensorReports, TypeOK
  <2>2. UNCHANGED <<worldVars, plannerVars, executorVars, driverVars, boxes>>
    BY <1>1, <2>1 DEF SensorStep, SensorSkips, SensorStops, OutsideSensors, vars, boxes
  <2>3. \A p \in Place : Stays(p)
    BY <2>2, AllStay DEF NoTurnAdded, boxes, plannerVars, executorVars
  <2> QED
    BY <2>2, <2>3, StaysKeepTurn DEF worldVars, plannerVars, executorVars, driverVars, BeforeBootstrap
<1>2. CASE UNCHANGED vars
  <2>1. \A p \in Place : Stays(p)
    BY <1>2, AllStay DEF NoTurnAdded, vars, boxes, plannerVars, executorVars
  <2> QED
    BY <1>2, <2>1, StaysKeepTurn
       DEF vars, worldVars, plannerVars, executorVars, driverVars, BeforeBootstrap
<1> QED
  BY <1>1, <1>2, WorldKeepsTurn, PlannerKeepsTurn, SupervisorKeepsTurn, ExecutorKeepsTurn,
     DriverKeepsTurn DEF Next, Terminated

(* While the sensors are quiet, the snapshot an action is chosen from has   *)
(* seen the effects of every action finished before it.  The run StalePlan  *)
(* shows that a reading that arrives at the wrong moment breaks this.       *)
THEOREM QuietRunsActOnFreshState ==
    ASSUME MaxReadings = 0
    PROVE  Spec => []ActsOnPostEffectState
<1>1. Init => TurnInv
  <2> SUFFICES ASSUME Init PROVE TurnInv
    OBVIOUS
  <2>1. \A p \in Place : Turn(p) = {}
    BY PlacesApart DEF Init, Turn, Carries
  <2>2. executed = world.epoch /\ planPending = {} /\ planBusy = FALSE
    BY DEF Init
  <2> QED
    BY <2>1, <2>2 DEF TurnInv, OneTurn, Single
<1>2. TypeOK /\ TurnInv /\ [Next]_vars => TurnInv'
  BY TurnStep
<1>3. TurnInv => ActsOnPostEffectState
  <2> SUFFICES ASSUME TurnInv, NEW t \in actionTask PROVE t.snapshot.epoch = executed
    BY DEF ActsOnPostEffectState
  <2>1. "action" \in Place /\ t \in Turn("action") /\ Carrier("action", t) = t
    BY PlacesApart DEF Carrier
  <2> QED
    BY <2>1 DEF TurnInv, UpToDate
<1> QED
  BY <1>1, <1>2, <1>3, TypeCorrect, PTL DEF Spec

=============================================================================
