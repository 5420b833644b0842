--------------------------- MODULE ExecuteProofs ---------------------------
(***************************************************************************)
(* What the operator of `run --execute` is shown explains how the process  *)
(* ended: a theorem about ExecuteCommand for every configuration.          *)
(***************************************************************************)
EXTENDS ExecuteCommand, AgentRuntimeProofs

-----------------------------------------------------------------------------
(* The process only restricts the runtime.                                 *)

LEMMA ExecuteSteps ==
    ASSUME [ExecuteNext]_executeVars
    PROVE  [Next]_vars
<1>1. CASE UNCHANGED executeVars
  BY <1>1 DEF executeVars
<1>2. CASE CannotStart \/ Start \/ Listen \/ Render \/ Kill \/ Gone
  BY <1>2 DEF CannotStart, Start, Listen, Render, Kill, Gone, executeVars
<1>3. CASE WorldEmits \/ SupervisorEmits \/ ExecutorEmits \/ HearSignal
  BY <1>3 DEF WorldEmits, SupervisorEmits, ExecutorEmits, HearSignal, Emits, Next
<1>4. CASE Silently(PlannerStep) \/ Silently(PlanReturns) \/ Silently(ActionEnds)
  BY <1>4 DEF Silently, Emits, Next
<1>5. ASSUME NEW n \in Sensor, Silently(SensorStep(n)) PROVE Next
  BY <1>5 DEF Silently, Emits, Next
<1>6. CASE SweepEmits \/ Complete
  BY <1>6 DEF SweepEmits, Complete, Emits, Next, DriverStep
<1>7. CASE \/ Silently(SweepEnds \/ WireNext \/ StartSensors \/ BootstrapWorld)
           \/ Silently(TakeOutcome \/ StopSensors \/ StopNext)
  BY <1>7 DEF Silently, Emits, Next, DriverStep
<1> QED
  BY <1>1, <1>2, <1>3, <1>4, <1>5, <1>6, <1>7 DEF ExecuteNext, DriverEmits

(* Every invariant of the runtime is one of the process. *)
LEMMA ExecuteRunsRuntime == ExecuteSpec => Spec
<1>1. ExecuteInit => Init
  BY DEF ExecuteInit
<1>2. [ExecuteNext]_executeVars => [Next]_vars
  BY ExecuteSteps
<1> QED
  BY <1>1, <1>2, PTL DEF ExecuteSpec, Spec

-----------------------------------------------------------------------------
(* The channel.                                                            *)

(* A channel of which the head is taken loses one event of its kind. *)
LEMMA TakenCounts ==
    ASSUME NEW Msg, NEW box \in Seq(Msg), NEW t, box # <<>>
    PROVE  Cardinality(Positions(box, t)) =
              Cardinality(Positions(Tail(box), t)) + (IF Head(box).type = t THEN 1 ELSE 0)
<1> DEFINE P == Positions(box, t)
           Q == Positions(Tail(box), t)
           R == P \ {1}
           down == [i \in R |-> i - 1]
<1>1. /\ Len(box) \in Nat \ {0} /\ DOMAIN box = 1..Len(box) /\ box[1] = Head(box)
      /\ DOMAIN Tail(box) = 1..(Len(box) - 1)
      /\ \A i \in 1..(Len(box) - 1) : Tail(box)[i] = box[i + 1]
  BY TailPositions
<1>2. /\ \A i \in R : i \in Int /\ i - 1 \in Q
      /\ \A i \in Q : i \in Int /\ i + 1 \in R
      /\ 1 \in P <=> Head(box).type = t
  BY <1>1 DEF Positions
<1>3. IsFiniteSet(P)
  BY PositionsFinite
<1> HIDE DEF P, Q
<1>4. down \in Bijection(R, Q)
  <2>1. down \in [R -> Q] /\ \A i, j \in R : down[i] = down[j] => i = j
    BY <1>2
  <2>2. \A q \in Q : \E i \in R : down[i] = q
    <3> TAKE q \in Q
    <3>1. q + 1 \in R /\ down[q + 1] = q
      BY <1>2
    <3> QED
      BY <3>1
  <2> QED
    BY <2>1, <2>2 DEF Bijection, Injection, Surjection, IsInjective
<1>5. IsFiniteSet(R) /\ Cardinality(R) = IF 1 \in P THEN Cardinality(P) - 1 ELSE Cardinality(P)
  BY <1>3, FS_RemoveElement
<1>6. Cardinality(Q) = Cardinality(R)
  <2>1. ExistsBijection(R, Q)
    BY <1>4 DEF ExistsBijection
  <2> HIDE DEF R
  <2> QED
    BY <1>5, <2>1, FS_Bijection
<1>7. Cardinality(P) \in Nat /\ Cardinality(R) \in Nat
  BY <1>3, <1>5, FS_CardinalityType
<1> QED
  BY <1>2, <1>5, <1>6, <1>7 DEF P, Q

LEMMA PostedCounts ==
    ASSUME NEW Msg, NEW box \in Seq(Msg), NEW m, NEW t
    PROVE  Cardinality(Positions(Append(box, m), t)) =
              Cardinality(Positions(box, t)) + (IF m.type = t THEN 1 ELSE 0)
<1> DEFINE P == Positions(box, t)
           last == Len(box) + 1
<1>1. /\ Len(box) \in Nat /\ DOMAIN box = 1..Len(box)
      /\ DOMAIN Append(box, m) = 1..last
      /\ \A i \in 1..Len(box) : Append(box, m)[i] = box[i]
      /\ Append(box, m)[last] = m
  BY AppendPositions
<1>2. last \notin P /\ Positions(Append(box, m), t) = IF m.type = t THEN P \cup {last} ELSE P
  BY <1>1 DEF Positions
<1>3. IsFiniteSet(P) /\ Cardinality(P) \in Nat
  BY PositionsFinite, FS_CardinalityType
<1> HIDE DEF P, last
<1>4. Cardinality(P \cup {last}) = Cardinality(P) + 1
  BY <1>2, <1>3, FS_AddElement
<1> QED
  BY <1>2, <1>3, <1>4 DEF P

-----------------------------------------------------------------------------
(* What the operator knows.                                                *)

(* What is waiting in the channel counts as known: it will be shown. *)
PlanKnown(k) ==
    LET plans == Positions(channel, "Planned")
    IN  \/ \E i \in plans : channel[i].plan = k /\ \A j \in plans : j <= i
        \/ plans = {} /\ screen.plan = k

IsFatal(e) == e.type = "Executed" /\ ~e.success /\ Library[e.action].onFailure = {}

FatalKnown == screen.fatal \/ \E i \in DOMAIN channel : IsFatal(channel[i])

(* What the operator knows, or will, of the reason for an outcome. *)
Reason(o) == /\ o = "GoalSatisfied" => PlanKnown("empty")
             /\ o = "NoPlan" => PlanKnown("none")
             /\ o = "ActionFailed" => FatalKnown
             /\ o = "MaxActionsReached" => executed = MaxActions

Terminating(box) == {box[i].outcome : i \in Positions(box, "Terminate")}

Reasons ==
    /\ \A o \in completion : Reason(o)
    /\ \A o \in Terminating(supervisorBox) :
          o \in {"ActionFailed", "MaxActionsReached", "Error"} /\ Reason(o)
    /\ outcome \subseteq completion \cup {"Interrupted"}

(* Every action that has been executed has been shown or waits to be. *)
CountKnown ==
    screen.executed + Cardinality(Positions(channel, "Executed")) = executed

ProcessOK ==
    /\ channel \in Seq(Event) /\ screen.executed \in Nat /\ screen.fatal \in BOOLEAN
    /\ DOMAIN screen = {"plan", "executed", "fatal", "complete"}
    /\ process # "exited" => screen.complete = {} /\ exit = {}
    /\ process \in {"loading", "exited"} => channel = <<>>
    /\ process = "loading" => outcome = {}
    /\ process = "exited" => screen.complete = outcome
    /\ process = "exited" /\ outcome # {} => exit = {ExitCode(o) : o \in outcome}

ExecuteInv == ProcessOK /\ Reasons /\ CountKnown

-----------------------------------------------------------------------------
LEMMA Said ==
    ASSUME channel \in Seq(Event), NEW e
    PROVE  channel \o <<>> = channel /\ channel \o <<e>> = Append(channel, e)
  OBVIOUS

(* An event that is sent takes nothing away from what is known. *)
LEMMA SayingKeeps ==
    ASSUME channel \in Seq(Event), UNCHANGED screen, NEW e, channel' \in {channel, Append(channel, e)}
    PROVE  /\ FatalKnown => FatalKnown'
           /\ channel' = channel \/ e.type # "Planned" =>
                 \A k : PlanKnown(k) => PlanKnown(k)'
<1>1. /\ Len(channel) \in Nat /\ DOMAIN channel = 1..Len(channel)
      /\ DOMAIN channel \subseteq DOMAIN channel'
      /\ \A i \in DOMAIN channel : channel'[i] = channel[i]
      /\ channel' = channel \/ \A i \in DOMAIN channel' : i \in DOMAIN channel \/ channel'[i] = e
  BY AppendPositions
<1>2. FatalKnown => FatalKnown'
  BY <1>1 DEF FatalKnown, IsFatal
<1>3. ASSUME channel' = channel \/ e.type # "Planned", NEW k, PlanKnown(k) PROVE PlanKnown(k)'
  <2>1. Positions(channel', "Planned") = Positions(channel, "Planned")
    BY <1>1, <1>3 DEF Positions
  <2>2. \A i \in Positions(channel, "Planned") : channel'[i] = channel[i]
    BY <1>1 DEF Positions
  <2> QED
    BY <1>3, <2>1, <2>2 DEF PlanKnown
<1> QED
  BY <1>2, <1>3

(* The plan that is announced is the one that is known. *)
LEMMA SaidPlan ==
    ASSUME channel \in Seq(Event), NEW e, e.type = "Planned", channel' = Append(channel, e)
    PROVE  PlanKnown(e.plan)'
  BY AppendPositions DEF PlanKnown, Positions

LEMMA SaidFatal ==
    ASSUME channel \in Seq(Event), NEW e, IsFatal(e), channel' = Append(channel, e)
    PROVE  FatalKnown'
<1>1. Len(channel) + 1 \in DOMAIN channel' /\ channel'[Len(channel) + 1] = e
  BY AppendPositions
<1> QED
  BY <1>1 DEF FatalKnown, IsFatal

(* Showing an event moves what is known from the channel to the screen. *)
LEMMA ShowingKeeps ==
    ASSUME ProcessOK, Render
    PROVE  /\ FatalKnown => FatalKnown'
           /\ \A k : PlanKnown(k) => PlanKnown(k)'
           /\ CountKnown => screen'.executed + Cardinality(Positions(channel', "Executed")) = executed
<1> DEFINE e == Head(channel)
<1>1. channel \in Seq(Event) /\ channel # <<>> /\ channel' = Tail(channel)
  BY DEF ProcessOK, Render
<1>2. /\ Len(channel) \in Nat \ {0} /\ DOMAIN channel = 1..Len(channel) /\ channel[1] = e
      /\ DOMAIN channel' = 1..(Len(channel) - 1)
      /\ \A i \in 1..(Len(channel) - 1) : channel'[i] = channel[i + 1]
  BY <1>1, TailPositions
<1>3. /\ screen'.plan = IF e.type = "Planned" THEN e.plan ELSE screen.plan
      /\ screen'.executed = IF e.type = "Executed" THEN screen.executed + 1 ELSE screen.executed
      /\ screen'.fatal = (screen.fatal \/ IsFatal(e))
  BY DEF Render, Shown, IsFatal, ProcessOK
<1> HIDE DEF e
<1>4. FatalKnown => FatalKnown'
  <2> SUFFICES ASSUME FatalKnown, ~screen'.fatal
               PROVE  \E i \in DOMAIN channel' : IsFatal(channel'[i])
    BY DEF FatalKnown, IsFatal
  <2>1. PICK i \in DOMAIN channel : IsFatal(channel[i])
    BY <1>3 DEF FatalKnown
  <2>2. i # 1
    BY <1>2, <1>3, <2>1
  <2>3. i - 1 \in DOMAIN channel' /\ channel'[i - 1] = channel[i]
    BY <1>2, <2>2
  <2> QED
    BY <2>1, <2>3
<1>5. ASSUME NEW k, PlanKnown(k) PROVE PlanKnown(k)'
  <2> DEFINE P == Positions(channel, "Planned")
             Q == Positions(channel', "Planned")
  <2>1. /\ \A i \in P : i \in Int /\ (i = 1 \/ (i - 1 \in Q /\ channel'[i - 1] = channel[i]))
        /\ \A i \in Q : i \in Int /\ i >= 1 /\ i + 1 \in P /\ channel'[i] = channel[i + 1]
        /\ 1 \in P <=> e.type = "Planned"
    BY <1>2 DEF Positions
  <2>2. PlanKnown(k) <=> \/ \E i \in P : channel[i].plan = k /\ \A j \in P : j <= i
                         \/ P = {} /\ screen.plan = k
    BY DEF PlanKnown
  <2>3. PlanKnown(k)' <=> \/ \E i \in Q : channel'[i].plan = k /\ \A j \in Q : j <= i
                          \/ Q = {} /\ screen'.plan = k
    BY DEF PlanKnown, Positions
  <2> HIDE DEF P, Q
  <2>4. CASE P = {}
    <3>1. Q = {} /\ screen'.plan = screen.plan
      BY <1>3, <2>1, <2>4
    <3> QED
      BY <1>5, <2>2, <2>3, <2>4, <3>1
  <2>5. ASSUME NEW i \in P, channel[i].plan = k, \A j \in P : j <= i PROVE PlanKnown(k)'
    <3>1. CASE i = 1
      <4>1. Q = {}
        BY <2>1, <2>5, <3>1
      <4> QED
        BY <1>2, <1>3, <2>1, <2>3, <2>5, <3>1, <4>1
    <3>2. CASE i # 1
      <4>1. i - 1 \in Q /\ channel'[i - 1] = channel[i]
        BY <2>1, <3>2
      <4>2. \A j \in Q : j <= i - 1
        BY <2>1, <2>5
      <4> QED
        BY <2>3, <2>5, <4>1, <4>2
    <3> QED
      BY <3>1, <3>2
  <2> QED
    BY <1>5, <2>2, <2>4, <2>5
<1>6. CountKnown => screen'.executed + Cardinality(Positions(channel', "Executed")) = executed
  <2>1. Cardinality(Positions(channel, "Executed")) =
           Cardinality(Positions(channel', "Executed")) + (IF e.type = "Executed" THEN 1 ELSE 0)
    BY <1>1, TakenCounts DEF e
  <2>2. /\ Cardinality(Positions(channel, "Executed")) \in Nat
        /\ Cardinality(Positions(channel', "Executed")) \in Nat
    <3>1. channel' \in Seq(Event)
      BY <1>1
    <3> QED
      BY <1>1, <3>1, PositionsFinite, FS_CardinalityType
  <2>3. screen.executed \in Nat
    BY DEF ProcessOK
  <2> QED
    BY <1>3, <2>1, <2>2, <2>3 DEF CountKnown
<1> QED
  BY <1>4, <1>5, <1>6

-----------------------------------------------------------------------------
(* The reports that wait for the supervisor.                               *)

LEMMA TerminatingMoves ==
    ASSUME NEW Msg, NEW box \in Seq(Msg)
    PROVE  /\ Terminating(<<>>) = {}
           /\ box # <<>> => Terminating(Tail(box)) \subseteq Terminating(box)
           /\ IsNext(box, "Terminate") => Head(box).outcome \in Terminating(box)
           /\ \A m : /\ Terminating(Append(box, m)) \subseteq Terminating(box) \cup {m.outcome}
                     /\ m.type # "Terminate" =>
                           Terminating(Append(box, m)) \subseteq Terminating(box)
<1>1. Terminating(<<>>) = {}
  BY DEF Terminating, Positions
<1>2. ASSUME box # <<>>
      PROVE  /\ Terminating(Tail(box)) \subseteq Terminating(box)
             /\ IsNext(box, "Terminate") => Head(box).outcome \in Terminating(box)
  <2>1. /\ \A i \in DOMAIN Tail(box) : i + 1 \in DOMAIN box /\ Tail(box)[i] = box[i + 1]
        /\ 1 \in DOMAIN box /\ box[1] = Head(box)
    BY <1>2, TailPositions
  <2>2. \A i \in Positions(Tail(box), "Terminate") :
           i + 1 \in Positions(box, "Terminate") /\ Tail(box)[i] = box[i + 1]
    BY <2>1 DEF Positions
  <2>3. IsNext(box, "Terminate") => 1 \in Positions(box, "Terminate")
    BY <2>1 DEF Positions, IsNext
  <2> QED
    BY <2>1, <2>2, <2>3 DEF Terminating
<1>3. ASSUME NEW m
      PROVE  /\ Terminating(Append(box, m)) \subseteq Terminating(box) \cup {m.outcome}
             /\ m.type # "Terminate" => Terminating(Append(box, m)) \subseteq Terminating(box)
  <2>1. \A i \in DOMAIN Append(box, m) :
           \/ i \in DOMAIN box /\ Append(box, m)[i] = box[i]
           \/ Append(box, m)[i] = m
    BY AppendPositions
  <2>2. \A i \in Positions(Append(box, m), "Terminate") :
           \/ i \in Positions(box, "Terminate") /\ Append(box, m)[i] = box[i]
           \/ Append(box, m)[i] = m /\ m.type = "Terminate"
    BY <2>1 DEF Positions
  <2> QED
    BY <2>2 DEF Terminating
<1> QED
  BY <1>1, <1>2, <1>3 DEF IsNext

-----------------------------------------------------------------------------
(* What the runtime does that the operator need not be told.               *)

Mute == /\ UNCHANGED <<executed, completion, outcome>>
        /\ Terminating(supervisorBox') \subseteq Terminating(supervisorBox)

LEMMA MuteSteps ==
    ASSUME TypeOK,
           \/ WorldStep \/ PlannerStep \/ PlanReturns \/ ActionEnds
           \/ \E n \in Sensor : SensorStep(n)
           \/ DriverStep /\ ~TakeOutcome
    PROVE  Mute
<1>1. supervisorBox \in Seq(SupervisorMsg)
  BY DEF TypeOK, BoxesOK
<1>2. ASSUME \/ supervisorBox' = supervisorBox \/ supervisorBox' = <<>>
             \/ \E m : m.type # "Terminate" /\ supervisorBox' = Append(supervisorBox, m)
      PROVE  Terminating(supervisorBox') \subseteq Terminating(supervisorBox)
  BY <1>1, <1>2, TerminatingMoves
<1>3. CASE WorldStep
  <2>1. UNCHANGED <<executed, completion, outcome>>
    BY <1>3 DEF WorldStep, WorldAppliesReading, WorldAppliesActionEffects, WorldBootstraps,
           WorldWires, WorldStops, OutsideWorld, executorVars, supervisorVars, driverVars
  <2>2. \A w : \/ Notify(w) = supervisorBox
               \/ \E m : m.type # "Terminate" /\ Notify(w) = Append(supervisorBox, m)
    <3>1. \A w : \/ Notify(w) = supervisorBox
                 \/ Notify(w) = Append(supervisorBox, [type |-> "StateChanged", snapshot |-> w])
      BY DEF Notify, Send
    <3>2. \A w : [type |-> "StateChanged", snapshot |-> w].type # "Terminate"
      OBVIOUS
    <3> QED
      BY <3>1, <3>2
  <2>3. supervisorBox' = supervisorBox \/ \E w : supervisorBox' = Notify(w)
    BY <1>3 DEF WorldStep, WorldAppliesReading, WorldAppliesActionEffects, WorldBootstraps,
           WorldWires, WorldStops
  <2> QED
    BY <1>2, <2>1, <2>2, <2>3 DEF Mute
<1>4. CASE PlannerStep \/ PlanReturns
  <2>1. UNCHANGED <<executed, completion, outcome>>
    BY <1>4 DEF PlannerStep, PlannerStartsPlan, PlannerCoalesces, PlannerReports, PlannerWires,
           PlannerStops, PlanReturns, OutsidePlanner, executorVars, supervisorVars, driverVars
  <2>2. \/ supervisorBox' = supervisorBox
        \/ \E m : m.type # "Terminate" /\ supervisorBox' = Append(supervisorBox, m)
    <3>1. Report => \/ supervisorBox' = supervisorBox
                    \/ \E m : m.type # "Terminate" /\ supervisorBox' = Append(supervisorBox, m)
      <4> DEFINE m == [type |-> "PlanReady", result |-> Head(plannerBox).result,
                       snapshot |-> Head(plannerBox).snapshot]
      <4>1. m.type # "Terminate"
        OBVIOUS
      <4>2. Report => supervisorBox' = supervisorBox \/ supervisorBox' = Append(supervisorBox, m)
        BY DEF Report, Send
      <4> QED
        BY <4>1, <4>2
    <3> QED
      BY <1>4, <3>1 DEF PlannerStep, PlannerStartsPlan, PlannerCoalesces, PlannerReports,
             PlannerWires, PlannerStops, PlanReturns
  <2> QED
    BY <1>2, <2>1, <2>2 DEF Mute
<1>5. CASE ActionEnds
  BY <1>2, <1>5 DEF ActionEnds, OutsideExecutor, supervisorVars, driverVars, Mute
<1>6. ASSUME NEW n \in Sensor, SensorStep(n) PROVE Mute
  BY <1>2, <1>6 DEF SensorStep, SensorReports, SensorSkips, SensorStops, OutsideSensors, vars,
         boxes, executorVars, supervisorVars, driverVars, Mute
<1>7. CASE DriverStep /\ ~TakeOutcome
  <2>1. UNCHANGED <<executed, completion, outcome>>
    BY <1>7 DEF DriverStep, Sweep, SweepEnds, WireNext, StartSensors, BootstrapWorld, StopSensors,
           StopNext, Exit, OutsideDriver, executorVars, supervisorVars
  <2>2. ASSUME NEW m, m.type # "Terminate", NEW a, Post(a, m) PROVE Mute
    <3>1. supervisorBox' = supervisorBox \/ supervisorBox' = Append(supervisorBox, m)
      BY <2>2 DEF Post, Send
    <3> QED
      BY <1>2, <2>1, <2>2, <3>1 DEF Mute
  <2>3. CASE WireNext
    BY <2>2, <2>3 DEF WireNext
  <2>4. CASE BootstrapWorld \/ StopNext
    BY <2>2, <2>4 DEF BootstrapWorld, StopNext
  <2>5. CASE Sweep \/ SweepEnds \/ StartSensors \/ StopSensors \/ Exit
    BY <1>2, <2>1, <2>5 DEF Sweep, SweepEnds, StartSensors, StopSensors, Exit, boxes, Mute
  <2> QED
    BY <1>7, <2>3, <2>4, <2>5 DEF DriverStep
<1> QED
  BY <1>3, <1>4, <1>5, <1>6, <1>7

LEMMA ReasonsStay ==
    ASSUME Reasons, executed \in Nat, executed' \in {executed, executed + 1},
           MaxActions \in Nat, executed' <= MaxActions,
           FatalKnown => FatalKnown',
           completion # {} => \A k : PlanKnown(k) => PlanKnown(k)',
           completion \subseteq completion',
           \A o \in completion' : o \in completion \/ Reason(o)',
           \A o \in Terminating(supervisorBox') :
              \/ o \in Terminating(supervisorBox)
              \/ o \in {"ActionFailed", "MaxActionsReached", "Error"} /\ Reason(o)',
           outcome' = outcome \/ outcome' \subseteq completion' \cup {"Interrupted"}
    PROVE  Reasons'
<1>1. \A o \in completion : Reason(o)'
  BY DEF Reasons, Reason
<1>2. \A o \in Terminating(supervisorBox) :
         o \in {"ActionFailed", "MaxActionsReached", "Error"} /\ Reason(o)'
  BY DEF Reasons, Reason
<1>3. outcome' \subseteq completion' \cup {"Interrupted"}
  BY DEF Reasons
<1>4. Terminating(supervisorBox)' = Terminating(supervisorBox')
  BY DEF Terminating, Positions
<1> QED
  BY <1>1, <1>2, <1>3, <1>4 DEF Reasons

LEMMA CapStill ==
    IInv => executed \in Nat /\ MaxActions \in Nat /\ executed <= MaxActions
<1>1. MaxActions \in Nat
  BY RuntimeAssumption
<1>2. IInv => executed \in Nat /\ CapCoversInFlight
  BY DEF IInv, TypeOK, ExecutorOK
<1>3. executed \in Nat /\ CapCoversInFlight => executed <= MaxActions
  <2>1. CASE actionTask # {} \/ Has(executorBox, "ActionFinished")
    BY <1>1, <2>1 DEF CapCoversInFlight
  <2>2. CASE ~(actionTask # {} \/ Has(executorBox, "ActionFinished"))
    BY <1>1, <2>2 DEF CapCoversInFlight
  <2> QED
    BY <2>1, <2>2
<1> QED
  BY <1>1, <1>2, <1>3

LEMMA CapStillNext == IInv' => executed' <= MaxActions
<1>1. IInv => executed <= MaxActions
  BY CapStill
<1>2. IInv' => (executed <= MaxActions)'
  BY <1>1, PTL
<1> QED
  BY <1>2

(* A step that tells at most that a sensor was read. *)
LEMMA MuteKeeps ==
    ASSUME IInv, IInv', ExecuteInv, Mute, UNCHANGED screen,
           NEW e, e.type = "Sensed", channel' \in {channel, Append(channel, e)}
    PROVE  Reasons' /\ CountKnown'
<1>1. channel \in Seq(Event)
  BY DEF ExecuteInv, ProcessOK
<1>2. /\ FatalKnown => FatalKnown'
      /\ \A k : PlanKnown(k) => PlanKnown(k)'
  BY <1>1, SayingKeeps
<1>3. executed' = executed /\ executed \in Nat /\ MaxActions \in Nat /\ executed' <= MaxActions
  BY CapStill DEF Mute
<1>4. Reasons'
  BY <1>2, <1>3, ReasonsStay DEF ExecuteInv, Mute
<1>5. Cardinality(Positions(channel', "Executed")) = Cardinality(Positions(channel, "Executed"))
  <2>1. Cardinality(Positions(channel, "Executed")) \in Nat
    BY <1>1, PositionsFinite, FS_CardinalityType
  <2>2. Cardinality(Positions(Append(channel, e), "Executed")) =
           Cardinality(Positions(channel, "Executed")) + (IF e.type = "Executed" THEN 1 ELSE 0)
    BY <1>1, PostedCounts
  <2>3. e.type # "Executed"
    OBVIOUS
  <2>4. Cardinality(Positions(Append(channel, e), "Executed")) =
           Cardinality(Positions(channel, "Executed"))
    BY <2>1, <2>2, <2>3
  <2>5. CASE channel' = channel
    BY <2>5
  <2>6. CASE channel' = Append(channel, e)
    BY <2>4, <2>6
  <2> QED
    BY <2>5, <2>6
<1>6. CountKnown'
  BY <1>3, <1>5 DEF ExecuteInv, CountKnown, Positions
<1> QED
  BY <1>4, <1>6

-----------------------------------------------------------------------------
(* The supervisor and the executor.                                        *)

LEMMA SupervisorKeepsReasons ==
    ASSUME IInv, IInv', ExecuteInv, SupervisorEmits
    PROVE  Reasons' /\ CountKnown'
<1>1. channel \in Seq(Event) /\ TypeOK /\ (done <=> completion # {})
  BY DEF ExecuteInv, ProcessOK, IInv, Deciding
<1>2. /\ SupervisorStep /\ UNCHANGED <<screen, executed, outcome>>
  BY DEF SupervisorEmits, Emits, SupervisorStep, SupervisorForwardsChange, SupervisorIgnoresPlan,
         SupervisorMeetsPlannerError, SupervisorHasNothingToRun, SupervisorDispatches,
         SupervisorTerminates, SupervisorWires, SupervisorStops, OutsideSupervisor, executorVars,
         driverVars
<1>3. executed \in Nat /\ MaxActions \in Nat /\ executed' \in {executed, executed + 1}
      /\ executed' <= MaxActions
  BY <1>2, CapStill, CapStillNext
<1>4. supervisorBox \in Seq(SupervisorMsg) /\ supervisorBox # <<>>
      /\ supervisorBox' \in {<<>>, Tail(supervisorBox)}
  BY <1>1, <1>2 DEF TypeOK, BoxesOK, SupervisorStep, SupervisorForwardsChange,
     SupervisorIgnoresPlan, SupervisorMeetsPlannerError, SupervisorHasNothingToRun,
     SupervisorDispatches, SupervisorTerminates, SupervisorWires, SupervisorStops, Wire, Halt, IsNext
<1>5. Terminating(supervisorBox') \subseteq Terminating(supervisorBox)
  BY <1>4, TerminatingMoves
<1> DEFINE planned_ == [type |-> "Planned", plan |-> PlanShown(Head(supervisorBox).result.kind)]
<1>6. PICK e : e = planned_
  OBVIOUS
<1>7. e.type = "Planned" /\ e.plan = PlanShown(Head(supervisorBox).result.kind)
  BY <1>6
<1>8. channel' = IF IsNext(supervisorBox, "PlanReady") /\ ~done THEN Append(channel, e) ELSE channel
  BY <1>1, <1>6, Said DEF SupervisorEmits, Emits
<1> HIDE DEF planned_
<1>9. FatalKnown => FatalKnown'
  BY <1>1, <1>2, <1>8, SayingKeeps
<1>10. completion # {} => \A k : PlanKnown(k) => PlanKnown(k)'
  <2> SUFFICES ASSUME completion # {} PROVE \A k : PlanKnown(k) => PlanKnown(k)'
    OBVIOUS
  <2>1. channel' = channel
    BY <1>1, <1>8
  <2> QED
    BY <1>1, <1>2, <2>1, SayingKeeps
<1>11. CountKnown'
  <2>1. Cardinality(Positions(Append(channel, e), "Executed")) =
           Cardinality(Positions(channel, "Executed")) + (IF e.type = "Executed" THEN 1 ELSE 0)
    BY <1>1, PostedCounts
  <2>2. Cardinality(Positions(channel, "Executed")) \in Nat
    BY <1>1, PositionsFinite, FS_CardinalityType
  <2>3. Cardinality(Positions(channel', "Executed")) = Cardinality(Positions(channel, "Executed"))
    BY <1>7, <1>8, <2>1, <2>2
  <2> QED
    BY <1>2, <2>3 DEF ExecuteInv, CountKnown, Positions
<1>12. ASSUME completion \subseteq completion', \A o \in completion' : o \in completion \/ Reason(o)'
       PROVE  Reasons'
  BY <1>2, <1>3, <1>5, <1>9, <1>10, <1>12, ReasonsStay DEF ExecuteInv
<1>13. CASE UNCHANGED supervisorVars
  BY <1>11, <1>12, <1>13 DEF supervisorVars
<1>14. CASE SupervisorMeetsPlannerError
  <2>1. completion = {} /\ completion' = {"Error"}
    BY <1>1, <1>14 DEF SupervisorMeetsPlannerError, Finish
  <2> QED
    BY <1>11, <1>12, <2>1 DEF Reason
<1>15. CASE (SupervisorHasNothingToRun /\ ~Watch)
  <2> DEFINE kind == Head(supervisorBox).result.kind
  <2>1. completion = {} /\ kind \in {"none", "empty"}
        /\ completion' = {IF kind = "none" THEN "NoPlan" ELSE "GoalSatisfied"}
    BY <1>1, <1>15 DEF SupervisorHasNothingToRun, Finish
  <2>2. channel' = Append(channel, e)
    BY <1>8, <1>15 DEF SupervisorHasNothingToRun
  <2>3. e.plan = kind
    BY <1>7, <2>1 DEF PlanShown
  <2> HIDE DEF kind
  <2>4. PlanKnown(e.plan)'
    BY <1>1, <1>7, <2>2, SaidPlan
  <2>5. kind = "none" => PlanKnown("none")'
    BY <2>3, <2>4
  <2>6. kind = "empty" => PlanKnown("empty")'
    BY <2>3, <2>4
  <2>7. \A o \in completion' : Reason(o)'
    BY <2>1, <2>5, <2>6 DEF Reason
  <2> QED
    BY <1>11, <1>12, <2>1, <2>7
<1>16. CASE SupervisorTerminates
  <2>1. completion' = IF done THEN completion ELSE {Head(supervisorBox).outcome}
    BY <1>16 DEF SupervisorTerminates, Finish
  <2>2. Head(supervisorBox).outcome \in Terminating(supervisorBox)
    BY <1>4, <1>16, TerminatingMoves DEF SupervisorTerminates
  <2>3. PICK o : o = Head(supervisorBox).outcome
    OBVIOUS
  <2>4. o \in {"ActionFailed", "MaxActionsReached", "Error"} /\ Reason(o)
    BY <2>2, <2>3 DEF ExecuteInv, Reasons
  <2>5. Reason(o)'
    BY <1>2, <1>9, <2>4 DEF Reason
  <2> QED
    BY <1>1, <1>11, <1>12, <2>1, <2>3, <2>5
<1>17. \/ UNCHANGED supervisorVars \/ SupervisorMeetsPlannerError
       \/ (SupervisorHasNothingToRun /\ ~Watch) \/ SupervisorTerminates
  BY <1>2 DEF SupervisorStep, SupervisorForwardsChange, SupervisorIgnoresPlan,
     SupervisorHasNothingToRun, SupervisorDispatches, SupervisorWires, SupervisorStops
<1> QED
  BY <1>11, <1>13, <1>14, <1>15, <1>16, <1>17

LEMMA ExecutorKeepsReasons ==
    ASSUME IInv, IInv', ExecuteInv, ExecutorEmits
    PROVE  Reasons' /\ CountKnown'
<1>1. channel \in Seq(Event) /\ TypeOK /\ ExecutorStep /\ UNCHANGED screen
  BY DEF ExecuteInv, ProcessOK, IInv, ExecutorEmits, Emits
<1>2. UNCHANGED <<completion, outcome>>
  BY <1>1 DEF ExecutorStep, ExecutorKeepsPlan, ExecutorHitsCap, ExecutorStartsAction,
     ExecutorMeetsError, ExecutorAppliesSuccess, ExecutorRecovers, ExecutorFails,
     TakeResult, ExecutorWires, ExecutorStops, OutsideExecutor, supervisorVars, driverVars
<1>3. executed \in Nat /\ MaxActions \in Nat /\ executed <= MaxActions /\ executed' <= MaxActions
  BY CapStill, CapStillNext
<1> DEFINE executed_ == [type |-> "Executed", action |-> Head(executorBox).action,
                         success |-> Head(executorBox).result = "success"]
<1>4. PICK e : e = executed_
  OBVIOUS
<1>5. e.type = "Executed" /\ e.action = Head(executorBox).action
      /\ e.success = (Head(executorBox).result = "success")
  BY <1>4
<1>6. channel' = IF IsNext(executorBox, "ActionFinished") /\ Head(executorBox).result # "error"
                 THEN Append(channel, e) ELSE channel
  BY <1>1, <1>4, Said DEF ExecutorEmits, Emits
<1> HIDE DEF executed_
<1>7. executed' = IF IsNext(executorBox, "ActionFinished") /\ Head(executorBox).result # "error"
                  THEN executed + 1 ELSE executed
  BY <1>1 DEF ExecutorStep, ExecutorKeepsPlan, ExecutorHitsCap, ExecutorStartsAction,
     ExecutorMeetsError, ExecutorAppliesSuccess, ExecutorRecovers, ExecutorFails,
     TakeResult, ExecutorWires, ExecutorStops, Wire, Halt, IsNext, executorVars
<1>8. /\ FatalKnown => FatalKnown'
      /\ \A k : PlanKnown(k) => PlanKnown(k)'
  BY <1>1, <1>5, <1>6, SayingKeeps
<1>9. CountKnown'
  <2>1. Cardinality(Positions(Append(channel, e), "Executed")) =
           Cardinality(Positions(channel, "Executed")) + 1
    BY <1>1, <1>5, PostedCounts
  <2>2. Cardinality(Positions(channel, "Executed")) \in Nat /\ screen.executed \in Nat
    BY <1>1, PositionsFinite, FS_CardinalityType DEF ExecuteInv, ProcessOK
  <2>3. screen.executed + Cardinality(Positions(channel', "Executed")) = executed'
    <3>1. screen.executed + Cardinality(Positions(channel, "Executed")) = executed
      BY DEF ExecuteInv, CountKnown
    <3>2. CASE IsNext(executorBox, "ActionFinished") /\ Head(executorBox).result # "error"
      <4>1. channel' = Append(channel, e) /\ executed' = executed + 1
        BY <1>6, <1>7, <3>2
      <4> QED
        BY <2>1, <2>2, <3>1, <4>1
    <3>3. CASE ~(IsNext(executorBox, "ActionFinished") /\ Head(executorBox).result # "error")
      BY <1>6, <1>7, <3>1, <3>3
    <3> QED
      BY <3>2, <3>3
  <2> QED
    BY <1>1, <2>3 DEF CountKnown, Positions
<1>10. ASSUME \A o \in Terminating(supervisorBox') :
                 \/ o \in Terminating(supervisorBox)
                 \/ o \in {"ActionFailed", "MaxActionsReached", "Error"} /\ Reason(o)'
       PROVE  Reasons'
  BY <1>2, <1>3, <1>7, <1>8, <1>10, ReasonsStay DEF ExecuteInv
<1>11. ASSUME NEW o, Terminate(o)
       PROVE  Terminating(supervisorBox') \subseteq Terminating(supervisorBox) \cup {o}
  <2> DEFINE m == [type |-> "Terminate", outcome |-> o]
  <2>1. m.outcome = o /\ supervisorBox' \in {supervisorBox, Append(supervisorBox, m)}
    BY <1>11 DEF Terminate, Send
  <2> HIDE DEF m
  <2> QED
    BY <1>1, <2>1, TerminatingMoves DEF TypeOK, BoxesOK
<1>12. CASE UNCHANGED supervisorBox
  BY <1>9, <1>10, <1>12
<1>13. CASE ExecutorMeetsError
  <2>1. Terminating(supervisorBox') \subseteq Terminating(supervisorBox) \cup {"Error"}
    BY <1>11, <1>13 DEF ExecutorMeetsError
  <2> QED
    BY <1>9, <1>10, <2>1 DEF Reason
<1>14. CASE ExecutorHitsCap
  <2>1. Terminating(supervisorBox') \subseteq Terminating(supervisorBox) \cup {"MaxActionsReached"}
    BY <1>11, <1>14 DEF ExecutorHitsCap
  <2>2. executed' = MaxActions
    BY <1>3, <1>14, CapStill DEF ExecutorHitsCap
  <2>3. Reason("MaxActionsReached")'
    BY <2>2 DEF Reason
  <2> QED
    BY <1>9, <1>10, <2>1, <2>3
<1>15. CASE ExecutorFails
  <2>1. Terminating(supervisorBox') \subseteq Terminating(supervisorBox) \cup {"ActionFailed"}
    BY <1>11, <1>15 DEF ExecutorFails
  <2>2. IsFatal(e) /\ channel' = Append(channel, e)
    BY <1>5, <1>6, <1>15 DEF IsFatal, ExecutorFails, TakeResult
  <2>3. FatalKnown'
    BY <1>1, <2>2, SaidFatal
  <2>4. Reason("ActionFailed")'
    BY <2>3 DEF Reason
  <2> QED
    BY <1>9, <1>10, <2>1, <2>4
<1> QED
  BY <1>1, <1>9, <1>12, <1>13, <1>14, <1>15
     DEF ExecutorStep, ExecutorKeepsPlan, ExecutorStartsAction, ExecutorAppliesSuccess,
         ExecutorRecovers, ExecutorWires, ExecutorStops

-----------------------------------------------------------------------------
(* The process.                                                            *)

LEMMA EmitsTyped ==
    ASSUME ProcessOK, process = "running", UNCHANGED <<process, screen, exit>>,
           NEW e \in Event, channel' \in {channel, Append(channel, e)}
    PROVE  ProcessOK'
<1>1. channel' \in Seq(Event)
  <2>1. channel \in Seq(Event)
    BY DEF ProcessOK
  <2>2. Append(channel, e) \in Seq(Event)
    BY <2>1
  <2> QED
    BY <2>1, <2>2
<1> QED
  BY <1>1 DEF ProcessOK

(* What a step that is not reported, or reported as a reading, leaves.     *)
LEMMA MuteKeepsAll ==
    ASSUME IInv, IInv', ExecuteInv, process = "running", UNCHANGED <<process, screen, exit>>,
           Mute, channel' \in {channel \o <<>>, channel \o <<[type |-> "Sensed"]>>}
    PROVE  ExecuteInv'
<1> DEFINE e == [type |-> "Sensed"]
<1>1. e.type = "Sensed" /\ e \in Event
  BY DEF Event
<1>2. channel' \in {channel, Append(channel, e)}
  BY Said DEF ExecuteInv, ProcessOK
<1> HIDE DEF e
<1>3. Reasons' /\ CountKnown'
  BY <1>1, <1>2, MuteKeeps
<1>4. ProcessOK'
  BY <1>1, <1>2, EmitsTyped DEF ExecuteInv
<1> QED
  BY <1>3, <1>4 DEF ExecuteInv

(* Nothing of the runtime moves and nothing is sent. *)
LEMMA StillKeeps ==
    ASSUME ExecuteInv, UNCHANGED <<executed, completion, outcome, supervisorBox, channel>>,
           screen'.plan = screen.plan, screen'.executed = screen.executed,
           screen'.fatal = screen.fatal
    PROVE  Reasons' /\ CountKnown'
<1>1. \A k : PlanKnown(k)' <=> PlanKnown(k)
  BY DEF PlanKnown, Positions
<1>2. FatalKnown' <=> FatalKnown
  BY DEF FatalKnown, IsFatal
<1>3. \A o : Reason(o) => Reason(o)'
  BY <1>1, <1>2 DEF Reason
<1>4. Terminating(supervisorBox)' = Terminating(supervisorBox)
  BY DEF Terminating, Positions
<1>5. Reasons'
  BY <1>3, <1>4 DEF ExecuteInv, Reasons
<1>6. CountKnown'
  BY DEF ExecuteInv, CountKnown, Positions
<1> QED
  BY <1>5, <1>6

LEMMA ProcessMoves ==
    ASSUME ExecuteInv, CannotStart \/ Start \/ Listen \/ Kill \/ Gone \/ UNCHANGED executeVars
    PROVE  ExecuteInv'
<1>1. /\ UNCHANGED <<executed, completion, outcome, supervisorBox, channel>>
      /\ UNCHANGED screen
  BY DEF CannotStart, Start, Listen, Kill, Gone, executeVars, processVars, vars, executorVars,
         supervisorVars, driverVars, boxes
<1>2. Reasons' /\ CountKnown'
  BY <1>1, StillKeeps
<1>3. CASE UNCHANGED <<process, exit>>
  BY <1>1, <1>2, <1>3 DEF ExecuteInv, ProcessOK
<1>4. CASE CannotStart
  <2>1. outcome = {} /\ screen.complete = {} /\ process' = "exited" /\ exit' = {2}
        /\ channel = <<>>
    BY <1>4 DEF CannotStart, ExecuteInv, ProcessOK
  <2> QED
    BY <1>1, <1>2, <2>1 DEF ExecuteInv, ProcessOK
<1>5. CASE Start \/ Kill
  <2>1. process # "exited" /\ process' \in {"running", "killed"} /\ exit' = exit
    BY <1>5 DEF Start, Kill
  <2> QED
    BY <1>1, <1>2, <2>1 DEF ExecuteInv, ProcessOK
<1> QED
  BY <1>3, <1>4, <1>5 DEF Listen, Gone, executeVars, processVars

LEMMA RenderKeeps ==
    ASSUME IInv, ExecuteInv, Render
    PROVE  ExecuteInv'
<1>1. UNCHANGED <<executed, completion, outcome, supervisorBox>>
  BY DEF Render, vars, executorVars, supervisorVars, driverVars, boxes
<1>2. /\ FatalKnown => FatalKnown'
      /\ \A k : PlanKnown(k) => PlanKnown(k)'
      /\ screen'.executed + Cardinality(Positions(channel', "Executed")) = executed
  BY ShowingKeeps DEF ExecuteInv
<1>3. Reasons'
  <2>1. \A o : Reason(o) => Reason(o)'
    BY <1>1, <1>2 DEF Reason
  <2>2. Terminating(supervisorBox)' = Terminating(supervisorBox)
    BY <1>1 DEF Terminating, Positions
  <2> QED
    BY <1>1, <2>1, <2>2 DEF ExecuteInv, Reasons
<1>4. CountKnown'
  BY <1>1, <1>2 DEF CountKnown, Positions
<1>5. ProcessOK'
  <2>1. /\ process = "running" /\ UNCHANGED <<process, exit, outcome>>
        /\ channel \in Seq(Event) /\ channel # <<>> /\ channel' = Tail(channel)
    BY <1>1 DEF ExecuteInv, ProcessOK, Render
  <2>2. channel' \in Seq(Event)
    BY <2>1
  <2>3. Head(channel) \in Event
    BY <2>1
  <2>4. /\ DOMAIN screen' = {"plan", "executed", "fatal", "complete"}
        /\ screen'.executed \in Nat /\ screen'.fatal \in BOOLEAN
        /\ screen'.complete = screen.complete
    <3>1. DOMAIN screen = {"plan", "executed", "fatal", "complete"}
          /\ screen.executed \in Nat /\ screen.fatal \in BOOLEAN
      BY DEF ExecuteInv, ProcessOK
    <3>2. screen' = Shown(Head(channel))
      BY DEF Render
    <3> QED
      BY <3>1, <3>2 DEF Shown
  <2> QED
    BY <2>1, <2>2, <2>4 DEF ExecuteInv, ProcessOK
<1> QED
  BY <1>3, <1>4, <1>5 DEF ExecuteInv

LEMMA CompleteKeeps ==
    ASSUME IInv, ExecuteInv, Complete
    PROVE  ExecuteInv'
<1>1. /\ process = "running" /\ process' = "exited" /\ channel = <<>> /\ channel' = <<>>
      /\ UNCHANGED <<executed, completion, outcome>> /\ supervisorBox' = <<>>
      /\ screen' = [screen EXCEPT !.complete = outcome]
      /\ exit' = {ExitCode(o) : o \in outcome}
  BY DEF Complete, Exit, supervisorVars
<1>2. DOMAIN screen = {"plan", "executed", "fatal", "complete"}
  BY DEF ExecuteInv, ProcessOK
<1>3. /\ DOMAIN screen' = DOMAIN screen /\ screen'.complete = outcome
      /\ screen'.plan = screen.plan /\ screen'.executed = screen.executed
      /\ screen'.fatal = screen.fatal
  BY <1>1, <1>2
<1>4. \A o : Reason(o) => Reason(o)'
  <2>1. \A k : PlanKnown(k)' <=> PlanKnown(k)
    BY <1>1, <1>3 DEF PlanKnown, Positions
  <2>2. FatalKnown' <=> FatalKnown
    BY <1>1, <1>3 DEF FatalKnown, IsFatal
  <2> QED
    BY <1>1, <2>1, <2>2 DEF Reason
<1>5. Terminating(supervisorBox)' = {}
  BY <1>1 DEF Terminating, Positions
<1>6. Reasons'
  BY <1>1, <1>4, <1>5 DEF ExecuteInv, Reasons
<1>7. CountKnown'
  BY <1>1, <1>3 DEF ExecuteInv, CountKnown, Positions
<1>8. ProcessOK'
  BY <1>1, <1>2, <1>3 DEF ExecuteInv, ProcessOK
<1> QED
  BY <1>6, <1>7, <1>8 DEF ExecuteInv

(* The driver takes what was decided, or hears the operator. *)
LEMMA TakingKeeps ==
    ASSUME IInv, IInv', ExecuteInv, Silently(TakeOutcome) \/ HearSignal
    PROVE  ExecuteInv'
<1>1. /\ process = "running" /\ UNCHANGED <<process, screen, exit, channel>>
      /\ UNCHANGED <<executed, completion, supervisorBox>>
      /\ outcome' \subseteq completion \cup {"Interrupted"}
  <2>1. CASE Silently(TakeOutcome)
    BY <2>1, Said DEF ExecuteInv, ProcessOK, Silently, Emits, TakeOutcome, OutsideDriver,
       executorVars, supervisorVars, boxes
  <2>2. CASE HearSignal
    BY <2>2 DEF HearSignal, Interrupt, OutsideDriver, executorVars, supervisorVars, boxes,
       processVars
  <2> QED
    BY <2>1, <2>2
<1>2. \A o : Reason(o) => Reason(o)'
  BY <1>1 DEF Reason, PlanKnown, FatalKnown, IsFatal, Positions
<1>3. Terminating(supervisorBox)' = Terminating(supervisorBox)
  BY <1>1 DEF Terminating, Positions
<1>4. Reasons'
  BY <1>1, <1>2, <1>3 DEF ExecuteInv, Reasons
<1>5. CountKnown'
  BY <1>1 DEF ExecuteInv, CountKnown, Positions
<1>6. ProcessOK'
  BY <1>1 DEF ExecuteInv, ProcessOK
<1> QED
  BY <1>4, <1>5, <1>6 DEF ExecuteInv

LEMMA SupervisorKeeps ==
    ASSUME IInv, IInv', ExecuteInv, SupervisorEmits
    PROVE  ExecuteInv'
<1> DEFINE e == [type |-> "Planned", plan |-> PlanShown(Head(supervisorBox).result.kind)]
<1>1. Reasons' /\ CountKnown'
  BY SupervisorKeepsReasons
<1>2. CASE IsNext(supervisorBox, "PlanReady") /\ ~done
  <2>1. channel' = Append(channel, e) /\ process = "running" /\ UNCHANGED <<process, screen, exit>>
    BY <1>2, Said DEF SupervisorEmits, Emits, ExecuteInv, ProcessOK
  <2>2. Head(supervisorBox) \in SupervisorMsg
    BY <1>2 DEF IInv, TypeOK, BoxesOK, IsNext
  <2>3. Head(supervisorBox).result \in PlanResult
    BY <1>2, <2>2, SupervisorMessageFields DEF IsNext
  <2>4. Head(supervisorBox).result.kind \in {"none", "empty", "error", "steps"}
    BY <2>3 DEF PlanResult
  <2>5. e \in Event
    BY <2>4 DEF PlanShown, Event
  <2> HIDE DEF e
  <2>6. ProcessOK'
    BY <2>1, <2>5, EmitsTyped DEF ExecuteInv
  <2> QED
    BY <1>1, <2>6 DEF ExecuteInv
<1>3. CASE ~(IsNext(supervisorBox, "PlanReady") /\ ~done)
  <2>1. channel' = channel /\ process = "running" /\ UNCHANGED <<process, screen, exit>>
    BY <1>3, Said DEF SupervisorEmits, Emits, ExecuteInv, ProcessOK
  <2> QED
    BY <1>1, <2>1 DEF ExecuteInv, ProcessOK
<1> QED
  BY <1>2, <1>3

LEMMA ExecutorKeeps ==
    ASSUME IInv, IInv', ExecuteInv, ExecutorEmits
    PROVE  ExecuteInv'
<1> DEFINE e == [type |-> "Executed", action |-> Head(executorBox).action,
                 success |-> Head(executorBox).result = "success"]
<1>1. Reasons' /\ CountKnown'
  BY ExecutorKeepsReasons
<1>2. CASE IsNext(executorBox, "ActionFinished") /\ Head(executorBox).result # "error"
  <2>1. channel' = Append(channel, e) /\ process = "running" /\ UNCHANGED <<process, screen, exit>>
    BY <1>2, Said DEF ExecutorEmits, Emits, ExecuteInv, ProcessOK
  <2>2. Head(executorBox) \in ExecutorMsg
    BY <1>2 DEF IInv, TypeOK, BoxesOK, IsNext
  <2>3. Head(executorBox).action \in Action
    BY <1>2, <2>2, ExecutorMessageFields DEF IsNext
  <2>4. e \in Event
    BY <2>3 DEF Event
  <2> HIDE DEF e
  <2>5. ProcessOK'
    BY <2>1, <2>4, EmitsTyped DEF ExecuteInv
  <2> QED
    BY <1>1, <2>5 DEF ExecuteInv
<1>3. CASE ~(IsNext(executorBox, "ActionFinished") /\ Head(executorBox).result # "error")
  <2>1. channel' = channel /\ process = "running" /\ UNCHANGED <<process, screen, exit>>
    BY <1>3, Said DEF ExecutorEmits, Emits, ExecuteInv, ProcessOK
  <2> QED
    BY <1>1, <2>1 DEF ExecuteInv, ProcessOK
<1> QED
  BY <1>2, <1>3

LEMMA ExecuteInvStep ==
    ASSUME IInv, IInv', ExecuteInv, [ExecuteNext]_executeVars
    PROVE  ExecuteInv'
<1>1. TypeOK
  BY DEF IInv
<1>2. ASSUME NEW A, Silently(A), Mute PROVE ExecuteInv'
  BY <1>2, MuteKeepsAll DEF Silently, Emits
<1>3. CASE WorldEmits
  <2>1. Mute
    BY <1>1, <1>3, MuteSteps DEF WorldEmits, Emits
  <2> QED
    BY <1>3, <2>1, MuteKeepsAll DEF WorldEmits, Emits
<1>4. CASE SweepEmits
  <2>1. Mute
    <3>1. Sweep
      BY <1>4 DEF SweepEmits, Emits
    <3>2. ~TakeOutcome
      BY <3>1 DEF Sweep, TakeOutcome
    <3> QED
      BY <1>1, <3>1, <3>2, MuteSteps DEF DriverStep
  <2> QED
    BY <1>4, <2>1, MuteKeepsAll DEF SweepEmits, Emits
<1>5. CASE \/ Silently(PlannerStep) \/ Silently(PlanReturns) \/ Silently(ActionEnds)
  BY <1>1, <1>5, MuteSteps, MuteKeepsAll DEF Silently, Emits
<1>6. ASSUME NEW n \in Sensor, Silently(SensorStep(n)) PROVE ExecuteInv'
  BY <1>1, <1>6, MuteSteps, MuteKeepsAll DEF Silently, Emits
<1>7. CASE \/ Silently(SweepEnds \/ WireNext \/ StartSensors \/ BootstrapWorld)
           \/ Silently(StopSensors \/ StopNext)
  <2>1. DriverStep /\ ~TakeOutcome
    BY <1>7 DEF Silently, Emits, DriverStep, SweepEnds, WireNext, StartSensors, BootstrapWorld,
       StopSensors, StopNext, TakeOutcome
  <2>2. Mute
    BY <1>1, <2>1, MuteSteps
  <2> QED
    BY <1>7, <2>2, MuteKeepsAll DEF Silently, Emits
<1>8. Silently(TakeOutcome \/ StopSensors \/ StopNext) =>
         Silently(TakeOutcome) \/ Silently(StopSensors \/ StopNext)
  BY DEF Silently, Emits
<1> QED
  BY <1>3, <1>4, <1>5, <1>6, <1>7, <1>8, ProcessMoves, RenderKeeps, CompleteKeeps, TakingKeeps,
     SupervisorKeeps, ExecutorKeeps DEF ExecuteNext, DriverEmits

LEMMA ExecuteInvInit == ExecuteInit => ExecuteInv
<1> SUFFICES ASSUME ExecuteInit PROVE ExecuteInv
  OBVIOUS
<1>1. ProcessOK
  BY DEF ExecuteInit, Init, ProcessOK
<1>2. Reasons
  BY DEF ExecuteInit, Init, Reasons, Terminating, Positions
<1>3. CountKnown
  <2>1. Positions(channel, "Executed") = {}
    BY DEF ExecuteInit, Positions
  <2> QED
    BY <2>1, FS_EmptySet DEF ExecuteInit, Init, CountKnown
<1> QED
  BY <1>1, <1>2, <1>3 DEF ExecuteInv

-----------------------------------------------------------------------------
LEMMA InvariantExplains == ASSUME IInv, ExecuteInv PROVE ScreenExplainsExit
<1>1. /\ process = "exited" => screen.complete = outcome /\ channel = <<>>
      /\ process # "exited" => screen.complete = {} /\ exit = {}
      /\ process = "exited" /\ outcome # {} => exit = {ExitCode(o) : o \in outcome}
  BY DEF ExecuteInv, ProcessOK
<1>2. ASSUME NEW o \in screen.complete
      PROVE  /\ exit = {ExitCode(o)}
             /\ o = "GoalSatisfied" => screen.plan = "empty"
             /\ o = "NoPlan" => screen.plan = "none"
             /\ o = "ActionFailed" => screen.fatal
             /\ o = "MaxActionsReached" => screen.executed = MaxActions
  <2>1. process = "exited" /\ o \in outcome /\ channel = <<>>
    BY <1>1, <1>2
  <2>2. outcome = {o}
    BY <2>1 DEF IInv, TypeOK, DriverOK, Option
  <2>3. exit = {ExitCode(o)}
    BY <1>1, <2>1, <2>2
  <2>4. o = "Interrupted" \/ Reason(o)
    BY <2>1 DEF ExecuteInv, Reasons
  <2>5. \A t : Positions(channel, t) = {}
    BY <2>1 DEF Positions
  <2>6. \A k : PlanKnown(k) => screen.plan = k
    BY <2>5 DEF PlanKnown
  <2>7. FatalKnown => screen.fatal
    BY <2>1 DEF FatalKnown
  <2>8. screen.executed = executed
    <3>1. screen.executed + Cardinality(Positions(channel, "Executed")) = executed
      BY DEF ExecuteInv, CountKnown
    <3>2. Cardinality(Positions(channel, "Executed")) = 0
      BY <2>5, FS_EmptySet
    <3>3. screen.executed \in Nat
      BY DEF ExecuteInv, ProcessOK
    <3> QED
      BY <3>1, <3>2, <3>3
  <2> QED
    BY <2>3, <2>4, <2>6, <2>7, <2>8 DEF Reason
<1> QED
  BY <1>1, <1>2 DEF ScreenExplainsExit

(* When `run --execute` exits, the operator has been shown what the run    *)
(* was decided by - the empty plan, the lack of one, the fatal failure, or *)
(* as many executed actions as the cap allows - and the exit code agrees   *)
(* with the last line, in whatever order the events, the outcome and the   *)
(* stopping of the actors came (runtime.rs, the select and the teardown of *)
(* run; main.rs, run_execute_mode).                                        *)
THEOREM ScreenTellsWhy == ExecuteSpec => []ScreenExplainsExit
<1>1. ExecuteInit => ExecuteInv
  BY ExecuteInvInit
<1>2. IInv /\ IInv' /\ ExecuteInv /\ [ExecuteNext]_executeVars => ExecuteInv'
  BY ExecuteInvStep
<1>3. IInv /\ ExecuteInv => ScreenExplainsExit
  BY InvariantExplains
<1>4. ExecuteSpec => []IInv
  BY ExecuteRunsRuntime, IInvCorrect, PTL
<1> QED
  BY <1>1, <1>2, <1>3, <1>4, PTL DEF ExecuteSpec

=============================================================================
