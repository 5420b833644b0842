---------------------------- MODULE AgentRuntime ----------------------------
(***************************************************************************)
(* The reactive runtime of uncharles as a whole: the actors, their         *)
(* detached tasks and the driver, interleaved; and what makes it correct.  *)
(***************************************************************************)
EXTENDS WorldStateActor, PlannerActor, GoalSupervisorActor, ExecutorActor,
        SensorActor, RuntimeDriver

Init ==
    /\ world = [facts |-> Seed, values |-> [n \in Sensor |-> {}], epoch |-> 0]
    /\ wired = {}
    /\ planBusy = FALSE /\ planPending = {} /\ planTask = {}
    /\ done = FALSE /\ completion = {}
    /\ latest = {} /\ execBusy = FALSE /\ executed = 0 /\ actionTask = {}
    /\ sensors = [n \in Sensor |-> "off"] /\ readings = 0
    /\ worldBox = <<>> /\ supervisorBox = <<>>
    /\ plannerBox = <<>> /\ executorBox = <<>>
    /\ stopped = {}
    /\ driver = "sweep" /\ at = 1 /\ outcome = {}
    /\ planned = world

(* After the process has exited nothing happens any more. *)
Terminated == driver = "exited" /\ UNCHANGED vars

Next == \/ WorldStep
        \/ PlannerStep \/ PlanReturns
        \/ SupervisorStep
        \/ ExecutorStep \/ ActionEnds
        \/ \E n \in Sensor : SensorStep(n)
        \/ DriverStep \/ Interrupt
        \/ Terminated

(***************************************************************************)
(* tokio runs every task that is ready, so every actor with mail, every    *)
(* detached task and the driver progress; commands and plan() are assumed  *)
(* to return.  Nothing makes a sensor report or the operator stop the run. *)
(***************************************************************************)
Fairness == /\ WF_vars(WorldStep)
            /\ WF_vars(PlannerStep) /\ WF_vars(PlanReturns)
            /\ WF_vars(SupervisorStep)
            /\ WF_vars(ExecutorStep) /\ WF_vars(ActionEnds)
            /\ WF_vars(DriverStep)
            /\ \A n \in Sensor : WF_vars(SensorStops(n))

Spec     == Init /\ [][Next]_vars
FairSpec == Spec /\ Fairness

-----------------------------------------------------------------------------
(* Type invariant.                                                         *)

Phase == {"sweep", "wire", "sense", "bootstrap", "select", "stopSensors",
          "stop", "return", "exited"}

BoxesOK == /\ worldBox \in Seq(WorldMsg)
           /\ supervisorBox \in Seq(SupervisorMsg)
           /\ plannerBox \in Seq(PlannerMsg)
           /\ executorBox \in Seq(ExecutorMsg)

PlannerOK == /\ planBusy \in BOOLEAN
             /\ planPending \in Option(Snapshot)
             /\ planTask \in Option(Snapshot)
             /\ planned \in Snapshot

ExecutorOK == /\ latest \in Option(AdoptPlan)
              /\ execBusy \in BOOLEAN
              /\ executed \in Nat
              /\ actionTask \in Option(ActionTask)

DriverOK == /\ driver \in Phase
            /\ at \in Nat \ {0}
            /\ driver = "wire" => at <= Len(Wiring)
            /\ driver = "stop" => at <= Len(StopOrder)
            /\ driver \notin {"sweep", "wire", "stop"} => at = 1
            /\ outcome \in Option(Outcome)

(* Every variable holds what its declaration in the code allows. *)
TypeOK == /\ BoxesOK /\ PlannerOK /\ ExecutorOK /\ DriverOK
          /\ world \in Snapshot
          /\ wired \subseteq Ref
          /\ done \in BOOLEAN
          /\ completion \in Option(Outcome)
          /\ sensors \in [Sensor -> {"off", "polling", "stopping", "stopped"}]
          /\ readings \in Nat
          /\ stopped \subseteq Actor

-----------------------------------------------------------------------------
(* Safety.                                                                 *)

Positions(box, t) == {i \in DOMAIN box : box[i].type = t}

(* At most one plan() call is in flight: the planner is busy exactly while *)
(* the call runs or its result waits in the mailbox, so a coalesced        *)
(* request is never run beside another (actors/planner.rs, PlanRequest).   *)
OnePlanInFlight ==
    "planner" \notin stopped /\ driver # "exited" =>
        /\ planBusy <=> planTask # {} \/ Has(plannerBox, "PlanComputed")
        /\ Has(plannerBox, "PlanComputed") => planTask = {}
        /\ \A i, j \in Positions(plannerBox, "PlanComputed") : i = j
        /\ planPending # {} => planBusy

(* At most one action is in flight, from the start of its command to the   *)
(* handling of its ActionFinished, so the effects of two actions are never *)
(* pending at once (actors/executor.rs, try_run_next).                     *)
OneActionInFlight ==
    "executor" \notin stopped /\ driver # "exited" =>
        /\ execBusy <=> actionTask # {} \/ Has(executorBox, "ActionFinished")
        /\ Has(executorBox, "ActionFinished") => actionTask = {}
        /\ \A i, j \in Positions(executorBox, "ActionFinished") : i = j

(* The cap bounds the actions started, not only those that have finished:  *)
(* the one in flight counts (actors/executor.rs, executed >= max_actions). *)
CapCoversInFlight ==
    executed + (IF actionTask # {} \/ Has(executorBox, "ActionFinished")
                THEN 1 ELSE 0) <= MaxActions

(* The last message of type t in box carries snapshot w.                   *)
LatestIs(box, t, w) ==
    \E i \in Positions(box, t) :
        box[i].snapshot = w /\ \A j \in Positions(box, t) : j <= i

(* The first plan has been asked for and the supervisor has not finished.  *)
Planning == driver = "select" /\ ~done /\ ~Has(worldBox, "Bootstrap")

(* No lost update: what the planner has planned last, or the newest        *)
(* snapshot on its way to the planner, is the present world.  Coalescing   *)
(* may drop intermediate worlds, never the latest one.                     *)
NoLostUpdate ==
    Planning =>
        \/ LatestIs(supervisorBox, "StateChanged", world)
        \/ /\ ~Has(supervisorBox, "StateChanged")
           /\ \/ LatestIs(plannerBox, "PlanRequest", world)
              \/ /\ ~Has(plannerBox, "PlanRequest")
                 /\ \/ planPending = {world}
                    \/ planPending = {} /\ planned = world

(* Nothing is under way: no mail, no plan and no action in flight.         *)
Idle == /\ worldBox = <<>> /\ supervisorBox = <<>>
        /\ plannerBox = <<>> /\ executorBox = <<>>
        /\ planTask = {} /\ actionTask = {}

(* The planner has an action to offer in the present world.                *)
WorkLeft == \E r \in PlanResults[world.facts] : r.kind = "steps"

(* The runtime never falls asleep with work left: plans that are discarded *)
(* because they arrived mid-action are always made up for by the replan    *)
(* that the action's effects trigger (executor.rs, ActionFinished).        *)
NeverIdleWithWorkLeft == Planning /\ Idle => ~WorkLeft

(* A value is kept only with its fact: there is no state in which the fact *)
(* has been removed and the value captured with it survives (ADR 0003).    *)
ValuesHaveFacts == \A n \in Sensor : world.values[n] # {} => n \in world.facts

(* The command of an action runs with the snapshot its plan was made from: *)
(* the action is a first step of a cheapest plan in that very snapshot,    *)
(* so the facts it requires, whose values it is given, hold there.         *)
ActionMatchesSnapshot ==
    \A t \in actionTask :
        /\ Starting(t.action) \in PlanResults[t.snapshot.facts]
        /\ Library[t.action].requires \subseteq t.snapshot.facts

(* The state an action is chosen from has seen the effects of every action *)
(* finished before it (executor.rs, the comment that ends ActionFinished). *)
ActsOnPostEffectState ==
    \A t \in actionTask : t.snapshot.epoch = executed

-----------------------------------------------------------------------------
(* What a step may never do.                                               *)

(* The outcome is decided once: the first report wins, the driver returns  *)
(* what was sent on the channel, and no later Terminate replaces it.       *)
OutcomeIsFinal ==
    [][/\ completion # {} => completion' = completion
       /\ outcome # {} => outcome' = outcome
       /\ outcome' # outcome => outcome' \in {completion, {"Interrupted"}}]_vars

(* Once the run is decided the supervisor dispatches nothing: no AdoptPlan *)
(* and no PlanRequest is posted after done.                                *)
NothingDispatchedOnceDone ==
    [][done =>
        /\ Cardinality(Positions(executorBox', "AdoptPlan"))
               <= Cardinality(Positions(executorBox, "AdoptPlan"))
        /\ Cardinality(Positions(plannerBox', "PlanRequest"))
               <= Cardinality(Positions(plannerBox, "PlanRequest"))]_vars

(* The failure of an action without on_failure has been reported.          *)
FatalReported ==
    \/ \E i \in Positions(supervisorBox, "Terminate") :
          supervisorBox[i].outcome = "ActionFailed"
    \/ completion = {"ActionFailed"}

Starts == actionTask = {} /\ actionTask' # {}

(* A failure without on_failure ends the run (config.rs, on_failure): no   *)
(* action starts after it.                                                 *)
NoActionAfterFatalFailure == [][FatalReported => ~Starts]_vars

(* The runtime drains between actions, never mid-action (README of         *)
(* uncharles): an executor that has stopped has no action in flight.       *)
DrainsBetweenActions == "executor" \in stopped => ~execBusy

-----------------------------------------------------------------------------
(* Liveness, under FairSpec.                                               *)

(* A --once run ends, whatever the sensors keep reporting.                 *)
OnceEnds == <>(driver = "exited")

(* A watcher settles once the sensors stay quiet: either the run is        *)
(* decided or no work is left for good.                                    *)
WatchSettles == <>[](done \/ ~WorkLeft)

-----------------------------------------------------------------------------
(* Implementation of the abstract loop.                                    *)

(* The action whose command runs or whose ActionFinished is not handled.   *)
InFlight == {t.action : t \in actionTask}
            \cup {executorBox[i].action : i \in Positions(executorBox, "ActionFinished")}

(* What run will return, as far as it is decided. *)
Verdict == IF outcome # {} THEN outcome ELSE completion

Loop == INSTANCE ActionLoop WITH running <- InFlight, verdict <- Verdict

(* Seen from outside, the actors, mailboxes and tasks do what a loop that  *)
(* runs one action after the other would do (actors/executor.rs).          *)
ImplementsActionLoop == Loop!Spec

=============================================================================
