# Verification of automata-atelier

TLA+ models of the programs of this repository: `uncharles`, an agent runtime
that senses the world, plans and acts; `goap-planner`, the planner it uses; and
`grafo`, the graph library below the planner; and the photo archiver, the example
that ships with `uncharles`. TLC checks the models on small configurations;
TLAPS proves theorems about the core for every configuration.

## 1. The system

| Component | State | Operations | Talks to |
|---|---|---|---|
| World state actor (`actors/world_state.rs`) | facts, captured values, subscriber | `ApplyReading`, `ApplyActionEffects`, `Bootstrap`, `SetSubscriber` | supervisor (`StateChanged`) |
| Planner actor (`actors/planner.rs`) | `busy`, `pending`, supervisor | `PlanRequest`, `PlanComputed`, a detached `plan()` call | supervisor (`PlanReady`) |
| Goal supervisor (`actors/goal_supervisor.rs`) | `done`, oneshot channel, planners, executor | `StateChanged`, `PlanReady`, `Terminate` | planner, executor, driver |
| Executor (`actors/executor.rs`) | `latest`, `busy`, `executed` | `AdoptPlan`, `ActionFinished`, a detached command | world (effects), supervisor (`Terminate`) |
| Sensors (`actors/sensor.rs`) | polling loop | `Tick` | world (readings) |
| Driver (`actors/runtime.rs`) | phase of `AgentRuntime::run` | sweep, wiring, select, tear-down | all |
| Readings and effects (`run.rs`, `config.rs`) | none | `read_sensor`, `apply_reading`, `effects_for`, `sense_and_plan` | child processes |
| Command line (`main.rs`, `config.rs`) | stdout, exit code, signal handlers | `run`, `run --dry-run`, `run --execute`, `inspect`, validation of the file | all above |
| Planner (`goap-planner/src`) | none | `plan`, `explore`, `bfs_raw` | grafo |
| Graph (`grafo/src/graph.rs`) | CSR arrays | construction, Dijkstra and its variants | |
| Search workspace (`grafo/src/workspace.rs`) | stamps, distances, heap, generation | `begin`, stamped reads and writes | |
| Inspection (`uncharles/src/inspect.rs`) | none | simulated initial state, analysis of graph and configuration, four report formats | goap-planner |
| Photo archiver (`examples/photo-archiver-uncharles`) | active session (a journal), archives with manifest and receipt, lock | `copy`, `notify`, `reset`; the sensors | uncharles runs the scripts, the card comes and goes |

What is hard here: seven kinds of concurrent parties exchange messages in both
directions, two kinds of detached tasks answer whenever they please, references
are injected after the actors run, readings keep arriving while plans and
actions are in flight, and a tear-down that does not wait for anybody. Every
message carries a snapshot that may be stale when it is used. The archiver is the
other hard part: short processes over files, which may be killed between any two
writes and are launched again on facts that were true some time ago. `PROJECT.json`
lists each hazard at its line with the properties that watch it.

## 2. The modules

| Module | Models | Notes |
|---|---|---|
| `Goap` | the planning problem and what `Planner::plan` may answer | a state is a set of facts; a cost is whatever an `f64` may be, negative, infinite and NaN included |
| `Sensing` | sensors, what a run of one may read, and what a reading does to facts and values | used by the runtime and by the short commands |
| `RuntimeState` | messages and the variables of the runtime | extends `Sensing`; every other runtime module extends it |
| `WorldStateActor`, `PlannerActor`, `GoalSupervisorActor`, `ExecutorActor`, `SensorActor` | one actor each, one action per handler or branch of a handler | a handler is one step: it is not interleaved inside |
| `RuntimeDriver` | `AgentRuntime::run` and the exit code of `run_execute_mode` | one action per `await` |
| `AgentRuntime` | the composition: `Init`, `Next`, fairness, the properties | |
| `ActionLoop` | the abstract specification: one action after the other, one verdict | implemented by `AgentRuntime` |
| `MCRepair`, `MCTidy` | two configurations of facts, actions and sensors for TLC | |
| `ExecuteCommand` | the process of `run --execute`: event channel, output, signal handlers, exit code | composes `AgentRuntime` with what the operator sees |
| `MCExecute` | `ExecuteCommand` with the configuration of `MCRepair` | |
| `PlannerSearch` | one call of `plan`, `explore` or `explore_for_goal`: the search of `bfs_raw`, popped state by popped state and action by action, and the answer | a call touches nothing shared, so it is a machine of its own |
| `PlannerPromises` | what such a call promises | |
| `Commands` | `run`, `run --dry-run` and `inspect` from the file to the exit code, and a program that calls the planner | composes `Sensing` with the search, which it runs step by step |
| `CommandPromises` | what findings and exit codes promise | |
| `MCSearch` | a library with ties, free actions, cycles, dead ends and every flaw `inspect` looks for | |
| `GraphQueries` | graphs, queries, answers, and the answer that is expected: the least cost of all routes | routes are the least set that is closed under edges, so that the same definition is checked and proved |
| `Dijkstra` | `dijkstra_cost` with the checks before it: one query after the other, each with distances of its own | the abstract search |
| `WorkspaceSearch` | `SearchWorkspace::begin` and `dijkstra_cost_with_workspace` | implements `Dijkstra` |
| `CsrGraph` | `new_with_attrs`: checks, counting, prefix sums, placing, shifting | |
| `PathSearch` | `shortest_path_filtered`, `dijkstra_path`, `reconstruct_path`, `resolve_labels` on a constructed graph | extends `CsrGraph`; implements `Dijkstra` |
| `MCWorkspace`, `MCPath` | graphs, edge lists and queries for TLC | |
| `PhotoArchiver` | the scripts of the example, one action per write to disk, and the daemon that launches them | with crashes, failing operations and changes of the card |
| `MCArchiver` | three cards for TLC | |
| `AgentRuntimeProofs`, `ExecuteProofs`, `CommandProofs`, `PathProofs`, `DijkstraProofs`, `WorkspaceProofs`, `ArchiverProofs` | the theorems and their lemmas | see section 5 |
| `Induction` | induction over the natural numbers as facts about sets of numbers | see section 5 |

How the code corresponds:

- An actor's fields are variables (`planBusy`, `planPending`, `latest`,
  `execBusy`, `executed`, `done`); references set by the `Set*` messages are the
  members of `wired`; `Option<T>` is a set with at most one element.
- A mailbox is a FIFO sequence (`worldBox`, ...). An actor takes the head and
  handles it to the end. A message to an actor that has stopped is lost, as
  every caller ignores the error of `tell`. Between the last `await` of one
  handler and the next the actor holds no lock and reads nothing, so the steps
  of different actors interleave freely, handler by handler.
- `planTask` and `actionTask` are the tasks that run `plan()` and a command off
  the actor. They end by a step of their own and post to their actor's mailbox.
- `stop_gracefully` puts a `Stop` behind the mail already there: what is ahead
  of it is still handled, what is behind it is lost.
- `Exit` is the return of `run` and the drop of the tokio runtime: every task
  and every message is gone.
- The local variables of `bfs_raw` are the variables of `PlannerSearch`:
  `signatures` is `discovered`, a state standing for its own signature;
  `edge_map`, `goal_state_sigs` and `queue` keep their roles; `expanding` and
  `next` are the loop's current state and the position in the library. The
  shortest path is grafo's: `CheapestRoutes` lets it be any cheapest one, which
  is all that Dijkstra over a hash map's order promises. The configuration checks
  no cost. `Cost` has the negative numbers, infinity (`MaxCost + 1`) and `NaN`,
  and `Cheaper` compares as `f64` does, so that `edge_map` keeps a NaN that comes
  first. What `Graph::new` then refuses (`Accepted`), or a cheapest route that
  overflows, is `AnswerGraphError`; a goal out of reach is answered before grafo
  is called. Costs are integers and are added exactly: rounding is left out. The sorting and
  indexing of `materialise` are left out; that its lookups cannot fail is
  `GraphIsConsistent`.
- The runtime modules do not run this search: a `plan()` call answers with a
  member of `Goap!PlanResults`. That the search answers nothing else is checked
  by `AnswerIsAllowed` (run `Search`), so the two levels fit together.
- In `Commands`, `initial` is the state a command builds for the planner and
  `stage` how far it has come; `succeeded` are the exit statuses of the sweep. A
  `report` is what a reader is told, as a record; how text, DOT, Mermaid and
  JSON lay it out is left out. `Drafts` are the configurations a file that parses
  may hold; those that `Config::validate` refuses end with exit code 2.
- In `ExecuteCommand`, a step of an actor also puts into `channel` the events its
  handler sends. `screen` keeps what the output lets the operator conclude: the
  last plan, the number of executed actions, whether one failed fatally, the
  final line. The select of the driver is biased, so an outcome that is there
  goes before the events, and the loop after it receives what is left. Until the
  driver first waits no signal handler is installed (`listening`) and a signal
  kills the process.
- In `PhotoArchiver`, `process[s].at` is the program counter of an action script
  and every write to disk is a step: the journal, the link that publishes a
  photo, the manifest, the status, the receipt. The slot `child` is the action
  of the daemon, `orphan` one whose daemon was killed, or the operator's own
  `reset`. The data of a photo stands for its digest; the metadata are what the
  identity of a batch is made of. The values a process was launched with
  (`given`) are those the sensors last printed, as old as that may be; the facts
  without a value are read when it is launched, since they only decide how often
  an action is tried. `verify_archive` takes a step per photo (`VerifyPhoto` in copy
  and notify, `LookAtPhoto` in the sensor, whose progress is `look`) and one more
  for the inventory at its end; the card may change between any two, and a photo
  is compared with the card that is there at that moment. Any other look of a
  sensor is one step. Taking the lock and reading the records under it are one
  (`Open`), since nobody else writes them then, and what else may come between
  may as well come before. A `reset` that succeeds removes the values its facts
  carried; one that is refused has no `on_failure`, which ends the daemon, and
  the next one starts without any.
- What goes wrong in `PhotoArchiver` is of three kinds. A check or an operation
  inside a `try` fails and the handler marks the session as failed (`Fails`,
  `IOError`, which end in `MarkFailed`). Or the process ends and leaves no record
  (`CutShort`): it is killed, it fails outside the `try`, it meets an error that
  `copy_batch` does not catch (a `diskutil` that times out), or the write of its
  own handler fails as well, on the same full disk; the daemon then tries again.
  Or the daemon is killed and its action goes on (`KillDaemon`).
- A node of a grafo graph is its index, counted from 1; its attributes are what
  the filter of a query says of it (`accepted`), so a filter is a function of the
  node. A filter may panic whenever it is called (`AskPanics`, `FilterPanics`):
  the caller's workspace survives, with whatever is in its heap. The binary heap
  is a set: no entry is pushed twice, because a node is pushed with a smaller
  cost each time. Of the pops with equal cost the greatest node comes first, as
  the order on `(Reverse<u64>, u32)` says. Costs are exact up to `MaxCost` and
  `Infinite` beyond; the rounding of `f64` is left out.
- The generation runs to `MaxGeneration` and then to 1, as `wrapping_add` and the
  test for 0 do to 2^32 - 1; `Cleared` is the `fill` of `stamps`.
- `CsrGraph` takes one step per label and per edge placed and one for each of the
  other loops, which only read what the loop before has written.
- `epoch` in a snapshot and `planned` are history, not code: they count the
  effects applied and remember what the last `plan()` call was given. No guard
  reads them.

## 3. Runs

Bounds: `MaxReadings` bounds what sensors send after start-up (the code polls
for ever), `MaxActions` is the cap of the code itself. One reading suffices to
be in any race with an action or a plan; `Watch` takes two, so that one reading
can be coalesced while another is planned. `Value` has two members where values
matter (`Once`), so that a change of value without a change of fact occurs.

| Run | Configuration | Shows |
|---|---|---|
| `Once` | `MCRepair`, `--once`, cap 2, one late reading, fair | types; one action in flight; the cap; no lost update; an action's plan and snapshot belong together; the outcome is final; nothing is dispatched after it; the runtime implements `ActionLoop`; under fair scheduling every run ends |
| `Watch` | `MCTidy`, perpetual, two late readings, plan errors, fair | one plan in flight; never asleep with work left; values have their facts; when the sensors are quiet the watcher is decided or has converged for good |
| `Drain` | `MCRepair`, `--once`, cap 3, no late readings, signals at any time | actions are chosen from post-effect states as long as no reading interferes |
| `Execute` | `MCExecute`: `--once`, cap 2, no late readings, signals at any time, fair | the output explains the exit code; the process ends, however and whenever it is stopped |
| `Search` | `MCSearch`: every call from every state, `run` and `inspect` with every set of `--have` facts, cap 3, costs up to 2 and those grafo refuses, fair | types; the graph is the whole reachable graph with the action that is kept on every edge; a plan is executable, reaches the goal and is cheapest; an exploration is cut short exactly beyond the cap and consistent even then; the answers are those `Goap` allows; the findings of `inspect` are true; the simulated state is the best case of a run; exit codes mean what they say; every command ends |
| `Workspace` | `MCWorkspace`: eleven queries on three graphs, generations up to 3, costs up to 2 | types and buffer lengths; a current stamp is of this search; every answer is the least cost of all routes; the refinement of `Dijkstra` |
| `Path` | `MCPath`: 82 inputs, 8 queries, fair | types; rows hold exactly the edges given; exactly invalid input is refused; paths are simple, accepted, cheapest and cost what they say; the refinement of `Dijkstra`; every query is answered |
| `Archive` | `MCArchiver`: up to 4 sessions, 2 changes of the card; two of: 1 reset by the operator, 1 process or daemon cut short, 1 failing operation; fair | manifests and receipts are true of archive and card; no import or notification without cause; what a killed process leaves is resumed; the archiver comes to rest |
| `StalePlan` | one late reading, two values | **violation**: an action can be chosen from a state that precedes the effects of the last one, against the comment at `executor.rs:179` |
| `AfterFatal` | cap 3 | **violation**: an action starts after a fatal failure, against `config.rs:93` |
| `MidAction` | signals | **violation**: the executor stops mid-action and the effects are lost, against `uncharles/README.md:16` |
| `RenamedFact` | a capturing sensor that declares another fact | **violation**: a value without its fact, against ADR 0003 |

In `Search` four states are reachable from an axe alone, so that the cap 3 is
exceeded, and three from an axe with a log or a fire, so that it is reached
exactly and the search is complete. No action makes an axe, which most actions
and the goal require: every kind of finding occurs, true or overridden by
`--have axe`. One sensor removes what another adds, and one adds a fact when it
fails. Of the ways between two states one comes first with an infinite cost and
one last with NaN, and the cheapest is kept nevertheless. Where there is a gem the
graph has an edge of negative cost, or one whose first action costs NaN, or its
only plan overflows, or reaches `MaxCost` exactly: all answers of grafo occur, and
with them both errors behind exit code 2.

In `Archive` the cards are one with two photos; the same with both photos
overwritten and no trace in their metadata, so that a copy may be a mixture that
was on no card; and another one with a photo that looks alike. Two changes insert
a card and exchange, remove or overwrite it in the middle of anything, between
the copies of two photos and between the looks of a verification as well: a
mixture is copied, its manifest is written, and that it is never announced is what
the mutant of `IsIntact` breaks. A kill leaves an orphan beside the next action; an
operation may fail inside the `try` of an action, a process may be cut short and
the operator may reset what failed, two of these in one behaviour (`MaxTroubles`)
and each once (`MaxOfAKind`). With two changes and a reset at most three sessions
are allocated, so `MaxSessions` = 4 never binds (`OncePerInsertion`). The run has
381,713 states. `CHECK_DEADLOCK FALSE`, because the archiver does come to rest when
the card stays as it is; that it only rests where it should is `ImportSettles`.

What `ArchivesAreTrue` says of an announcement presupposes that the card was left
alone while notify hashed the photos (`disturbed`). The presupposition is needed:
`verify_archive` compares each photo with the card of that moment, so a mixture
passes if the card is exchanged between the same two photos each time. That takes
six changes of the card (one insertion, one in the copy, two each in the sensor's and
in notify's verification), more than the run has; the theorem `ArchivesStayTrue`
covers any number. The first two clauses, on manifests and photos, presuppose nothing.

In `StalePlan` a second `StateChanged` comes while the first action runs, and its plan
is on its way when the action finishes. The one late reading brings it about in two
ways: it precedes `Bootstrap`, leads to the action, and `Bootstrap` sends the world once
more; or it follows `Bootstrap` and changes the value. The executor is idle when
the plan arrives and adopts it before the replan that the effects cause.

In `Workspace` the graphs have two and three nodes, so that a slot can stay
unused while the generation wraps around, `MaxGeneration` 3 lets it come round
to an old stamp within a few queries of any order, and weights up to `MaxCost`
let a route overflow while another does not. Panics occur at every call of a
filter. `Path` takes every list of up to two edges out of eight (valid or not,
in the parallel branch from two edges on) and longer ones with empty rows,
edges out of order, parallel edges, cycles of cost zero and too many edges.

`MCRepair` has an action that fails recoverably, a costly substitute that may
also fail fatally or not start at all, and a sensor whose value both need.
`MCTidy` has an action that may fail without any trace (the replan cannot rely
on a change of facts), a sensor that makes the goal false again, and with
`MaxStates` 3 a planner error in the state where both sensors fire.

## 4. Fairness

`FairSpec` asks for weak fairness of each actor, each detached task and the
driver: tokio runs every task that is ready. It assumes that commands and
`plan()` return; a command that hangs hangs the run, in the code as well.
Nothing makes a sensor report or a signal arrive. Nothing is strongly fair.
`ExecuteFairness` is the same with the events added; the operator need not send a
signal. `CommandSpec`, and the `FairSpec`s of `PlannerSearch` and `PathSearch`,
ask that a call that can go on does: it is sequential code. Nobody is obliged to
ask a query. In `PhotoArchiver` each sensor is polled for ever, the daemon
launches an action when it may launch one, and each process takes its next step
unless it waits for the lock, which another process gives back when it ends;
cards need not change and nothing has to fail. The daemon of the model launches
actions for ever: one that is killed, or that ends because a reset failed, is
assumed to be started again by somebody (a service manager or the operator), as
nothing in the repository does it. `ImportSettles` rests on that; the safety
properties do not.

## 5. Proofs

| Theorem | States |
|---|---|
| | **The runtime** (`AgentRuntimeProofs`, for `Spec` of `AgentRuntime`) |
| `TypeCorrect` | `[]TypeOK` |
| `OneActionAtATime` | `[]OneActionInFlight` |
| `CapHolds` | `[]CapCoversInFlight` |
| `ActionsFollowTheirPlans` | `[]ActionMatchesSnapshot` |
| `OutcomeDecidedOnce` | `OutcomeIsFinal` |
| `RuntimeImplementsLoop` | `ImplementsActionLoop` |
| `OnePlanAtATime` | `[]OnePlanInFlight` |
| `DecidedRunIsQuiet` | `NothingDispatchedOnceDone` |
| `UpdatesAreNeverLost` | `[]NoLostUpdate` |
| `RestsOnlyWhenDone` | `[]NeverIdleWithWorkLeft` |
| `ValuesKeepTheirFacts` | `[]ValuesHaveFacts`, provided `CapturesOwnFact` |
| `QuietRunsActOnFreshState` | `[]ActsOnPostEffectState`, provided `MaxReadings = 0` |
| | **The process around it** (`ExecuteProofs`, for `ExecuteSpec`) |
| `ScreenTellsWhy` | `[]ScreenExplainsExit` |
| | **The planner and the commands** (`CommandProofs`) |
| `ExplorationExact` | `Spec => []ExplorationIsExact` |
| `CapExact` | `Spec => []CapIsExact` |
| `GraphConsistent` | `Spec => []GraphIsConsistent` |
| `PlannerTypes` | `CommandSpec => []TypeOK` (of `PlannerPromises`) |
| `PlansAreCheapest` | `CommandSpec => []PlanIsCheapest` |
| `PlansHaveNoRivals` | no sequence of actions at a price, of any length, reaches the goal for less, nor any of actions whatever they cost if no plan is found |
| `AnswersAreAllowed` | `CommandSpec => []AnswerIsAllowed` |
| `SimulationBounds` | `CommandSpec => []SimulationIsTheBestCase` |
| `FindingsSound` | `CommandSpec => []FindingsAreSound` |
| `ExitCodesMean` | `CommandSpec => []ExitCodeMeans` |
| | **grafo** (`DijkstraProofs`, `WorkspaceProofs`, `PathProofs`) |
| `DijkstraIsCorrect` | `Spec => []AnswerIsShortest` (of `Dijkstra`) |
| `WorkspaceTypeOK` | `Spec => []TypeOK` (of `WorkspaceSearch`) |
| `StampsAreCurrent` | `Spec => []StampsAreOfThisSearch` |
| `WorkspaceImplementsDijkstra` | `Spec => ImplementsOneShot` |
| `WorkspaceAnswerIsShortest` | `Spec => []AnswerIsShortest` (of `WorkspaceSearch`) |
| `ValidInputOnly` | `Spec => []RefusesExactlyInvalid` (of `PathSearch`) |
| `RowsExact` | `Spec => []RowsAreExact` (of `PathSearch`) |
| `PathTypes` | `Spec => []TypeOK` (of `PathSearch`) |
| `PathImplementsDijkstra` | `Spec => ImplementsOneShot` (of `PathSearch`) |
| `PathsAreCheapest` | `Spec => []PathIsCheapest` (of `PathSearch`) |
| | **The photo archiver** (`ArchiverProofs`, for `Spec` of `PhotoArchiver`) |
| `ArchiverTypes` | `[]TypeOK` |
| `OneAtTheRecords` | a process that has opened the records holds the lock and sees them as they are |
| `ArchivesStayTrue` | `[]ArchivesAreTrue` (of an announcement: unless the card changed while notify hashed it) |
| `ImportedOncePerInsertion` | `[]OncePerInsertion` (one more announcement per process cut short) |
| `ImportsSurviveCrashes` | `[]CrashesAreResumed` |
| `ManifestsAreForGood` | no step changes or removes a manifest that has been written |

They hold for every value of the constants that the assumptions in the modules
admit, and these ask for what the code checks or its types say: the set of facts
is finite, actions, sensors and goal are specifications over it, no action
requires what it forbids, the library lists every action (`Goap`, `Sensing`,
`RuntimeState`); the cost of an action may be anything an `f64` may be, since
`Config::validate` looks at none; of the drafts only the configuration itself passes
validation (`Commands`); edges lead to nodes and weights are finite and not
negative, which `CsrGraph` refuses otherwise (`GraphQueries`); an input is a list of
labels and one of edges (`CsrGraph`); a card has a finite number of photos
(`PhotoArchiver`); the bounds are numbers.

Two theorems have a hypothesis of their own, and each hypothesis has a run that
shows what happens without it. `CapturesOwnFact` says that a capturing sensor
changes the fact of its own name when it succeeds, which it does by default but
not if the file declares other effects: run `RenamedFact`. `MaxReadings = 0` says
that the sensors are quiet after start-up: run `StalePlan`.

Each invariant below was an `INVARIANT` of a run before it was proved (up to
624,165 states); several of them were strengthened on the way.

### The runtime

`TypeOK` is inductive by itself. The others rest on `IInv`:

- `Provenance`: every planned first step in a message is a possible answer of
  `plan()` for the snapshot beside it. `ActionMatchesSnapshot` speaks of the
  running action alone and is not inductive: the action comes from an
  `AdoptPlan`, that from a `PlanReady`, that from a `PlanComputed`.
- `Deciding`: `done`, `completion` and the driver's phase and outcome agree, so
  that the outcome taken is the one sent.
- `Quiescent`: after the exit no mail and no task is left, so that the
  properties that hold up to the exit are not disturbed by it.
- `OneActionInFlight` and `CapCoversInFlight` themselves, which need each other
  through the in-flight action.

`OnePlanInFlight` is inductive beside `IInv`: only the planner and its task post or
take a `PlanComputed`, and what any other step does to the planner is to post one
other message (`PlannerFrame`). `DecidedRunIsQuiet` looks at every step of a
decided run: a mailbox is unchanged, emptied, shortened by its head or extended
by another kind of message (`Undispatched`), so that the number of plans or
requests in it does not grow.

`UpdatesAreNeverLost` needs the order in which the runtime comes up. A
`StateChanged` is dropped by a supervisor without a planner and by a world
without a subscriber, so an update could be lost while references are still on
their way. `LiveInv` says why it is not: until there is an outcome nobody stops,
nothing but wiring is posted before the sensors start, what has been posted is
`wired` or waits in its mailbox, and wiring comes first there, so that whoever
takes another message has its references. On it stands `Fresh`: the newest world is
in the last `StateChanged` under way, or there is none and it is in the last
`PlanRequest`, or there is none and it is `pending`, or it is what was last
planned. `pending` may be overwritten exactly because of this order.

`RestsOnlyWhenDone` adds that a plan with a step is never dropped: `StaysAwake`,
while the last planned world has a step to offer somebody is at work on it. It
uses `UpdatesAreNeverLost` for the planned world being the present one, and
`OneKindOfAnswer`: in one world either every answer of the planner is a step or none.

`ValuesKeepTheirFacts` follows a reading from the sensor to the world
(`SoundReading`). `QuietRunsActOnFreshState` shows that without readings the loop
has a single turn (`TurnInv`): at any moment one message or one task carries the
run on, and the snapshot it carries has seen all effects.

The refinement maps the running action of `ActionLoop` to the command in flight
or its unhandled `ActionFinished`, `executed` to itself and the verdict to what
the driver will return. Only `Exit` and a stop of the executor drop an action,
and both come after the verdict.

For `ScreenTellsWhy` what waits in the event channel counts as shown. `Reasons`:
for every outcome that has been decided, or that a `Terminate` in the supervisor's
mailbox asks for, the events already posted tell the reason. `CountKnown`:
actions shown and waiting are together the actions executed. The drain after the
loop then puts everything on the screen before the summary.

### The planner and the commands

The theorems about the search hold for every finite set of facts, every library
in every order, every goal, cap and initial state. They rest on `Inv` of
`CommandProofs`:

- `QueueOK`: the queue holds discovered states, none twice, and not the one that
  is expanded. Without it a state could be expanded again later and an edge
  already complete be touched.
- `EdgesOK`: for each discovered state the actions already tried (`Tried`: none
  while it is queued, those before `next` while it is expanded, all afterwards)
  have left their edges, and each edge carries the best of the tried actions
  that connect its two states. `ExplorationIsExact` is its limit when the queue
  is empty: the discovered states are then closed under the actions, hence the
  whole `Hull`.
- `CapOK`: while more states are discovered than the cap allows, the queue is not
  empty, so the test that is made only on a pop is made. This is why the place
  of the test does not matter for *whether* an exploration is cut short.
- what is discovered lies in the `Hull` of the initial state, which is finite.

That the plan is cheapest compares three things that are defined by recursion: the
routes through the graph, the costs of `Goap!Plans`, and the sequences of actions
one could take. `Induction` makes this provable: induction is stated of a *set* of
numbers (`NatSet`, `UpTo`), since a lemma with an operator for a parameter cannot be
instantiated, and follows from the well-foundedness of finite sets; `Iterates` gives
the existence of what a recursive function defines. With it:

- `ReachableIsHull`: an iteration that grows a set of states is constant after as
  many rounds as there are states, so that `Reachable` in `Goap` and the `Hull` of
  the exploration are one set.
- `RoutesAreSimple`: `Routes` are the paths of the graph without repetition, all of
  them, and not only the short ones.
- `StepsAreBounded`: any steps from the initial state to a goal state, however many,
  follow edges that cost no more than they do, and what a detour ends in some
  route reaches for no more (`Near`, `NearStep`). `PlansAreBounded` is the same for
  `Goap!Plans`.
- `RestsArePlans`: from each state of a route its rest is a plan, of the cost that is
  left. So the cheapest route is a plan, the cheapest, and its first edge one of
  `FirstSteps`.

Costs that are infinite, negative or NaN make two of these arguments conditional.
The edge of two states carries the action that `IsBest` of those that connect them,
which is unique (`BestIsOne`) but not always the cheapest: a NaN that comes first
stays. Sums, routes and plans are compared only where grafo accepts the graph
(`Accepted`); there a plan takes only actions at a price (`Priced`), and none of
these costs less than the edge between its two states (`NoDearer`). Where an edge is
refused, or the cheapest route exceeds `MaxCost` (`OverflowIsOfAllPlans`), the answer
is the error that `GraphFails` allows, and `ErrorsMean` carries it to the exit code.

`AnswerOK` joins these with `Inv`; beyond the properties themselves it says that
`plan` searches only from a state that does not satisfy the goal.

`CommandInv` carries this search through the stages of a command and adds that,
as long as the sensors succeed, the state built by the sweep stays between the
simulated one and the simulated one with `--have` (`SensedOK`), that a report is
about the present answer (`ReportOK`) and that an exit code other than 2 comes
from an answer (`ExitOK`). The attempt to prove `SimulationIsTheBestCase` showed
that it had been stated for commands that never sweep; it now speaks of `run`.

### grafo

`DijkstraIsCorrect` holds for every graph and filter. Its invariant: every
distance is the cost of a
route; every discovered node is pending with its distance, or expanded with it
and not the target (`Settled`). When the target is popped with cost c, nodes
nearer than c are not pending, so their edges are relaxed, and the set of ends
that cost at least c or no less than the distance of their node is closed under
edges: all routes are in it (`NoCheaperRoute`). That settled nodes are never
improved again is not needed.

For the workspace `IInv` adds that no stamp exceeds the generation, and that what
is in the heap or expanded carries the current stamp. The first makes a new
generation start from no distances although nothing is cleared, and survives
the wrap-around because then everything is; the second is the reason why a pop
need not look at the stamp. The distances of `Dijkstra` are those of the slots with
the current stamp. `WorkspaceAnswerIsShortest` follows from the refinement and
`DijkstraIsCorrect`, instantiated with that mapping.

`ValidInputOnly` covers both branches of the edge check, the sequential and the
parallel one, and every number of nodes and edges. `LabelsOK`: the index is the
inverse of the labels taken so far, so that a duplicate is found when its second
occurrence is reached; `StageIsEarned`: a stage is reached by valid input only.

`RowsExact` is about the one array that is a count, a cursor and the result. `RowsOK`
says what it holds at each stage in terms of the edges given alone: `Count` (edges of
a node among the first k), `Start` (edges of all nodes before it) and `Arcs` (what the
row should hold by now). The cursor of a node is `Start + Count`, so what an edge is
placed into is the next free position of its row (`PositionFacts`: rows do not
overlap), and shifting the cursors by one gives the starts back, because each row is
full and the next begins where it ends. The sums are taken by induction over the nodes
(`StartFacts`), the rows by induction over the edges (`ArcsFacts`).

The search for a path stands on `SInv`. `ArraysOK` are the types; `SearchOK` and `PathOK`
say what holds while it searches and while it retraces:

- `Found` nodes are accepted and each has a `Parent`: a predecessor and an edge from it
  that accounts for its distance exactly. This relates two values that are written at
  different moments, and it stays true because a predecessor is always `Done`
  (discovered, and its entry popped), and what is done is never improved: its
  distance is at most that of the entry being expanded.
- For the same reason a node that is improved is nobody's predecessor, so that no
  improvement closes a cycle (`NoCycle`: every set of discovered nodes is left by some
  predecessor). Distances alone would not show it, since edges may cost nothing.
- `Nearer`: over a done node's edges nothing can be improved. Beside `Parent` it makes
  every edge of the tree the lightest of those between its two nodes, which is what
  `CostAlong` adds up.

`PathImplementsDijkstra` maps the distances to those that are not -1, a query to the
one about the edges given (`SameQuery`, by `RowsExact`'s invariant), and counts the
answer as given when the way back begins. The costs in `PathsAreCheapest` then come from
`DijkstraIsCorrect`, whose assumption about graphs is proved of every valid input
(`QueriesAreTyped`); that the path is one comes from `PathOK`: its first node has no
predecessor, hence is the source, and a node that came twice would close a cycle
(`PathIsSimple`). The costs along it are added up by induction (`CostsAddUp`).

### The photo archiver

The invariant has a part for each argument:

- `Disc` (`Single`, `SingleProcess`, `Locked`): the lock has one holder, and a
  process past the lock has seen the active record as it is. That is
  `OneAtTheRecords`; everything else stands on it.
- `RecordsOK`: what each archive, the active record and each program counter say
  of one another. The journal is ahead of what is published, a manifest is
  written when everything is, a receipt copies the manifest, and what a sensor
  once printed of a session stays true (`GivenOK`), however old it is, because
  manifests are never changed (`ManifestsAreForGood`) and identifiers never
  given twice.
- `CreditOK`: every session allocated is paid for by an insertion or a reset that no
  session has been allocated for yet (`Credit`). `OncePerInsertion` compares the two
  numbers and says nothing of who is about to allocate; the credit does.
- `AtWork` follows a verification photo by photo: what notify has hashed so far is
  still on the card, unless the session is `disturbed`. A failed look, and one that
  the card changed under, thus authorize nothing; a look that was not disturbed
  has compared all photos with one card. That the photo at hand is the least of
  those to do (`Min`) needs the least-number lemma of `Induction`
  (`ComparesPasses`).
- `SentOK`: a notification sent is recorded by the same process next, or the
  process was cut short, so that each time allows one more notification.
- `SameCard`: while the card is left alone what has been published matches it,
  which is what `CrashesAreResumed` is about.

### What stays with TLC

Every invariant, action property and refinement that a passing run checks is proved,
the two with a hypothesis under that hypothesis. What remains:

- Every liveness property (`OnceEnds`, `WatchSettles`, `ProcessEnds`, `CommandEnds`,
  `EveryQueryIsAnswered`, `ImportSettles`): liveness and `ENABLED` are out of the
  prover's reach. `NoCycle` above is the reason why the way back of a path ends.
- The four runs that show a disagreement are counterexamples.

## 6. Plan

1. The runtime (done): the modules above, their runs and theorems; the process
   around it (done): `ExecuteCommand`, run `Execute`.
2. The planner's search (done): `PlannerSearch`, `PlannerPromises`; the commands
   around it and the analysis of `inspect.rs` (done): `Commands`,
   `CommandPromises`, run `Search`; ten theorems. Left: libraries with two actions
   of one name.
3. grafo (done): the modules from `GraphQueries` to `PathSearch`, runs `Workspace`
   and `Path`, ten theorems.
4. The photo archiver (done): `PhotoArchiver`, run `Archive`, six theorems.
5. A runtime with bounded mailboxes, to see whether senders that wait for room
   can wait for each other.

## 7. Not modelled

- The layout of reports and events (`inspect.rs`, `main.rs`): what they tell is
  modelled, how they are written is not.
- Argument and YAML parsing (clap, serde), packaging, CI, benchmarks.
- The failure of an actor by a panic: kameo would stop it; the root supervisor
  of ADR 0005 does not exist in the code.
- `find_action_spec` failing: the planner is built from the same list. Two
  actions of one name, which the executor would take for one (see the plan).
- Bounded mailboxes (see the plan).
- In the archiver: the boundaries of paths (symbolic links, mount points), the
  validation of records and of what a camera card looks like, leftover temporary
  files and `mkdir`, which no later step takes for a photo. A failing write is
  modelled, a torn one is not: records are replaced by a rename.

Five more disagreements were met that no run shows. The comment at
`actors/mod.rs:94` says of an interrupted run "Exit 1" where `main.rs:253`
returns success, as its own comment wants; `ExitCode` follows the code. The text
report explains a dead end by "no applicable actions" (`inspect.rs:312`), also
for a state of a truncated graph that was never expanded; `FindingsAreSound` asks
for exact dead ends of complete graphs only. And the comment at
`actors/runtime.rs:46` has SIGINT and SIGTERM stop the run gracefully, which
holds from the first wait of the driver on; before it they are `Kill`. The README of
the photo archiver says that failures of copy and notify "persist `failed`",
"preventing automatic retry loops" (lines 200-201), and names a crash between the
submission and its receipt as what "can cause a repeat" (lines 228-229). It is more if
marking the session fails in its turn, nor, for copy, if `diskutil` times out, which
`copy_batch` does not catch: nothing is marked and the daemon tries again.
`OncePerInsertion` counts these processes among those cut short. Lastly the comment
at `goap-planner/src/state.rs:49` calls the signature of a state unambiguous for
arbitrary fact names; the separator is not escaped, so that the fact "a\x1Fb" and
the facts "a" and "b" have one signature. In `PlannerSearch` a state stands for its
own signature: what is shown of it holds of configurations without such names, and
without a state whose signature is `__GOAL_SINK__`, the name of the sink, which a fact
of that name would have.
