------------------------------ MODULE Commands ------------------------------
(***************************************************************************)
(* The short commands of uncharles (main.rs), from the configuration file  *)
(* to the exit code: `run --dry-run`; `run`, which senses and plans once   *)
(* (run.rs, sense_and_plan); and `inspect`, which runs nothing, explores   *)
(* what the planner would see and looks for flaws (inspect.rs).  Beside    *)
(* them a program may call the planner itself, the command "library".      *)
(*                                                                         *)
(* PlannerSearch is the call of the planner.  Until a command makes the    *)
(* call, the variable initial is the state it builds for it.  A report is  *)
(* what it tells the reader; how the four formats lay it out is left out.  *)
(***************************************************************************)
EXTENDS PlannerPromises, Sensing

CONSTANT Drafts    \* what a file that parses may hold, as libraries

(* Config::validate: no action requires what it forbids. *)
Validate(lib) == \A a \in Action : lib[a].requires \cap lib[a].forbids = {}

ASSUME DraftsAssumption ==
    \A lib \in Drafts : lib \in [Action -> ActionSpec] /\ (Validate(lib) => lib = Library)

Command == [name : {"library", "dry-run"}] \cup [name : {"run", "inspect"}, have : State]

VARIABLES
    command,    \* the subcommand and its --have facts
    stage,      \* "load", "sense", "call" or "exited"
    succeeded,  \* for each sensor run so far, whether it succeeded
    values,     \* the captured values
    report,     \* what the command has printed on stdout, if anything
    exit        \* its exit code, once it has one

commandVars == <<command, stage, succeeded, values, report, exit>>
processVars == <<vars, commandVars>>

CommandInit ==
    /\ Init
    /\ command \in Command
    /\ \/ command.name = "library" /\ stage = "call"
       \/ command.name = "dry-run" /\ stage = "load" /\ call = "plan" /\ initial = {}
       \/ command.name = "run" /\ stage = "load" /\ call = "plan" /\ initial = command.have
       \/ command.name = "inspect" /\ stage = "load" /\ call = "explore_for_goal" /\ initial = {}
    /\ succeeded = <<>> /\ values = [n \in Sensor |-> {}]
    /\ report = {} /\ exit = {}

Exit(code) == stage' = "exited" /\ exit' = {code}

-----------------------------------------------------------------------------
(* Loading, the same for every command. *)
CannotRead ==
    /\ stage = "load"
    /\ Exit(2)
    /\ UNCHANGED <<vars, command, succeeded, values, report>>

Refuses ==
    /\ stage = "load"
    /\ \E lib \in Drafts : ~Validate(lib)
    /\ Exit(2)
    /\ UNCHANGED <<vars, command, succeeded, values, report>>

Loads(name) == /\ stage = "load" /\ command.name = name
               /\ \E lib \in Drafts : Validate(lib)

(* Every list of the configuration is printed. *)
PrintDryRun ==
    /\ Loads("dry-run")
    /\ Exit(0)
    /\ report' = {[format |-> "dry-run"]}
    /\ UNCHANGED <<vars, command, succeeded, values>>

-----------------------------------------------------------------------------
(* The one-shot run: the sensors one after the other, then one plan. *)
StartSensing ==
    /\ Loads("run")
    /\ stage' = "sense"
    /\ UNCHANGED <<vars, command, succeeded, values, report, exit>>

Due(n) == /\ stage = "sense"
          /\ Len(succeeded) < Len(SweepOrder)
          /\ n = SweepOrder[Len(succeeded) + 1]

RunSensor ==
    /\ \E n \in Sensor, success \in BOOLEAN : \E c \in Captures(n, success) :
          LET after == ApplyReading([facts |-> initial, values |-> values],
                                    ReadingOf(n, success, c))
          IN  /\ Due(n)
              /\ initial' = after.facts /\ values' = after.values
              /\ succeeded' = Append(succeeded, success)
    /\ UNCHANGED <<call, phase, graph, queue, expanding, next, truncated, answer,
                   command, stage, report, exit>>

SensorCannotRun ==
    /\ \E n \in Sensor : Due(n)
    /\ Exit(2)
    /\ UNCHANGED <<vars, command, succeeded, values, report>>

StartPlanning ==
    /\ stage = "sense"
    /\ Len(succeeded) = Len(SweepOrder)
    /\ stage' = "call"
    /\ UNCHANGED <<vars, command, succeeded, values, report, exit>>

(* The call of the planner, step by step. *)
PlannerSteps == stage = "call" /\ Next /\ UNCHANGED commandVars

Returned(name) == stage = "call" /\ phase = "answered" /\ command.name = name

(* Mutant of OutcomeCode: an empty plan is taken for none. *)
OutcomeCodeOfSteps(a) == IF a.kind = "plan" /\ a.steps # <<>> THEN 0 ELSE 1

OutcomeCode(a) == IF a.kind = "plan" THEN 0 ELSE 1

PrintOutcome ==
    /\ Returned("run")
    /\ \E a \in answer :
          /\ a.kind # "error"
          /\ report' = {[format |-> "outcome", state |-> initial, plan |-> a,
                         readings |-> succeeded, values |-> values]}
          /\ Exit(OutcomeCode(a))
    /\ UNCHANGED <<vars, command, succeeded, values>>

PrintError ==
    /\ Returned("run")
    /\ \E a \in answer : a.kind = "error"
    /\ Exit(2)
    /\ UNCHANGED <<vars, command, succeeded, values, report>>

-----------------------------------------------------------------------------
(* inspect: the state as if every sensor had succeeded, the --have facts   *)
(* on top of it, and the exploration from there.  The loop over the        *)
(* sensors adds and then removes, so that after k of them there is what    *)
(* one has added and neither it nor a later one has removed.               *)
SimulatedTo(k) ==
    {f \in Fact : \E i \in 1..k :
        /\ f \in EffectsFor(SweepOrder[i], TRUE).add
        /\ \A j \in i..k : f \notin EffectsFor(SweepOrder[j], TRUE).remove}

(* Mutant of SimulatedInitialState: what a sensor removes is forgotten. *)
SimulatedKeeping(have) ==
    UNION {EffectsFor(SweepOrder[i], TRUE).add : i \in DOMAIN SweepOrder} \cup have

SimulatedInitialState(have) == SimulatedTo(Len(SweepOrder)) \cup have

Simulate ==
    /\ Loads("inspect")
    /\ initial' = SimulatedInitialState(command.have)
    /\ stage' = "call"
    /\ UNCHANGED <<call, phase, graph, queue, expanding, next, truncated, answer,
                   command, succeeded, values, report, exit>>

(* What a sensor adds when it fails does not count. *)
Producers == (UNION {EffectsFor(n, TRUE).add : n \in Sensor})
             \cup (UNION {Library[a].adds : a \in Action})

Orphans == {o \in Action \X Fact : o[2] \in Library[o[1]].requires \ Producers}

UnreachableGoalFacts == Goal.requires \ Producers

Outgoing(s)  == {e \in DOMAIN edges : e[1] = s}

(* Mutant of IsDeadEnd: a state whose only edge leads to itself counts. *)
IsDeadEndButLoops(s) == Outgoing(s) \subseteq {<<s, s>>}

IsDeadEnd(s) == Outgoing(s) = {}

DeadEnds == {s \in discovered : IsDeadEnd(s) /\ s \notin goalStates}

IsClean == Orphans = {} /\ UnreachableGoalFacts = {} /\ DeadEnds = {}

-----------------------------------------------------------------------------
(* Every format shows the states with their marks, the edges, whether the  *)
(* graph is cut short, and the findings; not all repeat the configuration. *)
GraphSection == [nodes     |-> [s \in discovered |-> [isInitial |-> s = initial,
                                                      isGoal |-> s \in goalStates]],
                 edges     |-> edges,
                 truncated |-> truncated]

FindingsSection == [orphans |-> Orphans, unreachable |-> UnreachableGoalFacts,
                    deadEnds |-> DeadEnds]

TextReport    == [format |-> "text", config |-> "listed", initial |-> initial,
                  graph |-> GraphSection, findings |-> FindingsSection]
DotReport     == [format |-> "dot", config |-> "counted", initial |-> initial,
                  graph |-> GraphSection, findings |-> FindingsSection]
MermaidReport == [DotReport EXCEPT !.format = "mermaid"]
JsonReport    == [TextReport EXCEPT !.format = "json"]

(* The exit code does not tell a graph that has been cut short. *)
PrintReport ==
    /\ Returned("inspect")
    /\ \E r \in {TextReport, DotReport, MermaidReport, JsonReport} : report' = {r}
    /\ Exit(IF IsClean THEN 0 ELSE 1)
    /\ UNCHANGED <<vars, command, succeeded, values>>

(* The planner has returned to a program that called it. *)
LibraryReturns ==
    /\ Returned("library")
    /\ stage' = "exited"
    /\ UNCHANGED <<vars, command, succeeded, values, report, exit>>

AfterExit == stage = "exited" /\ UNCHANGED processVars

-----------------------------------------------------------------------------
CommandNext ==
    \/ CannotRead \/ Refuses
    \/ PrintDryRun
    \/ StartSensing \/ RunSensor \/ SensorCannotRun \/ StartPlanning
    \/ Simulate
    \/ PlannerSteps
    \/ PrintOutcome \/ PrintError \/ PrintReport \/ LibraryReturns
    \/ AfterExit

(* One sequential program, and the commands of sensors return. *)
CommandSpec == /\ CommandInit /\ [][CommandNext]_processVars
               /\ WF_processVars(CommandNext)

=============================================================================
