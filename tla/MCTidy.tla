------------------------------- MODULE MCTidy -------------------------------
(***************************************************************************)
(* A watcher that keeps an inbox empty.  The sensor inbox captures what it *)
(* sees; tidy removes the fact and may fail without leaving a trace; the   *)
(* fact alarm, which another sensor sets and ack clears, makes the states  *)
(* to explore more than MaxStates.                                         *)
(***************************************************************************)
EXTENDS AgentRuntime

TidyFacts   == {"inbox", "alarm"}
TidyActions == {"tidy", "ack"}
TidyOrder   == <<"tidy", "ack">>

TidyLibrary ==
    [a \in TidyActions |->
        IF a = "tidy"
        THEN [cost |-> 2, requires |-> {"inbox"}, forbids |-> {},
              adds |-> {}, removes |-> {"inbox"},
              onFailure |-> {[add |-> {}, remove |-> {}]}]
        ELSE [cost |-> 1, requires |-> {"alarm"}, forbids |-> {},
              adds |-> {}, removes |-> {"alarm"}, onFailure |-> {}]]

TidyGoal == [requires |-> {}, forbids |-> {"inbox"}]

TidySensors == [n \in {"inbox", "alarm"} |->
                  [onSuccess |-> {}, onFailure |-> {}, capture |-> n = "inbox"]]

(* The same, with a capturing sensor whose on_success names another fact.  *)
RenamingSensors ==
    [TidySensors EXCEPT !["inbox"].onSuccess = {[add |-> {"alarm"}, remove |-> {}]}]

TidySweep   == <<"inbox", "alarm">>

TidyResults == [a \in TidyActions |-> {"success", "failure"}]
=============================================================================
