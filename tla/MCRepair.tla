------------------------------ MODULE MCRepair ------------------------------
(***************************************************************************)
(* A configuration after the recoverable-failure test of the runtime       *)
(* (actors/runtime.rs): the cheap action may fail and unlocks a costly     *)
(* one.  A capturing sensor makes both applicable; its fact may go away.   *)
(***************************************************************************)
EXTENDS AgentRuntime

RepairFacts   == {"card", "slow", "finished"}
RepairActions == {"try_fast", "try_slow"}
RepairOrder   == <<"try_fast", "try_slow">>

RepairLibrary ==
    [a \in RepairActions |->
        IF a = "try_fast"
        THEN [cost |-> 1, requires |-> {"card"}, forbids |-> {"slow"},
              adds |-> {"finished"}, removes |-> {},
              onFailure |-> {[add |-> {"slow"}, remove |-> {}]}]
        ELSE [cost |-> 5, requires |-> {"card"}, forbids |-> {},
              adds |-> {"finished"}, removes |-> {"slow"}, onFailure |-> {}]]

RepairGoal == [requires |-> {"finished"}, forbids |-> {}]

RepairSensors == [n \in {"card"} |->
                    [onSuccess |-> {}, onFailure |-> {}, capture |-> TRUE]]
RepairSweep   == <<"card">>

RepairResults == [a \in RepairActions |->
                    IF a = "try_fast" THEN {"success", "failure"}
                    ELSE {"success", "failure", "error"}]
=============================================================================
