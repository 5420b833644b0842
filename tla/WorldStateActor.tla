--------------------------- MODULE WorldStateActor ---------------------------
(***************************************************************************)
(* The sole owner of the world (actors/world_state.rs).                    *)
(***************************************************************************)
EXTENDS RuntimeState

OutsideWorld == <<plannerVars, supervisorVars, executorVars, sensorVars,
                  driverVars, plannerBox, executorBox>>

(* Push a snapshot of the world w to the subscriber, if one is wired. *)
Notify(w) ==
    IF "world.subscriber" \in wired
    THEN Send(supervisorBox, "supervisor", [type |-> "StateChanged", snapshot |-> w])
    ELSE supervisorBox

(* A reading triggers a replan only if it changes facts or values. *)
WorldAppliesReading ==
    /\ IsNext(worldBox, "ApplyReading")
    /\ world' = ApplyReading(world, Head(worldBox).reading)
    /\ supervisorBox' = IF world' # world THEN Notify(world') ELSE supervisorBox
    /\ worldBox' = Tail(worldBox)
    /\ UNCHANGED <<OutsideWorld, wired, stopped>>

(* Mutants of WorldAppliesActionEffects: edge-triggered like a reading; and *)
(* notifying before the effects are applied.                                *)
AppliesActionEffectsEdgeTriggered ==
    /\ IsNext(worldBox, "ApplyActionEffects")
    /\ world' = ApplyEffects(world, Head(worldBox).adds, Head(worldBox).removes)
    /\ supervisorBox' = IF world'.facts # world.facts
                        THEN Notify(world') ELSE supervisorBox
    /\ worldBox' = Tail(worldBox)
    /\ UNCHANGED <<OutsideWorld, wired, stopped>>

NotifiesBeforeActionEffects ==
    /\ IsNext(worldBox, "ApplyActionEffects")
    /\ world' = ApplyEffects(world, Head(worldBox).adds, Head(worldBox).removes)
    /\ supervisorBox' = Notify(world)
    /\ worldBox' = Tail(worldBox)
    /\ UNCHANGED <<OutsideWorld, wired, stopped>>

(* The effects of an action always do, even when they change nothing. *)
WorldAppliesActionEffects ==
    /\ IsNext(worldBox, "ApplyActionEffects")
    /\ world' = ApplyEffects(world, Head(worldBox).adds, Head(worldBox).removes)
    /\ supervisorBox' = Notify(world')
    /\ worldBox' = Tail(worldBox)
    /\ UNCHANGED <<OutsideWorld, wired, stopped>>

WorldBootstraps ==
    /\ IsNext(worldBox, "Bootstrap")
    /\ supervisorBox' = Notify(world)
    /\ worldBox' = Tail(worldBox)
    /\ UNCHANGED <<OutsideWorld, worldVars, wired, stopped>>

WorldWires ==
    /\ Wire(worldBox)
    /\ worldBox' = Tail(worldBox)
    /\ UNCHANGED <<OutsideWorld, worldVars, supervisorBox, stopped>>

WorldStops ==
    /\ Halt(worldBox, "world")
    /\ worldBox' = <<>>
    /\ UNCHANGED <<OutsideWorld, worldVars, supervisorBox, wired>>

WorldStep == \/ WorldAppliesReading \/ WorldAppliesActionEffects
             \/ WorldBootstraps \/ WorldWires \/ WorldStops

=============================================================================
