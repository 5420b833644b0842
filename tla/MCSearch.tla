------------------------------ MODULE MCSearch ------------------------------
(***************************************************************************)
(* A library with what is delicate in a search: several ways between the   *)
(* same states, the first of infinite cost, the last of none that can be   *)
(* compared, the cheapest two equal; two cheapest plans through different  *)
(* states; free actions that close a cycle; states that are not the goal's *)
(* and have no move, or only one that leads back to them.  From an axe     *)
(* alone four states are reachable, with a log or a fire three.            *)
(* Where there is a gem the costs bite: with an axe grafo refuses a curse, *)
(* with a log too the only plan overflows, with a fire as well it just     *)
(* does not, and without the axe an action without a comparable cost comes *)
(* first.  And the library has every flaw inspect looks for: no action     *)
(* makes an axe, which most of them and the goal require, so that only     *)
(* --have axe gets there; what a sensor adds when it fails counts for      *)
(* nothing.                                                                *)
(***************************************************************************)
EXTENDS CommandPromises

SearchFacts == {"axe", "log", "fire", "gem"}

Act(cost, requires, forbids, adds, removes) ==
    [cost |-> cost, requires |-> requires, forbids |-> forbids,
     adds |-> adds, removes |-> removes, onFailure |-> {}]

Infinite == MaxCost + 1

SearchLibrary ==
    [hex    |-> Act(NaN, {"fire", "log", "gem"}, {"axe"}, {}, {"log"}),
     chop   |-> Act(Infinite, {"axe"}, {"log", "gem"}, {"log"}, {}),
     fell   |-> Act(2, {"axe"}, {"log", "gem"}, {"log"}, {}),
     saw    |-> Act(2, {"axe"}, {"log", "gem"}, {"log"}, {}),
     dream  |-> Act(NaN, {"axe"}, {"log", "gem"}, {"log"}, {}),
     light  |-> Act(1, {"log"}, {"fire", "gem"}, {"fire"}, {"log"}),
     burn   |-> Act(0, {"axe"}, {"fire", "gem"}, {"fire"}, {}),
     spark  |-> Act(2, {"axe"}, {"fire", "log", "gem"}, {"fire", "log"}, {}),
     ember  |-> Act(1, {"axe"}, {"fire"}, {"fire"}, {}),
     curse  |-> Act(-1, {"axe", "gem"}, {"fire", "log"}, {"fire"}, {}),
     clear  |-> Act(2, {"fire", "log"}, {}, {}, {"log"}),
     sweep  |-> Act(1, {"fire", "log"}, {"gem"}, {}, {"log"}),
     douse  |-> Act(0, {"fire", "log"}, {}, {}, {"fire"}),
     rest   |-> Act(1, {"fire"}, {"axe", "log"}, {}, {})]

SearchActions == <<"hex", "chop", "fell", "saw", "dream", "light", "burn", "spark",
                   "ember", "curse", "clear", "sweep", "douse", "rest">>

SearchNames == {SearchActions[i] : i \in DOMAIN SearchActions}

SearchGoal == [requires |-> {"fire", "axe"}, forbids |-> {"log"}]

(* The second sensor takes away what the first has found. *)
SearchSensors ==
    [n \in {"log", "fire"} |->
        [onSuccess |-> IF n = "log" THEN {} ELSE {[add |-> {"fire"}, remove |-> {"log"}]},
         onFailure |-> IF n = "log" THEN {} ELSE {[add |-> {"axe"}, remove |-> {}]},
         capture |-> n = "log"]]
SearchSweep == <<"log", "fire">>

SearchDrafts == {SearchLibrary, [SearchLibrary EXCEPT !.light.requires = {"log", "fire"}]}

=============================================================================
