---------------------------- MODULE MCWorkspace ----------------------------
(***************************************************************************)
(* Three graphs that share a workspace: one with a cycle of cost zero, a   *)
(* detour that is cheaper than the direct edge and parallel edges; a       *)
(* smaller one that numbers its nodes the other way round; and one as      *)
(* large as the first whose only route to b overflows.                     *)
(***************************************************************************)
EXTENDS WorkspaceSearch

To(v, w) == [to |-> v, weight |-> w]

Wide  == [index |-> [a |-> 1, b |-> 2, c |-> 3],
          out |-> << <<To(2, 2), To(3, 1)>>, <<To(1, 0), To(3, 0)>>,
                     <<To(2, 0), To(1, 2), To(3, 0)>> >>]
Small == [index |-> [a |-> 2, b |-> 1], out |-> << <<>>, <<To(1, 2), To(2, 1), To(1, 1)>> >>]
Later == [index |-> [a |-> 1, b |-> 2, c |-> 3],
          out |-> << <<To(3, 2), To(3, 1)>>, <<>>, <<To(2, 2)>> >>]

Asked(g, from, to, accepted) ==
    [graph |-> g, from |-> from, to |-> to, accepted |-> accepted]

SharedQueries ==
    {Asked(Wide, "a", "b", 1..3), Asked(Wide, "a", "b", {1, 2}), Asked(Wide, "b", "a", 1..3),
     Asked(Wide, "b", "c", 1..3), Asked(Wide, "a", "c", {1, 2}), Asked(Wide, "b", "b", 1..3),
     Asked(Small, "a", "b", 1..2), Asked(Small, "b", "a", 1..2), Asked(Small, "a", "c", 1..2),
     Asked(Later, "a", "b", 1..3), Asked(Later, "b", "c", 1..3)}

=============================================================================
