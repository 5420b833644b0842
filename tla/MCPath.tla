------------------------------- MODULE MCPath -------------------------------
(***************************************************************************)
(* Inputs to construct from: a few chosen ones, with edges out of the      *)
(* order of their sources, parallel edges, a cycle of cost zero, a node    *)
(* without edges between two that have some, a path that overflows, and    *)
(* every way to be refused; and every list of up to two edges from a set,  *)
(* over the same three nodes.                                              *)
(***************************************************************************)
EXTENDS PathSearch

Arc(l, m, w) == [from |-> l, to |-> m, weight |-> w]

Given(nodes, edges) == [nodes |-> nodes, edges |-> edges]

ChosenInputs ==
    {Given(<<"a", "b", "c">>,
           <<Arc("c", "b", 0), Arc("a", "b", 2), Arc("b", "c", 0), Arc("a", "c", 2),
             Arc("a", "c", 1), Arc("b", "b", 0)>>),
     Given(<<"c", "b", "a">>,
           <<Arc("c", "b", 1), Arc("a", "c", 1), Arc("a", "b", 2), Arc("c", "c", 0)>>),
     Given(<<"a", "c", "b">>, <<Arc("b", "a", 1), Arc("a", "b", 2), Arc("b", "a", 0)>>),
     Given(<<"a">>, <<>>), Given(<<>>, <<>>),
     Given(<<"a", "b", "a">>, <<>>),
     Given(<<"a", "b">>, <<Arc("z", "b", -1), Arc("a", "b", -1), Arc("b", "b", 0)>>),
     Given(<<"a", "b", "c", "d", "e", "f", "g">>, <<>>),
     Given(<<"a">>, [i \in 1..7 |-> Arc("a", "a", 1)])}

Arcs == {Arc("a", "b", 2), Arc("a", "c", 1), Arc("c", "b", 1), Arc("c", "b", 2),
         Arc("b", "c", 0), Arc("c", "c", 0), Arc("a", "z", 1), Arc("c", "a", -1)}

PathInputs == ChosenInputs \cup {Given(<<"c", "a", "b">>, s) :
                                    s \in UNION {[1..n -> Arcs] : n \in 0..2}}

PathQuestions ==
    {[from |-> p[1], to |-> p[2], accepted |-> {"a", "b", "c"} \ out] :
        p \in {<<"a", "b">>, <<"b", "c">>, <<"a", "a">>, <<"d", "a">>},
        out \in {{}, {"c"}}}

=============================================================================
