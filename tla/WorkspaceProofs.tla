-------------------------- MODULE WorkspaceProofs --------------------------
(***************************************************************************)
(* The search with a reused workspace behaves like the search with         *)
(* distances of its own, for all graphs, queries and generations.          *)
(***************************************************************************)
EXTENDS WorkspaceSearch, TLAPS

-----------------------------------------------------------------------------
(* Facts about costs, queries and answers. *)

LEMMA SeqFacts ==
    ASSUME NEW T, NEW s \in Seq(T)
    PROVE  /\ Len(s) \in Nat /\ DOMAIN s = 1..Len(s)
           /\ \A i \in 1..Len(s) : s[i] \in T
OBVIOUS

LEMMA CostFacts ==
    /\ 0 \in Cost /\ Cost \subseteq Nat /\ Infinite \in Cost
    /\ \A c \in Cost, w \in 0..MaxCost : Plus(c, w) \in Cost /\ c <= Plus(c, w)
    /\ \A c, d \in Cost, w \in 0..MaxCost : c <= d => Plus(c, w) <= Plus(d, w)
BY QueryAssumption DEF Plus, Cost, Infinite

LEMMA AnswerFacts ==
    /\ Panic \in Answer /\ None \in Answer
    /\ \A c \in Cost : CostAnswer(c) \in Answer
    /\ \A q \in Query : Immediate(q) \in Answer
<1>1. Panic \in Answer /\ None \in Answer /\ Unknown \in Answer
  BY DEF Answer, Panic, None, Unknown
<1>2. \A c \in Cost : CostAnswer(c) \in Answer
  BY QueryAssumption DEF CostAnswer, Answer, Cost, Infinite
<1>3. \A q \in Query : Immediate(q) \in Answer
  BY <1>1, <1>2, CostFacts DEF Immediate
<1> QED
  BY <1>1, <1>2, <1>3

LEMMA GraphFacts ==
    ASSUME NEW q \in Query
    PROVE  /\ Len(q.graph.out) \in Nat
           /\ Nodes(q.graph) = 1..Len(q.graph.out)
           /\ Known(q) => Source(q) \in Nodes(q.graph) /\ Target(q) \in Nodes(q.graph)
           /\ \A u \in Nodes(q.graph) :
                 /\ Len(q.graph.out[u]) \in Nat
                 /\ \A i \in 1..Len(q.graph.out[u]) :
                       /\ q.graph.out[u][i].to \in Nodes(q.graph)
                       /\ q.graph.out[u][i].weight \in 0..MaxCost
<1>1. /\ q.graph.out \in Seq(Seq([to : Nodes(q.graph), weight : 0..MaxCost]))
      /\ q.graph.index \in [DOMAIN q.graph.index -> Nodes(q.graph)]
  BY QueryAssumption
<1> DEFINE EdgeOf == [to : Nodes(q.graph), weight : 0..MaxCost]
<1>2. ASSUME NEW u \in Nodes(q.graph)
      PROVE  /\ Len(q.graph.out[u]) \in Nat
             /\ \A i \in 1..Len(q.graph.out[u]) : q.graph.out[u][i] \in EdgeOf
  <2> HIDE DEF EdgeOf
  <2>1. q.graph.out[u] \in Seq(EdgeOf)
    BY <1>1 DEF Nodes, EdgeOf
  <2> QED
    BY <2>1
<1>3. \A r \in EdgeOf : r.to \in Nodes(q.graph) /\ r.weight \in 0..MaxCost
  OBVIOUS
<1>4. Known(q) => Source(q) \in Nodes(q.graph) /\ Target(q) \in Nodes(q.graph)
  BY <1>1 DEF Known, Source, Target
<1>5. Len(q.graph.out) \in Nat /\ Nodes(q.graph) = 1..Len(q.graph.out)
  BY <1>1 DEF Nodes
<1> HIDE DEF EdgeOf
<1> QED
  BY <1>2, <1>3, <1>4, <1>5

-----------------------------------------------------------------------------

(* No stamp is from a later generation, so none that is there when a       *)
(* search begins is taken for one of that search.                          *)
StampsOK ==
    /\ \A i \in DOMAIN stamps : stamps[i] <= generation
    /\ generation = 0 => stamps = <<>>

(* What waits in the heap, or is expanded, was stamped in this search: so  *)
(* its distance may be read without a look at the stamp.                   *)
PendingOK == answer = {} => \A e \in heap \cup at : stamps[e[2]] = generation

IInv == TypeOK /\ StampsAreOfThisSearch /\ StampsOK /\ PendingOK

-----------------------------------------------------------------------------
(* What growing a buffer does. *)

LEMMA GrownFacts ==
    ASSUME NEW T, 0 \in T, NEW s \in Seq(T), NEW n \in Nat
    PROVE  /\ Grown(s, n) \in Seq(T)
           /\ Len(Grown(s, n)) = IF Len(s) < n THEN n ELSE Len(s)
           /\ DOMAIN Grown(s, n) = 1..Len(Grown(s, n))
           /\ \A i \in 1..Len(Grown(s, n)) :
                 Grown(s, n)[i] = IF i <= Len(s) THEN s[i] ELSE 0
<1> DEFINE m == IF Len(s) < n THEN n ELSE Len(s)
<1>1. Len(s) \in Nat /\ m \in Nat /\ \A i \in 1..Len(s) : s[i] \in T
  OBVIOUS
<1>2. Grown(s, n) = [i \in 1..m |-> IF i <= Len(s) THEN s[i] ELSE 0]
  BY DEF Grown
<1>3. \A i \in 1..m : (IF i <= Len(s) THEN s[i] ELSE 0) \in T
  BY <1>1
<1>4. Grown(s, n) \in Seq(T) /\ Len(Grown(s, n)) = m
  BY <1>1, <1>2, <1>3
<1> QED
  BY <1>1, <1>2, <1>4

-----------------------------------------------------------------------------
(* The generation of the next search is in no slot. *)

LEMMA NewGeneration ==
    ASSUME TypeOK, StampsOK, NEW n \in Nat
    PROVE  /\ NextGeneration \in 1..MaxGeneration
           /\ Cleared(n) \in Seq(0..MaxGeneration)
           /\ Len(Cleared(n)) = Len(Grown(stamps, n))
           /\ DOMAIN Cleared(n) = 1..Len(Cleared(n))
           /\ \A i \in DOMAIN Cleared(n) :
                 Cleared(n)[i] < NextGeneration
<1>1. /\ stamps \in Seq(0..MaxGeneration) /\ generation \in 0..MaxGeneration
      /\ MaxGeneration \in Nat \ {0}
      /\ Len(stamps) \in Nat /\ DOMAIN stamps = 1..Len(stamps)
  BY GenerationAssumption DEF TypeOK
<1>2. /\ Grown(stamps, n) \in Seq(0..MaxGeneration)
      /\ Len(Grown(stamps, n)) \in Nat
      /\ DOMAIN Grown(stamps, n) = 1..Len(Grown(stamps, n))
      /\ \A i \in DOMAIN Grown(stamps, n) :
            /\ Grown(stamps, n)[i] = IF i <= Len(stamps) THEN stamps[i] ELSE 0
            /\ Grown(stamps, n)[i] \in 0..MaxGeneration
  <2>1. 0 \in 0..MaxGeneration
    BY <1>1
  <2> QED
    BY <1>1, <2>1, GrownFacts
<1>3. NextGeneration \in 1..MaxGeneration
  BY <1>1 DEF NextGeneration
<1>4. /\ DOMAIN Cleared(n) = 1..Len(Grown(stamps, n))
      /\ \A i \in 1..Len(Grown(stamps, n)) :
            /\ Cleared(n)[i] = IF generation = MaxGeneration THEN 0 ELSE Grown(stamps, n)[i]
            /\ Cleared(n)[i] \in 0..MaxGeneration
  BY <1>1, <1>2 DEF Cleared
<1>5. /\ Cleared(n) \in Seq(0..MaxGeneration)
      /\ Len(Cleared(n)) = Len(Grown(stamps, n))
  <2>1. Cleared(n) = [i \in 1..Len(Grown(stamps, n)) |-> Cleared(n)[i]]
    BY <1>2 DEF Cleared
  <2> QED
    BY <1>2, <1>4, <2>1
<1>6. ASSUME NEW i \in 1..Len(Grown(stamps, n))
      PROVE  Cleared(n)[i] < NextGeneration
  <2>1. i \in Nat \ {0} /\ generation \in Nat
    BY <1>1, <1>2
  <2>2. CASE i <= Len(stamps)
    <3>1. i \in DOMAIN stamps
      BY <1>1, <2>1, <2>2
    <3>2. stamps[i] <= generation /\ stamps[i] \in Nat
      BY <1>1, <3>1, SeqFacts DEF StampsOK
    <3>3. Cleared(n)[i] = IF generation = MaxGeneration THEN 0 ELSE stamps[i]
      BY <1>2, <1>4, <2>2
    <3> QED
      BY <1>1, <2>1, <3>2, <3>3 DEF NextGeneration
  <2>3. CASE ~(i <= Len(stamps))
    <3>1. Cleared(n)[i] = 0
      BY <1>2, <1>4, <2>3
    <3> QED
      BY <1>3, <3>1
  <2> QED
    BY <2>2, <2>3
<1> QED
  BY <1>3, <1>4, <1>5, <1>6

LEMMA AskSearchKeeps ==
    ASSUME IInv, AskSearch
    PROVE  /\ IInv'
           /\ \E q \in Query :
                 /\ query' = {q} /\ Source(q) \in DOMAIN stamps'
                 /\ {j \in DOMAIN stamps' : stamps'[j] = generation'} = {Source(q)}
                 /\ distances'[Source(q)] = 0
<1>1. PICK q \in Query :
         /\ Ask(q) /\ Searchable(q)
         /\ generation' = NextGeneration
         /\ distances' = [Grown(distances, Len(q.graph.out)) EXCEPT ![Source(q)] = 0]
         /\ stamps' = [Cleared(Len(q.graph.out)) EXCEPT ![Source(q)] = NextGeneration]
         /\ heap' = {<<0, Source(q)>>}
         /\ at' = {} /\ next' = 1 /\ answer' = {}
  BY DEF AskSearch
<1> DEFINE n == Len(q.graph.out)
<1>2. /\ n \in Nat /\ Nodes(q.graph) = 1..n /\ Source(q) \in 1..n
      /\ Source(q) \in q.accepted
      /\ query' = {q}
  BY <1>1, GraphFacts DEF Searchable, Admitted, Ask
<1>3. /\ TypeOK /\ StampsOK
      /\ Len(distances) \in Nat /\ Len(distances) = Len(stamps)
      /\ distances \in Seq(Cost) /\ stamps \in Seq(0..MaxGeneration)
      /\ 0 \in Cost /\ 0 \in 0..MaxGeneration /\ MaxGeneration \in Nat
  BY QueryAssumption, GenerationAssumption DEF IInv, TypeOK, Cost, Infinite
<1> DEFINE m == IF Len(distances) < n THEN n ELSE Len(distances)
<1>4. /\ Grown(distances, n) \in Seq(Cost) /\ Len(Grown(distances, n)) = m
      /\ Len(Grown(stamps, n)) = m
      /\ m \in Nat /\ n <= m
  <2>1. Grown(distances, n) \in Seq(Cost) /\ Len(Grown(distances, n)) = m
    BY <1>2, <1>3, GrownFacts
  <2>2. Len(Grown(stamps, n)) = m
    BY <1>2, <1>3, GrownFacts
  <2>3. m \in Nat /\ n <= m
    BY <1>2, <1>3
  <2> QED
    BY <2>1, <2>2, <2>3
<1>5. /\ NextGeneration \in 1..MaxGeneration
      /\ Cleared(n) \in Seq(0..MaxGeneration) /\ Len(Cleared(n)) = m
      /\ \A i \in 1..m : Cleared(n)[i] < NextGeneration
  BY <1>2, <1>3, <1>4, NewGeneration
<1> HIDE DEF n, m
<1>6. /\ distances' \in Seq(Cost) /\ Len(distances') = m
      /\ DOMAIN distances' = 1..m /\ distances'[Source(q)] = 0
  BY <1>1, <1>2, <1>3, <1>4 DEF n
<1>7. /\ stamps' \in Seq(0..MaxGeneration) /\ Len(stamps') = m
      /\ DOMAIN stamps' = 1..m /\ stamps'[Source(q)] = generation'
      /\ \A i \in 1..m : i # Source(q) => stamps'[i] < generation'
      /\ generation' \in 1..MaxGeneration
  BY <1>1, <1>2, <1>3, <1>4, <1>5 DEF n
<1>8. Source(q) \in 1..m
  BY <1>2, <1>4
<1>9. \A i \in DOMAIN stamps' : stamps'[i] = generation' => i = Source(q)
  <2>1. \A i \in 1..m : stamps'[i] \in Nat
    BY <1>3, <1>7, SeqFacts
  <2> QED
    BY <1>3, <1>7, <2>1
<1>10. TypeOK'
  <2>1. query' \in Option(Query)
    BY <1>2 DEF Option
  <2>2. heap' \subseteq Cost \X DOMAIN distances'
    BY <1>1, <1>3, <1>6, <1>8
  <2>3. at' \in Option(Cost \X DOMAIN distances') /\ answer' \in Option(Answer)
    BY <1>1 DEF Option
  <2>4. Len(distances') = Len(stamps') /\ generation' \in 0..MaxGeneration
        /\ next' \in Nat \ {0}
    BY <1>1, <1>3, <1>6, <1>7
  <2>5. \A q1 \in query' : Len(q1.graph.out) <= Len(distances')
    BY <1>2, <1>4, <1>6 DEF n
  <2> QED
    BY <1>6, <1>7, <2>1, <2>2, <2>3, <2>4, <2>5 DEF TypeOK
<1>11. StampsAreOfThisSearch'
  BY <1>2, <1>9 DEF StampsAreOfThisSearch, n
<1>12. StampsOK'
  <2>1. \A i \in 1..m : stamps'[i] \in Nat
    BY <1>3, <1>7, SeqFacts
  <2> QED
    BY <1>3, <1>7, <2>1 DEF StampsOK
<1>13. PendingOK'
  BY <1>1, <1>7 DEF PendingOK
<1> QED
  BY <1>2, <1>6, <1>7, <1>8, <1>9, <1>10, <1>11, <1>12, <1>13 DEF IInv

-----------------------------------------------------------------------------
(* The edge that is followed leads to a node that has a slot. *)

LEMMA EdgeFacts ==
    ASSUME IInv, NEW q \in query, NEW e \in at, Following(q, e)
    PROVE  /\ q \in Query /\ query = {q} /\ at = {e} /\ answer = {}
           /\ e[1] \in Cost /\ e[2] \in DOMAIN stamps /\ stamps[e[2]] = generation
           /\ e[2] \in Nodes(q.graph)
           /\ Edge(q, e).to \in Nodes(q.graph)
           /\ Edge(q, e).to \in DOMAIN stamps
           /\ DOMAIN distances = DOMAIN stamps
           /\ Reached(q, e) \in Cost
<1>1. /\ q \in Query /\ query = {q} /\ at = {e} /\ answer = {}
      /\ e[1] \in Cost /\ e[2] \in DOMAIN distances
      /\ Len(q.graph.out) <= Len(distances)
  BY DEF IInv, TypeOK, Option, Following, Searching
<1>2. /\ Len(distances) \in Nat
      /\ DOMAIN distances = 1..Len(distances) /\ DOMAIN stamps = 1..Len(distances)
  BY SeqFacts DEF IInv, TypeOK
<1>3. stamps[e[2]] = generation
  BY <1>1 DEF IInv, PendingOK
<1>4. e[2] \in Nodes(q.graph)
  BY <1>1, <1>2, <1>3 DEF IInv, StampsAreOfThisSearch
<1>5. next \in 1..Len(q.graph.out[e[2]])
  <2>1. Len(q.graph.out[e[2]]) \in Nat
    BY <1>1, <1>4, GraphFacts
  <2> QED
    BY <2>1 DEF IInv, TypeOK, Following
<1>6. /\ Edge(q, e).to \in Nodes(q.graph)
      /\ Edge(q, e).weight \in 0..MaxCost
  BY <1>1, <1>4, <1>5, GraphFacts DEF Edge
<1>7. Edge(q, e).to \in DOMAIN stamps
  <2>1. Len(q.graph.out) \in Nat /\ Nodes(q.graph) = 1..Len(q.graph.out)
    BY <1>1, GraphFacts
  <2> QED
    BY <1>1, <1>2, <1>6, <2>1
<1>8. Reached(q, e) \in Cost
  BY <1>1, <1>6, CostFacts DEF Reached
<1> QED
  BY <1>1, <1>2, <1>3, <1>4, <1>6, <1>7, <1>8

LEMMA RelaxKeeps ==
    ASSUME IInv, Relax
    PROVE  IInv'
<1>1. PICK q \in query, e \in at :
         /\ Following(q, e)
         /\ Edge(q, e).to \in q.accepted
         /\ distances' = [distances EXCEPT ![Edge(q, e).to] = Reached(q, e)]
         /\ stamps' = [stamps EXCEPT ![Edge(q, e).to] = generation]
         /\ heap' = heap \cup {<<Reached(q, e), Edge(q, e).to>>}
         /\ next' = next + 1
         /\ UNCHANGED <<query, generation, at, answer>>
  BY DEF Relax
<1> DEFINE v == Edge(q, e).to
           c == Reached(q, e)
<1>2. /\ q \in Query /\ query = {q} /\ at = {e} /\ answer = {}
      /\ v \in Nodes(q.graph) /\ v \in DOMAIN stamps
      /\ DOMAIN distances = DOMAIN stamps
      /\ c \in Cost
  BY <1>1, EdgeFacts
<1> HIDE DEF v, c
<1>3. /\ distances \in Seq(Cost) /\ stamps \in Seq(0..MaxGeneration)
      /\ generation \in 0..MaxGeneration /\ MaxGeneration \in Nat
      /\ Len(distances) = Len(stamps)
      /\ heap \subseteq Cost \X DOMAIN distances
      /\ \A i \in DOMAIN stamps : stamps[i] \in Nat
  <2>1. stamps \in Seq(0..MaxGeneration) /\ MaxGeneration \in Nat
    BY GenerationAssumption DEF IInv, TypeOK
  <2> QED
    BY <2>1, SeqFacts DEF IInv, TypeOK
<1>4. /\ distances' \in Seq(Cost) /\ Len(distances') = Len(distances)
      /\ DOMAIN distances' = DOMAIN distances
  BY <1>1, <1>2, <1>3 DEF v, c
<1>5. /\ stamps' \in Seq(0..MaxGeneration) /\ Len(stamps') = Len(stamps)
      /\ DOMAIN stamps' = DOMAIN stamps
      /\ \A i \in DOMAIN stamps : stamps'[i] = IF i = v THEN generation ELSE stamps[i]
  BY <1>1, <1>2, <1>3 DEF v
<1>6. TypeOK'
  <2>1. heap' \subseteq Cost \X DOMAIN distances'
    BY <1>1, <1>2, <1>3, <1>4 DEF v, c
  <2>2. next' \in Nat \ {0}
    BY <1>1 DEF IInv, TypeOK
  <2>3. /\ query' \in Option(Query) /\ generation' \in 0..MaxGeneration
        /\ at' \in Option(Cost \X DOMAIN distances')
        /\ answer' \in Option(Answer)
        /\ answer' = {} => \A q1 \in query' : Len(q1.graph.out) <= Len(distances')
    BY <1>1, <1>4 DEF IInv, TypeOK
  <2> QED
    BY <1>3, <1>4, <1>5, <2>1, <2>2, <2>3 DEF TypeOK
<1>7. StampsAreOfThisSearch'
  BY <1>1, <1>2, <1>5 DEF IInv, StampsAreOfThisSearch, v
<1>8. StampsOK'
  <2>1. generation <= generation
    BY <1>3
  <2>2. stamps # <<>>
    BY <1>2
  <2> QED
    BY <1>1, <1>5, <2>1, <2>2 DEF IInv, StampsOK
<1>9. PendingOK'
  <2>1. \A f \in heap \cup at : f[2] \in DOMAIN stamps /\ stamps[f[2]] = generation
    BY <1>2 DEF IInv, TypeOK, PendingOK, Option
  <2> QED
    BY <1>1, <1>2, <1>5, <2>1 DEF PendingOK, v
<1> QED
  BY <1>6, <1>7, <1>8, <1>9 DEF IInv

(* What does not search a graph anew, or relax, writes no slot. *)
LEMMA OthersKeep ==
    ASSUME IInv, UNCHANGED <<distances, stamps, generation>>,
           heap' \subseteq heap, next' \in Nat \ {0},
           \/ /\ answer' # {} /\ answer' \in Option(Answer)
              /\ query' \in Option(Query) /\ at' = at
           \/ /\ UNCHANGED <<query, answer>>
              /\ at' \in Option(heap) \/ at' = at
    PROVE  IInv'
<1>1. TypeOK'
  BY DEF IInv, TypeOK, Option
<1>2. StampsAreOfThisSearch' /\ StampsOK'
  BY DEF IInv, StampsAreOfThisSearch, StampsOK
<1>3. PendingOK'
  BY DEF IInv, PendingOK, Option
<1> QED
  BY <1>1, <1>2, <1>3 DEF IInv

(* The strengthened invariant holds: stamps, heap and expanded entry agree *)
(* with the search that runs (begin, dijkstra_cost_with_workspace).        *)
THEOREM WorkspaceInvariance == Spec => []IInv
<1>1. Init => IInv
  <2> SUFFICES ASSUME Init PROVE IInv
    OBVIOUS
  <2>1. TypeOK
    BY GenerationAssumption DEF Init, TypeOK, Option
  <2> QED
    BY <2>1 DEF Init, IInv, StampsAreOfThisSearch, StampsOK, PendingOK
<1>2. IInv /\ [Next]_vars => IInv'
  <2> SUFFICES ASSUME IInv, [Next]_vars PROVE IInv'
    OBVIOUS
  <2>t. next \in Nat \ {0} /\ next + 1 \in Nat \ {0} /\ 1 \in Nat \ {0}
    BY DEF IInv, TypeOK
  <2>1. CASE AskImmediate
    BY <2>1, <2>t, OthersKeep, AnswerFacts DEF AskImmediate, Ask, Option, workspace
  <2>2. CASE AskPanics
    BY <2>2, <2>t, OthersKeep, AnswerFacts DEF AskPanics, Ask, Option, workspace
  <2>3. CASE AskSearch
    BY <2>3, AskSearchKeeps
  <2>4. CASE PopStale
    BY <2>4, <2>t, OthersKeep DEF PopStale, Popped
  <2>5. CASE PopTarget
    <3>1. PICK e \in heap : /\ answer' = {CostAnswer(e[1])}
                            /\ heap' = heap \ {e}
                            /\ UNCHANGED <<query, distances, stamps, generation, at, next>>
      BY <2>5 DEF PopTarget, Popped
    <3>2. CostAnswer(e[1]) \in Answer
      BY <3>1, AnswerFacts DEF IInv, TypeOK
    <3>3. query' \in Option(Query) /\ answer' \in Option(Answer) /\ answer' # {}
      BY <3>1, <3>2 DEF Option, IInv, TypeOK
    <3> QED
      BY <2>t, <3>1, <3>3, OthersKeep
  <2>6. CASE PopNode
    BY <2>6, <2>t, OthersKeep DEF PopNode, Popped, Option
  <2>7. CASE Exhausted
    BY <2>7, <2>t, OthersKeep, AnswerFacts DEF Exhausted, Option, workspace, IInv, TypeOK
  <2>8. CASE SkipEdge
    BY <2>8, <2>t, OthersKeep DEF SkipEdge, workspace
  <2>9. CASE Relax
    BY <2>9, RelaxKeeps
  <2>10. CASE FilterPanics
    BY <2>10, <2>t, OthersKeep, AnswerFacts DEF FilterPanics, Option, workspace, IInv, TypeOK
  <2>11. CASE Expanded
    BY <2>11, <2>t, OthersKeep DEF Expanded, workspace, Option
  <2>12. CASE UNCHANGED vars
    BY <2>12, <2>t, OthersKeep DEF vars
  <2> QED
    BY <2>1, <2>2, <2>3, <2>4, <2>5, <2>6, <2>7, <2>8, <2>9, <2>10, <2>11, <2>12
       DEF Next, Asking, Step
<1> QED
  BY <1>1, <1>2, PTL DEF Spec

(* The buffers and everything that points into them have their types, and  *)
(* no index of the searched graph is outside the buffers (begin).          *)
THEOREM WorkspaceTypeOK == Spec => []TypeOK
<1>1. IInv => TypeOK
  BY DEF IInv
<1> QED
  BY <1>1, WorkspaceInvariance, PTL

(* A slot with the stamp of this search was written by it, although slots  *)
(* are never cleared but when the generation wraps around (begin).         *)
THEOREM StampsAreCurrent == Spec => []StampsAreOfThisSearch
<1>1. IInv => StampsAreOfThisSearch
  BY DEF IInv
<1> QED
  BY <1>1, WorkspaceInvariance, PTL

-----------------------------------------------------------------------------
(* The refinement. *)

Seen == [i \in {j \in DOMAIN stamps : stamps[j] = generation} |-> distances[i]]

LEMMA SameQueries ==
    ASSUME NEW q
    PROVE  /\ OneShot!Source(q) = Source(q) /\ OneShot!Target(q) = Target(q)
           /\ OneShot!Known(q) <=> Known(q)
           /\ OneShot!Searchable(q) <=> Searchable(q)
           /\ OneShot!Immediate(q) = Immediate(q)
           /\ OneShot!Panic = Panic /\ OneShot!None = None
<1>1. /\ OneShot!Source(q) = Source(q) /\ OneShot!Target(q) = Target(q)
      /\ OneShot!Known(q) <=> Known(q)
      /\ OneShot!Panic = Panic /\ OneShot!None = None /\ OneShot!Unknown = Unknown
  BY DEF OneShot!Source, Source, OneShot!Target, Target, OneShot!Known, Known,
         OneShot!Panic, Panic, OneShot!None, None, OneShot!Unknown, Unknown
<1>2. OneShot!Admitted(q) <=> Admitted(q)
  BY <1>1 DEF OneShot!Admitted, Admitted
<1>3. OneShot!Searchable(q) <=> Searchable(q)
  BY <1>1, <1>2 DEF OneShot!Searchable, Searchable
<1>4. OneShot!CostAnswer(0) = CostAnswer(0)
  BY DEF OneShot!CostAnswer, CostAnswer, OneShot!Infinite, Infinite
<1>5. OneShot!Immediate(q) = Immediate(q)
  BY <1>1, <1>2, <1>4 DEF OneShot!Immediate, Immediate
<1> QED
  BY <1>1, <1>3, <1>5

LEMMA SameCosts ==
    ASSUME NEW c, NEW w
    PROVE  OneShot!CostAnswer(c) = CostAnswer(c) /\ OneShot!Plus(c, w) = Plus(c, w)
BY DEF OneShot!CostAnswer, CostAnswer, OneShot!Plus, Plus, OneShot!Infinite, Infinite

(* The distance of a pending entry is the one that the stamps vouch for. *)
LEMMA PendingSeen ==
    ASSUME IInv, answer = {}, NEW e \in heap \cup at
    PROVE  e[2] \in DOMAIN Seen /\ Seen[e[2]] = distances[e[2]]
<1>1. e[2] \in DOMAIN stamps
  <2>1. e[2] \in DOMAIN distances
    BY DEF IInv, TypeOK, Option
  <2> QED
    BY <2>1, SeqFacts DEF IInv, TypeOK
<1>2. stamps[e[2]] = generation
  BY DEF IInv, PendingOK
<1> QED
  BY <1>1, <1>2 DEF Seen

LEMMA SearchRefines ==
    ASSUME IInv, AskSearch
    PROVE  OneShot!AskSearch
<1>1. PICK q \in Query :
         /\ query' = {q} /\ Source(q) \in DOMAIN stamps'
         /\ {j \in DOMAIN stamps' : stamps'[j] = generation'} = {Source(q)}
         /\ distances'[Source(q)] = 0
  BY AskSearchKeeps
<1>2. Seen' = [u \in {Source(q)} |-> 0]
  BY <1>1 DEF Seen
<1>3. /\ q \in Query /\ Ask(q) /\ Searchable(q)
      /\ heap' = {<<0, Source(q)>>} /\ at' = {} /\ next' = 1 /\ answer' = {}
  BY <1>1 DEF AskSearch, Ask
<1>4. OneShot!Ask(q)
  BY <1>3 DEF OneShot!Ask, Ask
<1> QED
  BY <1>2, <1>3, <1>4, SameQueries DEF OneShot!AskSearch, Seen


LEMMA RelaxRefines ==
    ASSUME IInv, Relax
    PROVE  OneShot!Relax
<1>1. PICK q \in query, e \in at :
         /\ Following(q, e)
         /\ Edge(q, e).to \in q.accepted
         /\ Improves(Edge(q, e).to, Reached(q, e))
         /\ distances' = [distances EXCEPT ![Edge(q, e).to] = Reached(q, e)]
         /\ stamps' = [stamps EXCEPT ![Edge(q, e).to] = generation]
         /\ heap' = heap \cup {<<Reached(q, e), Edge(q, e).to>>}
         /\ next' = next + 1
         /\ UNCHANGED <<query, generation, at, answer>>
  BY DEF Relax
<1> DEFINE v == Edge(q, e).to
           c == Reached(q, e)
<1>2. /\ v \in DOMAIN stamps /\ DOMAIN distances = DOMAIN stamps
      /\ OneShot!Edge(q, e) = Edge(q, e) /\ OneShot!Reached(q, e) = Reached(q, e)
      /\ OneShot!Following(q, e)
  BY <1>1, EdgeFacts, SameCosts
     DEF OneShot!Edge, Edge, OneShot!Reached, Reached, OneShot!Following, Following,
         OneShot!Searching, Searching
<1> HIDE DEF v, c
<1>3. v \in DOMAIN Seen => c < Seen[v]
  BY <1>1 DEF Seen, Improves, v, c
<1>4. Seen' = [u \in DOMAIN Seen \cup {v} |-> IF u = v THEN c ELSE Seen[u]]
  <2>1. {j \in DOMAIN stamps' : stamps'[j] = generation'} = DOMAIN Seen \cup {v}
    BY <1>1, <1>2 DEF Seen, v
  <2>2. \A u \in DOMAIN Seen \cup {v} : distances'[u] = IF u = v THEN c ELSE Seen[u]
    BY <1>1, <1>2 DEF Seen, v, c
  <2> QED
    BY <2>1, <2>2 DEF Seen
<1> QED
  BY <1>1, <1>2, <1>3, <1>4 DEF OneShot!Relax, OneShot!Improves, Seen, v, c

LEMMA SkipRefines ==
    ASSUME IInv, SkipEdge
    PROVE  OneShot!SkipEdge
<1>1. PICK q \in query, e \in at :
         /\ Following(q, e)
         /\ \/ Edge(q, e).to \notin q.accepted
            \/ ~Improves(Edge(q, e).to, Reached(q, e))
         /\ next' = next + 1
         /\ UNCHANGED <<query, workspace, at, answer>>
  BY DEF SkipEdge
<1>2. /\ Edge(q, e).to \in DOMAIN stamps
      /\ OneShot!Edge(q, e) = Edge(q, e) /\ OneShot!Reached(q, e) = Reached(q, e)
      /\ OneShot!Following(q, e)
  BY <1>1, EdgeFacts, SameCosts
     DEF OneShot!Edge, Edge, OneShot!Reached, Reached, OneShot!Following, Following,
         OneShot!Searching, Searching
<1>3. \/ Edge(q, e).to \notin q.accepted
      \/ ~OneShot!Improves(Edge(q, e).to, Reached(q, e))
  BY <1>1, <1>2 DEF OneShot!Improves, Improves
<1>4. Seen' = Seen
  BY <1>1 DEF Seen, workspace
<1> QED
  BY <1>1, <1>2, <1>3, <1>4 DEF OneShot!SkipEdge, Seen, workspace

LEMMA PopRefines ==
    ASSUME IInv, NEW e \in heap, Popped(e)
    PROVE  /\ OneShot!Popped(e) /\ Seen' = Seen
           /\ Seen[e[2]] = distances[e[2]]
<1>1. OneShot!Popped(e)
  BY DEF OneShot!Popped, Popped, OneShot!Searching, Searching, OneShot!IsTop, IsTop
<1>2. Seen' = Seen
  BY DEF Popped, Seen
<1>3. Seen[e[2]] = distances[e[2]]
  BY PendingSeen DEF Popped, Searching
<1> QED
  BY <1>1, <1>2, <1>3

(* The reused buffers are an optimisation that no query can tell from      *)
(* distances of its own (dijkstra_cost_with_workspace).                    *)
THEOREM WorkspaceImplementsDijkstra == Spec => ImplementsOneShot
<1>1. Init => OneShot!Init
  <2> SUFFICES ASSUME Init PROVE OneShot!Init
    OBVIOUS
  <2>1. Seen = [u \in {} |-> 0]
    BY DEF Init, Seen
  <2> QED
    BY <2>1 DEF Init, OneShot!Init, Seen
<1>2. IInv /\ [Next]_vars => [OneShot!Next]_(OneShot!vars)
  <2> SUFFICES ASSUME IInv, [Next]_vars
               PROVE  OneShot!Next \/ UNCHANGED OneShot!vars
    BY DEF OneShot!vars
  <2>1. CASE AskImmediate
    <3>1. Seen' = Seen
      BY <2>1 DEF AskImmediate, workspace, Seen
    <3>2. OneShot!AskImmediate
      BY <2>1, <3>1, SameQueries
         DEF AskImmediate, OneShot!AskImmediate, Ask, OneShot!Ask, Seen, workspace
    <3> QED
      BY <3>2 DEF OneShot!Next, OneShot!Asking
  <2>2. CASE AskPanics
    <3>1. Seen' = Seen
      BY <2>2 DEF AskPanics, workspace, Seen
    <3>2. OneShot!AskPanics
      BY <2>2, <3>1, SameQueries
         DEF AskPanics, OneShot!AskPanics, Ask, OneShot!Ask, Seen, workspace
    <3> QED
      BY <3>2 DEF OneShot!Next, OneShot!Asking
  <2>3. CASE AskSearch
    BY <2>3, SearchRefines DEF OneShot!Next, OneShot!Asking
  <2>4. CASE PopStale
    <3>1. OneShot!PopStale
      BY <2>4, PopRefines DEF PopStale, OneShot!PopStale, Seen
    <3> QED
      BY <3>1 DEF OneShot!Next, OneShot!Step
  <2>5. CASE PopTarget
    <3>1. OneShot!PopTarget
      BY <2>5, PopRefines, SameQueries, SameCosts DEF PopTarget, OneShot!PopTarget, Seen
    <3> QED
      BY <3>1 DEF OneShot!Next, OneShot!Step
  <2>6. CASE PopNode
    <3>1. OneShot!PopNode
      BY <2>6, PopRefines, SameQueries DEF PopNode, OneShot!PopNode, Seen
    <3> QED
      BY <3>1 DEF OneShot!Next, OneShot!Step
  <2>7. CASE Exhausted
    <3>1. Seen' = Seen
      BY <2>7 DEF Exhausted, workspace, Seen
    <3>2. OneShot!Exhausted
      BY <2>7, <3>1, SameQueries
         DEF Exhausted, OneShot!Exhausted, Searching, OneShot!Searching, Seen, workspace
    <3> QED
      BY <3>2 DEF OneShot!Next, OneShot!Step
  <2>8. CASE SkipEdge
    BY <2>8, SkipRefines DEF OneShot!Next, OneShot!Step
  <2>9. CASE Relax
    BY <2>9, RelaxRefines DEF OneShot!Next, OneShot!Step
  <2>10. CASE FilterPanics
    <3>1. Seen' = Seen
      BY <2>10 DEF FilterPanics, workspace, Seen
    <3>2. OneShot!FilterPanics
      BY <2>10, <3>1, SameQueries
         DEF FilterPanics, OneShot!FilterPanics, Following, OneShot!Following,
             Searching, OneShot!Searching, Seen, workspace
    <3> QED
      BY <3>2 DEF OneShot!Next, OneShot!Step
  <2>11. CASE Expanded
    <3>1. Seen' = Seen
      BY <2>11 DEF Expanded, workspace, Seen
    <3>2. OneShot!Expanded
      BY <2>11, <3>1
         DEF Expanded, OneShot!Expanded, Searching, OneShot!Searching, Seen, workspace
    <3> QED
      BY <3>2 DEF OneShot!Next, OneShot!Step
  <2>12. CASE UNCHANGED vars
    BY <2>12 DEF vars, OneShot!vars
  <2> QED
    BY <2>1, <2>2, <2>3, <2>4, <2>5, <2>6, <2>7, <2>8, <2>9, <2>10, <2>11, <2>12
       DEF Next, Asking, Step
<1> QED
  BY <1>1, <1>2, WorkspaceInvariance, PTL DEF Spec, ImplementsOneShot, OneShot!Spec


-----------------------------------------------------------------------------
(* What is proved of the search with distances of its own. *)

Proved == INSTANCE DijkstraProofs WITH dist <- Seen

LEMMA SameSearch == OneShot!Spec => Proved!Spec
<1>1. OneShot!Init => Proved!Init
  BY DEF OneShot!Init, Proved!Init, Seen
<1>2. OneShot!Next => Proved!Next
  BY DEF Seen, OneShot!Next, Proved!Next, OneShot!Asking, Proved!Asking,
         OneShot!Step, Proved!Step, OneShot!AskImmediate,
         Proved!AskImmediate, OneShot!AskPanics, Proved!AskPanics,
         OneShot!AskSearch, Proved!AskSearch, OneShot!PopStale,
         Proved!PopStale, OneShot!PopTarget, Proved!PopTarget,
         OneShot!PopNode, Proved!PopNode, OneShot!Exhausted,
         Proved!Exhausted, OneShot!SkipEdge, Proved!SkipEdge,
         OneShot!Relax, Proved!Relax, OneShot!FilterPanics,
         Proved!FilterPanics, OneShot!Expanded, Proved!Expanded,
         OneShot!Ask, Proved!Ask, OneShot!Searchable,
         Proved!Searchable, OneShot!Immediate, Proved!Immediate,
         OneShot!Known, Proved!Known, OneShot!Admitted,
         Proved!Admitted, OneShot!Source, Proved!Source,
         OneShot!Target, Proved!Target, OneShot!Unknown,
         Proved!Unknown, OneShot!None, Proved!None, OneShot!Panic,
         Proved!Panic, OneShot!CostAnswer, Proved!CostAnswer,
         OneShot!Plus, Proved!Plus, OneShot!Infinite, Proved!Infinite,
         OneShot!Searching, Proved!Searching, OneShot!IsTop,
         Proved!IsTop, OneShot!Popped, Proved!Popped,
         OneShot!Following, Proved!Following, OneShot!Edge,
         Proved!Edge, OneShot!Reached, Proved!Reached,
         OneShot!Improves, Proved!Improves
<1>3. UNCHANGED OneShot!vars => UNCHANGED Proved!vars
  BY DEF OneShot!vars, Proved!vars, Seen
<1>4. [OneShot!Next]_(OneShot!vars) => [Proved!Next]_(Proved!vars)
  BY <1>2, <1>3
<1> QED
  BY <1>1, <1>4, PTL DEF OneShot!Spec, Proved!Spec

LEMMA SameAnswers == Proved!AnswerIsShortest => AnswerIsShortest
<1>1. ASSUME NEW q
      PROVE  Proved!Routes(q) = Routes(q) /\ Proved!Target(q) = Target(q)
  BY DEF Routes, Proved!Routes, Ends, Proved!Ends, Follows, Proved!Follows,
         Cost, Proved!Cost, Nodes, Proved!Nodes, Source, Proved!Source,
         Target, Proved!Target, Plus, Proved!Plus, Infinite, Proved!Infinite
<1>2. ASSUME NEW q
      PROVE  /\ Proved!Searchable(q) <=> Searchable(q)
             /\ Proved!Immediate(q) = Immediate(q)
  BY DEF Searchable, Proved!Searchable, Immediate, Proved!Immediate,
         Known, Proved!Known, Admitted, Proved!Admitted, Source, Proved!Source,
         Target, Proved!Target, Unknown, Proved!Unknown, None, Proved!None,
         CostAnswer, Proved!CostAnswer, Infinite, Proved!Infinite
<1>3. ASSUME NEW q
      PROVE  Proved!CostsOf(q) = CostsOf(q)
  BY <1>1 DEF CostsOf, Proved!CostsOf
<1>4. \A S : Proved!Min(S) = Min(S)
  BY DEF Min, Proved!Min
<1>5. \A c : Proved!CostAnswer(c) = CostAnswer(c)
  BY DEF CostAnswer, Proved!CostAnswer, Infinite, Proved!Infinite
<1>6. Proved!None = None /\ Proved!Panic = Panic
  BY DEF None, Proved!None, Panic, Proved!Panic
<1>7. ASSUME NEW q
      PROVE  Proved!Expected(q) = Expected(q)
  BY <1>2, <1>3, <1>4, <1>5, <1>6 DEF Expected, Proved!Expected
<1> QED
  BY <1>6, <1>7 DEF AnswerIsShortest, Proved!AnswerIsShortest

(* So the answers are those of cheapest routes, with any workspace: by the *)
(* refinement and DijkstraIsCorrect (dijkstra_cost_with_workspace).        *)
THEOREM WorkspaceAnswerIsShortest == Spec => []AnswerIsShortest
<1>1. Spec => OneShot!Spec
  BY WorkspaceImplementsDijkstra DEF ImplementsOneShot
<1>2. Proved!Spec => []Proved!AnswerIsShortest
  BY Proved!DijkstraIsCorrect, QueryAssumption DEF Proved!Nodes, Nodes
<1> QED
  BY <1>1, <1>2, SameSearch, SameAnswers, PTL

=============================================================================
