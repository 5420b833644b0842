--------------------------- MODULE DijkstraProofs ---------------------------
(***************************************************************************)
(* The search answers with the cost of a cheapest route, for all graphs,   *)
(* costs, filters and sequences of queries.                                *)
(***************************************************************************)
EXTENDS Dijkstra, TLAPS

-----------------------------------------------------------------------------
(* Facts about costs, queries and answers. *)

LEMMA SeqFacts ==
    ASSUME NEW T, NEW s \in Seq(T)
    PROVE  /\ Len(s) \in Nat /\ DOMAIN s = 1..Len(s)
           /\ \A i \in 1..Len(s) : s[i] \in T
OBVIOUS

LEMMA CostFacts ==
    /\ 0 \in Cost /\ Cost \subseteq Nat /\ Infinite \in Cost
    /\ \A c \in Cost, w \in 0..MaxCost : Plus(c, w) \in Cost /\ c <= Plus(c, w)
    /\ \A c, d \in Cost, w \in 0..MaxCost : c <= d => Plus(c, w) <= Plus(d, w)
BY QueryAssumption DEF Plus, Cost, Infinite

LEMMA AnswerFacts ==
    /\ Panic \in Answer /\ None \in Answer
    /\ \A c \in Cost : CostAnswer(c) \in Answer
    /\ \A q \in Query : Immediate(q) \in Answer
<1>1. Panic \in Answer /\ None \in Answer /\ Unknown \in Answer
  BY DEF Answer, Panic, None, Unknown
<1>2. \A c \in Cost : CostAnswer(c) \in Answer
  BY QueryAssumption DEF CostAnswer, Answer, Cost, Infinite
<1>3. \A q \in Query : Immediate(q) \in Answer
  BY <1>1, <1>2, CostFacts DEF Immediate
<1> QED
  BY <1>1, <1>2, <1>3

LEMMA GraphFacts ==
    ASSUME NEW q \in Query
    PROVE  /\ Len(q.graph.out) \in Nat
           /\ Nodes(q.graph) = 1..Len(q.graph.out)
           /\ Known(q) => Source(q) \in Nodes(q.graph) /\ Target(q) \in Nodes(q.graph)
           /\ \A u \in Nodes(q.graph) :
                 /\ Len(q.graph.out[u]) \in Nat
                 /\ \A i \in 1..Len(q.graph.out[u]) :
                       /\ q.graph.out[u][i].to \in Nodes(q.graph)
                       /\ q.graph.out[u][i].weight \in 0..MaxCost
<1>1. /\ q.graph.out \in Seq(Seq([to : Nodes(q.graph), weight : 0..MaxCost]))
      /\ q.graph.index \in [DOMAIN q.graph.index -> Nodes(q.graph)]
  BY QueryAssumption
<1> DEFINE EdgeOf == [to : Nodes(q.graph), weight : 0..MaxCost]
<1>2. ASSUME NEW u \in Nodes(q.graph)
      PROVE  /\ Len(q.graph.out[u]) \in Nat
             /\ \A i \in 1..Len(q.graph.out[u]) : q.graph.out[u][i] \in EdgeOf
  <2> HIDE DEF EdgeOf
  <2>1. q.graph.out[u] \in Seq(EdgeOf)
    BY <1>1 DEF Nodes, EdgeOf
  <2> QED
    BY <2>1
<1>3. \A r \in EdgeOf : r.to \in Nodes(q.graph) /\ r.weight \in 0..MaxCost
  OBVIOUS
<1>4. Known(q) => Source(q) \in Nodes(q.graph) /\ Target(q) \in Nodes(q.graph)
  BY <1>1 DEF Known, Source, Target
<1>5. Len(q.graph.out) \in Nat /\ Nodes(q.graph) = 1..Len(q.graph.out)
  BY <1>1 DEF Nodes
<1> HIDE DEF EdgeOf
<1> QED
  BY <1>2, <1>3, <1>4, <1>5

-----------------------------------------------------------------------------

TypeOK ==
    /\ query \in Option(Query) /\ answer \in Option(Answer)
    /\ dist \in [DOMAIN dist -> Cost]
    /\ heap \subseteq Cost \X DOMAIN dist
    /\ at \in Option(Cost \X DOMAIN dist)
    /\ next \in Nat \ {0}

(* The first n edges of the node u lead to nodes that are no farther. *)
Relaxed(q, u, n) ==
    \A i \in 1..n :
        LET edge == q.graph.out[u][i]
        IN  edge.to \in q.accepted => /\ edge.to \in DOMAIN dist
                                      /\ dist[edge.to] <= Plus(dist[u], edge.weight)

(* A node that is not pending with its present distance has been expanded  *)
(* with it, and is not the target.                                         *)
Settled(q, u) == u # Target(q) /\ Relaxed(q, u, Len(q.graph.out[u]))
Pending(u)    == <<dist[u], u>> \in heap \cup at

SearchOK(q) ==
    /\ Searchable(q)
    /\ DOMAIN dist \subseteq Nodes(q.graph)
    /\ Source(q) \in DOMAIN dist /\ dist[Source(q)] = 0
    /\ \A u \in DOMAIN dist : <<u, dist[u]>> \in Routes(q)
    /\ \A e \in heap : dist[e[2]] <= e[1]
    /\ \A e \in at : /\ e[1] = dist[e[2]] /\ e[2] # Target(q)
                     /\ Relaxed(q, e[2], next - 1)
    /\ \A u \in DOMAIN dist : Pending(u) \/ Settled(q, u)

SearchInv == answer = {} => \A q \in query : SearchOK(q)

Inv == TypeOK /\ SearchInv /\ AnswerIsShortest

-----------------------------------------------------------------------------
(* Facts about routes. *)

(* The source is the end of a route, and a route may be lengthened. *)
LEMMA RoutesGrow ==
    ASSUME NEW q \in Query, Known(q)
    PROVE  /\ <<Source(q), 0>> \in Routes(q)
           /\ \A u \in Nodes(q.graph), c \in Cost : \A i \in 1..Len(q.graph.out[u]) :
                 <<u, c>> \in Routes(q) /\ q.graph.out[u][i].to \in q.accepted =>
                    <<q.graph.out[u][i].to, Plus(c, q.graph.out[u][i].weight)>> \in Routes(q)
<1>1. <<Source(q), 0>> \in Routes(q)
  BY CostFacts, GraphFacts DEF Routes, Ends
<1>2. ASSUME NEW u \in Nodes(q.graph), NEW c \in Cost, NEW i \in 1..Len(q.graph.out[u]),
             <<u, c>> \in Routes(q), q.graph.out[u][i].to \in q.accepted
      PROVE  <<q.graph.out[u][i].to, Plus(c, q.graph.out[u][i].weight)>> \in Routes(q)
  <2> DEFINE p == <<q.graph.out[u][i].to, Plus(c, q.graph.out[u][i].weight)>>
  <2>1. p \in Ends(q)
    BY CostFacts, GraphFacts DEF Ends
  <2>2. ASSUME NEW S \in SUBSET Ends(q), <<Source(q), 0>> \in S, Follows(q, S)
        PROVE  p \in S
    <3>1. <<u, c>> \in S
      BY <1>2, <2>2 DEF Routes
    <3> QED
      BY <1>2, <2>2, <3>1 DEF Follows
  <2> HIDE DEF p
  <2>3. p \in Routes(q)
    BY <2>1, <2>2 DEF Routes
  <2> QED
    BY <2>3 DEF p
<1> QED
  BY <1>1, <1>2


(* What is expected if c is the least cost of a route, or there is none. *)
LEMMA LeastIsExpected ==
    ASSUME NEW q \in Query, Searchable(q), NEW c \in Cost, <<Target(q), c>> \in Routes(q),
           \A p \in Routes(q) : p[1] = Target(q) => c <= p[2]
    PROVE  Expected(q) = CostAnswer(c)
<1>1. c \in CostsOf(q) /\ \A d \in CostsOf(q) : c <= d
  BY DEF CostsOf
<1>2. CostsOf(q) \subseteq Nat
  BY CostFacts DEF CostsOf, Routes, Ends
<1>3. Min(CostsOf(q)) \in CostsOf(q) /\ Min(CostsOf(q)) <= c
  BY <1>1 DEF Min
<1>4. Min(CostsOf(q)) = c
  BY <1>1, <1>2, <1>3
<1> QED
  BY <1>1, <1>4 DEF Expected

LEMMA NoneIsExpected ==
    ASSUME NEW q \in Query, Searchable(q), \A p \in Routes(q) : p[1] # Target(q)
    PROVE  Expected(q) = None
BY DEF Expected, CostsOf

(* No route costs less than c, if the nodes nearer than c are relaxed. *)
LEMMA NoCheaperRoute ==
    ASSUME TypeOK, NEW q \in Query, SearchOK(q), NEW c \in Cost,
           \A u \in DOMAIN dist : dist[u] < c => Relaxed(q, u, Len(q.graph.out[u]))
    PROVE  \A p \in Routes(q) : p[2] >= c \/ (p[1] \in DOMAIN dist /\ dist[p[1]] <= p[2])
<1> DEFINE S == {p \in Ends(q) : p[2] >= c \/ (p[1] \in DOMAIN dist /\ dist[p[1]] <= p[2])}
<1>1. <<Source(q), 0>> \in S
  BY CostFacts, GraphFacts DEF SearchOK, Searchable, Ends
<1>2. ASSUME NEW p \in S, NEW i \in 1..Len(q.graph.out[p[1]]),
             q.graph.out[p[1]][i].to \in q.accepted
      PROVE  <<q.graph.out[p[1]][i].to, Plus(p[2], q.graph.out[p[1]][i].weight)>> \in S
  <2> DEFINE v == q.graph.out[p[1]][i].to
             w == q.graph.out[p[1]][i].weight
  <2>1. /\ p[1] \in Nodes(q.graph) /\ p[2] \in Cost /\ p[2] \in Nat /\ c \in Nat
        /\ v \in Nodes(q.graph) /\ w \in 0..MaxCost
    BY CostFacts, GraphFacts DEF Ends
  <2>2. Plus(p[2], w) \in Cost /\ Plus(p[2], w) \in Nat /\ p[2] <= Plus(p[2], w)
    BY <2>1, CostFacts
  <2>3. CASE p[2] >= c
    <3>1. Plus(p[2], w) >= c
      BY <2>1, <2>2, <2>3
    <3> QED
      BY <2>1, <2>2, <3>1 DEF Ends
  <2>4. CASE ~(p[2] >= c)
    <3>1. /\ p[1] \in DOMAIN dist /\ dist[p[1]] \in Cost /\ dist[p[1]] <= p[2]
          /\ dist[p[1]] \in Nat
      BY <2>4, CostFacts DEF TypeOK
    <3>2. dist[p[1]] < c
      BY <2>1, <2>4, <3>1
    <3>3. v \in DOMAIN dist /\ dist[v] <= Plus(dist[p[1]], w)
      BY <1>2, <3>1, <3>2 DEF Relaxed
    <3>4. /\ Plus(dist[p[1]], w) <= Plus(p[2], w)
          /\ Plus(dist[p[1]], w) \in Nat /\ dist[v] \in Nat
      BY <2>1, <3>1, <3>3, CostFacts DEF TypeOK
    <3>5. dist[v] <= Plus(p[2], w)
      BY <2>2, <3>3, <3>4
    <3> QED
      BY <2>1, <2>2, <3>3, <3>5 DEF Ends
  <2> QED
    BY <2>3, <2>4
<1>3. Follows(q, S)
  BY <1>2 DEF Follows
<1>4. S \in SUBSET Ends(q)
  OBVIOUS
<1>5. Routes(q) \subseteq S
  <2> HIDE DEF S
  <2> QED
    BY <1>1, <1>3, <1>4 DEF Routes
<1> QED
  BY <1>5

(* Without pending nodes nothing but the discovered nodes is reached. *)
LEMMA NoOtherRoute ==
    ASSUME TypeOK, NEW q \in Query, SearchOK(q),
           \A u \in DOMAIN dist : Relaxed(q, u, Len(q.graph.out[u]))
    PROVE  \A p \in Routes(q) : p[1] \in DOMAIN dist
<1> DEFINE S == {p \in Ends(q) : p[1] \in DOMAIN dist}
<1>1. <<Source(q), 0>> \in S
  BY CostFacts, GraphFacts DEF SearchOK, Searchable, Ends
<1>2. ASSUME NEW p \in S, NEW i \in 1..Len(q.graph.out[p[1]]),
             q.graph.out[p[1]][i].to \in q.accepted
      PROVE  <<q.graph.out[p[1]][i].to, Plus(p[2], q.graph.out[p[1]][i].weight)>> \in S
  <2>1. q.graph.out[p[1]][i].to \in DOMAIN dist
    BY <1>2 DEF Relaxed
  <2>2. /\ q.graph.out[p[1]][i].to \in Nodes(q.graph)
        /\ Plus(p[2], q.graph.out[p[1]][i].weight) \in Cost
    BY CostFacts, GraphFacts DEF Ends
  <2> QED
    BY <2>1, <2>2 DEF Ends
<1>3. Follows(q, S)
  BY <1>2 DEF Follows
<1>4. Routes(q) \subseteq S
  <2>1. S \in SUBSET Ends(q)
    OBVIOUS
  <2> HIDE DEF S
  <2> QED
    BY <1>1, <1>3, <2>1 DEF Routes
<1> QED
  BY <1>4

-----------------------------------------------------------------------------
(* The steps. *)

LEMMA PopTargetAnswers ==
    ASSUME Inv, PopTarget
    PROVE  Inv'
<1>1. PICK q \in query, e \in heap :
         /\ Popped(e) /\ e[1] <= dist[e[2]] /\ e[2] = Target(q)
         /\ answer' = {CostAnswer(e[1])}
         /\ UNCHANGED <<query, dist, at, next>>
  BY DEF PopTarget
<1>2. /\ q \in Query /\ query = {q} /\ TypeOK /\ SearchOK(q) /\ at = {}
      /\ e[1] \in Cost /\ e[2] \in DOMAIN dist /\ dist[e[2]] \in Cost
  BY <1>1 DEF Inv, TypeOK, Option, SearchInv, Popped, Searching
<1>3. e[1] = dist[Target(q)] /\ e[1] \in Nat
  <2>1. dist[e[2]] <= e[1]
    BY <1>2 DEF SearchOK
  <2>2. dist[e[2]] \in Nat /\ e[1] \in Nat
    BY <1>2, CostFacts
  <2> QED
    BY <1>1, <2>1, <2>2
<1>4. ASSUME NEW u \in DOMAIN dist, dist[u] < e[1]
      PROVE  Relaxed(q, u, Len(q.graph.out[u]))
  <2>1. dist[u] \in Nat
    BY <1>2, CostFacts DEF TypeOK
  <2>2. <<dist[u], u>> \notin heap
    BY <1>1, <1>3, <1>4, <2>1 DEF Popped, IsTop
  <2> QED
    BY <1>2, <2>2 DEF SearchOK, Pending, Settled
<1>5. ASSUME NEW p \in Routes(q), p[1] = Target(q)
      PROVE  e[1] <= p[2]
  <2>1. p[2] >= e[1] \/ dist[Target(q)] <= p[2]
    BY <1>2, <1>4, <1>5, NoCheaperRoute
  <2>2. p[2] \in Nat
    BY CostFacts DEF Routes, Ends
  <2> QED
    BY <1>3, <2>1, <2>2
<1>6. <<Target(q), e[1]>> \in Routes(q)
  BY <1>1, <1>2, <1>3 DEF SearchOK
<1>7. CostAnswer(e[1]) = Expected(q)
  BY <1>2, <1>5, <1>6, LeastIsExpected DEF SearchOK
<1>8. AnswerIsShortest'
  BY <1>1, <1>2, <1>7 DEF AnswerIsShortest
<1>9. TypeOK'
  <2>1. answer' \in Option(Answer) /\ heap' \subseteq heap
    BY <1>1, <1>2, AnswerFacts DEF Option, Popped
  <2> QED
    BY <1>1, <1>2, <2>1 DEF TypeOK
<1> QED
  BY <1>1, <1>8, <1>9 DEF Inv, SearchInv

LEMMA ExhaustedAnswers ==
    ASSUME Inv, Exhausted
    PROVE  Inv'
<1>1. PICK q \in query : q \in Query /\ query = {q} /\ TypeOK /\ SearchOK(q)
  BY DEF Inv, TypeOK, Option, SearchInv, Exhausted, Searching
<1>2. \A u \in DOMAIN dist : Settled(q, u)
  BY <1>1 DEF SearchOK, Pending, Exhausted
<1>3. \A p \in Routes(q) : p[1] \in DOMAIN dist
  BY <1>1, <1>2, NoOtherRoute DEF Settled
<1>4. Target(q) \notin DOMAIN dist
  BY <1>2 DEF Settled
<1>5. None = Expected(q)
  BY <1>1, <1>3, <1>4, NoneIsExpected DEF SearchOK
<1>6. AnswerIsShortest'
  BY <1>1, <1>5 DEF AnswerIsShortest, Exhausted
<1>7. TypeOK'
  BY <1>1, AnswerFacts DEF TypeOK, Exhausted, Option
<1> QED
  BY <1>6, <1>7 DEF Inv, SearchInv, Exhausted


LEMMA SearchBegins ==
    ASSUME Inv, AskSearch
    PROVE  Inv'
<1>1. PICK q \in Query :
         /\ query' = {q} /\ Searchable(q)
         /\ dist' = [u \in {Source(q)} |-> 0]
         /\ heap' = {<<0, Source(q)>>}
         /\ at' = {} /\ next' = 1 /\ answer' = {}
  BY DEF AskSearch, Ask
<1>2. TypeOK'
  BY <1>1, CostFacts DEF TypeOK, Option
<1>3. SearchOK(q)'
  <2>1. /\ <<Source(q), 0>> \in Routes(q)
        /\ Source(q) \in Nodes(q.graph)
    BY <1>1, GraphFacts, RoutesGrow DEF Searchable
  <2> QED
    BY <1>1, <2>1 DEF SearchOK, Pending
<1> QED
  BY <1>1, <1>2, <1>3 DEF Inv, SearchInv, AnswerIsShortest

LEMMA RelaxSearches ==
    ASSUME Inv, Relax
    PROVE  Inv'
<1>1. PICK q \in query, e \in at :
         /\ Following(q, e)
         /\ Edge(q, e).to \in q.accepted
         /\ Improves(Edge(q, e).to, Reached(q, e))
         /\ dist' = [u \in DOMAIN dist \cup {Edge(q, e).to} |->
                        IF u = Edge(q, e).to THEN Reached(q, e) ELSE dist[u]]
         /\ heap' = heap \cup {<<Reached(q, e), Edge(q, e).to>>}
         /\ next' = next + 1
         /\ UNCHANGED <<query, at, answer>>
  BY DEF Relax
<1> DEFINE v == Edge(q, e).to
           c == Reached(q, e)
<1>2. /\ q \in Query /\ query = {q} /\ TypeOK /\ SearchOK(q)
      /\ at = {e} /\ answer = {}
      /\ e \in Cost \X DOMAIN dist
      /\ e[1] \in Cost /\ e[2] \in DOMAIN dist /\ e[1] = dist[e[2]]
      /\ e[2] \in Nodes(q.graph)
      /\ Relaxed(q, e[2], next - 1)
  BY <1>1 DEF Inv, TypeOK, Option, SearchInv, SearchOK, Following, Searching
<1>3. /\ next \in 1..Len(q.graph.out[e[2]]) /\ Len(q.graph.out[e[2]]) \in Nat
      /\ next \in Nat
  <2>1. Len(q.graph.out[e[2]]) \in Nat
    BY <1>2, GraphFacts
  <2> QED
    BY <1>1, <1>2, <2>1 DEF TypeOK, Following
<1>4. /\ Edge(q, e) = q.graph.out[e[2]][next]
      /\ v \in Nodes(q.graph)
      /\ Edge(q, e).weight \in 0..MaxCost
      /\ c = Plus(e[1], Edge(q, e).weight) /\ c \in Cost /\ e[1] <= c
  BY <1>2, <1>3, GraphFacts, CostFacts DEF Edge, Reached
<1>5. <<v, c>> \in Routes(q)
  <2>1. <<e[2], e[1]>> \in Routes(q) /\ Known(q)
    BY <1>2 DEF SearchOK, Searchable
  <2> QED
    BY <1>1, <1>2, <1>3, <1>4, <2>1, RoutesGrow
<1> HIDE DEF v, c
<1>6. /\ DOMAIN dist' = DOMAIN dist \cup {v}
      /\ dist'[v] = c
      /\ \A u \in DOMAIN dist : u # v => dist'[u] = dist[u]
      /\ \A u \in DOMAIN dist : dist'[u] <= dist[u]
      /\ \A u \in DOMAIN dist' : dist'[u] \in Cost
  <2>1. /\ DOMAIN dist' = DOMAIN dist \cup {v} /\ dist'[v] = c
        /\ \A u \in DOMAIN dist : u # v => dist'[u] = dist[u]
    BY <1>1 DEF v, c
  <2>2. \A u \in DOMAIN dist : dist[u] \in Cost /\ dist[u] \in Nat
    BY <1>2, CostFacts DEF TypeOK
  <2>3. v \in DOMAIN dist => c < dist[v]
    BY <1>1 DEF Improves, v, c
  <2>4. c \in Nat /\ c \in Cost
    BY <1>4, CostFacts
  <2>5. \A u \in DOMAIN dist : dist'[u] <= dist[u] /\ dist'[u] \in Cost
    BY <2>1, <2>2, <2>3, <2>4
  <2> QED
    BY <2>1, <2>4, <2>5
<1>7. v # e[2] /\ v # Source(q)
  <2>1. v \in DOMAIN dist => c < dist[v]
    BY <1>1 DEF Improves, v, c
  <2>2. c \in Nat /\ e[1] \in Nat /\ e[1] <= c /\ dist[e[2]] = e[1] /\ e[2] \in DOMAIN dist
    BY <1>2, <1>4, CostFacts
  <2>3. v # e[2]
    BY <2>1, <2>2
  <2>4. Source(q) \in DOMAIN dist /\ dist[Source(q)] = 0
    BY <1>2 DEF SearchOK
  <2> QED
    BY <2>1, <2>2, <2>3, <2>4
<1>8. TypeOK'
  <2>1. dist' \in [DOMAIN dist' -> Cost]
    BY <1>1, <1>6
  <2>2. heap' \subseteq Cost \X DOMAIN dist'
    <3>1. heap \subseteq Cost \X DOMAIN dist'
      BY <1>2, <1>6 DEF TypeOK
    <3>2. <<c, v>> \in Cost \X DOMAIN dist'
      BY <1>4, <1>6
    <3> QED
      BY <1>1, <3>1, <3>2 DEF v, c
  <2>3. at' \in Option(Cost \X DOMAIN dist')
    <3>1. e \in Cost \X DOMAIN dist'
      BY <1>2, <1>6
    <3> QED
      BY <1>1, <1>2, <3>1 DEF Option
  <2> QED
    BY <1>1, <1>2, <1>3, <2>1, <2>2, <2>3 DEF TypeOK
<1>9. ASSUME NEW u \in DOMAIN dist, u # v, NEW n \in 0..Len(q.graph.out[u]),
             Relaxed(q, u, n)
      PROVE  Relaxed(q, u, n)'
  <2> SUFFICES ASSUME NEW i \in 1..n, q.graph.out[u][i].to \in q.accepted
               PROVE  /\ q.graph.out[u][i].to \in DOMAIN dist'
                      /\ dist'[q.graph.out[u][i].to]
                            <= Plus(dist'[u], q.graph.out[u][i].weight)
    BY DEF Relaxed
  <2>1. /\ q.graph.out[u][i].to \in DOMAIN dist
        /\ dist[q.graph.out[u][i].to] <= Plus(dist[u], q.graph.out[u][i].weight)
    BY <1>9 DEF Relaxed
  <2>2. u \in Nodes(q.graph) /\ Len(q.graph.out[u]) \in Nat
    BY <1>2, GraphFacts DEF SearchOK
  <2>3. i \in 1..Len(q.graph.out[u])
    BY <2>2
  <2>4. q.graph.out[u][i].weight \in 0..MaxCost
    BY <1>2, <2>2, <2>3, GraphFacts
  <2>5. /\ Plus(dist[u], q.graph.out[u][i].weight) \in Nat
        /\ dist[q.graph.out[u][i].to] \in Nat
        /\ dist'[q.graph.out[u][i].to] \in Nat
    BY <1>2, <1>6, <2>1, <2>4, CostFacts DEF TypeOK
  <2>6. dist'[q.graph.out[u][i].to] <= dist[q.graph.out[u][i].to] /\ dist'[u] = dist[u]
    BY <1>6, <1>9, <2>1
  <2> QED
    BY <1>6, <2>1, <2>5, <2>6
<1>10. Relaxed(q, e[2], next - 1)'
  <2>1. PICK n \in Nat : n = next - 1
    BY <1>3
  <2>2. n \in 0..Len(q.graph.out[e[2]]) /\ n + 1 = next /\ next' - 1 = n + 1
    BY <1>1, <1>3, <2>1
  <2>3. Relaxed(q, e[2], n)'
    BY <1>2, <1>7, <1>9, <2>1, <2>2
  <2>4. ASSUME NEW i \in 1..(n + 1), q.graph.out[e[2]][i].to \in q.accepted
        PROVE  /\ q.graph.out[e[2]][i].to \in DOMAIN dist'
               /\ dist'[q.graph.out[e[2]][i].to]
                     <= Plus(dist'[e[2]], q.graph.out[e[2]][i].weight)
    <3>1. CASE i \in 1..n
      BY <2>3, <2>4, <3>1 DEF Relaxed
    <3>2. CASE i = next
      <4>1. /\ q.graph.out[e[2]][i].to = v
            /\ Plus(dist'[e[2]], q.graph.out[e[2]][i].weight) = c
        BY <1>2, <1>4, <1>6, <1>7, <3>2 DEF v
      <4>2. c <= c
        BY <1>4, CostFacts
      <4> QED
        BY <1>6, <4>1, <4>2
    <3> QED
      BY <2>2, <3>1, <3>2
  <2> QED
    BY <2>2, <2>4 DEF Relaxed
<1>11. ASSUME NEW u \in DOMAIN dist'
       PROVE  Pending(u)' \/ Settled(q, u)'
  <2>1. CASE u = v
    BY <1>1, <1>6, <2>1 DEF Pending, v, c
  <2>2. CASE u # v
    <3>1. u \in DOMAIN dist /\ dist'[u] = dist[u]
      BY <1>6, <2>2
    <3>2. CASE Pending(u)
      BY <1>1, <3>1, <3>2 DEF Pending
    <3>3. CASE Settled(q, u)
      <4>1. Len(q.graph.out[u]) \in 0..Len(q.graph.out[u])
        BY <1>2, <3>1, GraphFacts DEF SearchOK
      <4> QED
        BY <1>9, <2>2, <3>1, <3>3, <4>1 DEF Settled
    <3> QED
      BY <1>2, <3>1, <3>2, <3>3 DEF SearchOK
  <2> QED
    BY <2>1, <2>2
<1>12. SearchOK(q)'
  <2>1. \A u \in DOMAIN dist' : <<u, dist'[u]>> \in Routes(q)
    BY <1>2, <1>5, <1>6 DEF SearchOK
  <2>2. ASSUME NEW f \in heap'
        PROVE  dist'[f[2]] <= f[1]
    <3>1. CASE f = <<c, v>>
      <4>1. c <= c
        BY <1>4, CostFacts
      <4> QED
        BY <1>6, <3>1, <4>1
    <3>2. CASE f \in heap
      <4>1. f[2] \in DOMAIN dist /\ f[1] \in Nat /\ dist[f[2]] \in Nat /\ dist[f[2]] <= f[1]
        BY <1>2, <3>2, CostFacts DEF TypeOK, SearchOK
      <4>2. dist'[f[2]] <= dist[f[2]] /\ dist'[f[2]] \in Nat
        BY <1>6, <4>1, CostFacts
      <4> QED
        BY <4>1, <4>2
    <3> QED
      BY <1>1, <3>1, <3>2 DEF v, c
  <2>3. \A f \in at' : /\ f[1] = dist'[f[2]] /\ f[2] # Target(q)
                        /\ Relaxed(q, f[2], next - 1)'
    BY <1>1, <1>2, <1>6, <1>7, <1>10 DEF SearchOK
  <2>4. /\ Searchable(q)
        /\ DOMAIN dist' \subseteq Nodes(q.graph)
        /\ Source(q) \in DOMAIN dist' /\ dist'[Source(q)] = 0
    BY <1>2, <1>4, <1>6, <1>7 DEF SearchOK
  <2> QED
    BY <1>11, <2>1, <2>2, <2>3, <2>4 DEF SearchOK
<1> QED
  BY <1>1, <1>2, <1>8, <1>12 DEF Inv, SearchInv, AnswerIsShortest


LEMMA SkipSearches ==
    ASSUME Inv, SkipEdge
    PROVE  Inv'
<1>1. PICK q \in query, e \in at :
         /\ Following(q, e)
         /\ \/ Edge(q, e).to \notin q.accepted
            \/ ~Improves(Edge(q, e).to, Reached(q, e))
         /\ next' = next + 1
         /\ UNCHANGED <<query, dist, heap, at, answer>>
  BY DEF SkipEdge
<1>2. /\ q \in Query /\ query = {q} /\ TypeOK /\ SearchOK(q)
      /\ at = {e} /\ answer = {}
      /\ e[1] \in Cost /\ e[2] \in DOMAIN dist /\ e[1] = dist[e[2]]
      /\ e[2] \in Nodes(q.graph)
      /\ Relaxed(q, e[2], next - 1)
  BY <1>1 DEF Inv, TypeOK, Option, SearchInv, SearchOK, Following, Searching
<1>3. /\ next \in 1..Len(q.graph.out[e[2]]) /\ next \in Nat
  <2>1. Len(q.graph.out[e[2]]) \in Nat
    BY <1>2, GraphFacts
  <2> QED
    BY <1>1, <1>2, <2>1 DEF TypeOK, Following
<1>4. Edge(q, e).to \in q.accepted =>
         /\ Edge(q, e).to \in DOMAIN dist
         /\ dist[Edge(q, e).to] <= Plus(dist[e[2]], Edge(q, e).weight)
  <2>1. Reached(q, e) \in Cost
    BY <1>2, <1>3, GraphFacts, CostFacts DEF Edge, Reached
  <2>2. Reached(q, e) \in Nat /\ \A u \in DOMAIN dist : dist[u] \in Nat
    BY <1>2, <2>1, CostFacts DEF TypeOK
  <2> QED
    BY <1>1, <1>2, <2>2 DEF Improves, Reached
<1>5. Relaxed(q, e[2], next' - 1)
  <2>1. \A i \in 1..(next' - 1) : i = next \/ i \in 1..(next - 1)
    BY <1>1, <1>3
  <2> QED
    BY <1>2, <1>4, <2>1 DEF Relaxed, Edge
<1>6. SearchOK(q)'
  <2>1. \A u, n : Relaxed(q, u, n)' <=> Relaxed(q, u, n)
    BY <1>1 DEF Relaxed
  <2>2. \A u : (Pending(u)' <=> Pending(u)) /\ (Settled(q, u)' <=> Settled(q, u))
    BY <1>1, <2>1 DEF Pending, Settled
  <2>3. Relaxed(q, e[2], next - 1)'
    BY <1>1, <1>5 DEF Relaxed
  <2> QED
    BY <1>1, <1>2, <2>1, <2>2, <2>3 DEF SearchOK
<1>7. TypeOK'
  BY <1>1, <1>2, <1>3 DEF TypeOK
<1> QED
  BY <1>1, <1>2, <1>6, <1>7 DEF Inv, SearchInv, AnswerIsShortest

LEMMA StaleSearches ==
    ASSUME Inv, PopStale
    PROVE  Inv'
<1>1. PICK q \in query, e \in heap :
         /\ Popped(e) /\ e[1] > dist[e[2]]
         /\ UNCHANGED <<query, dist, at, next, answer>>
  BY DEF PopStale
<1>2. /\ q \in Query /\ query = {q} /\ TypeOK /\ SearchOK(q)
      /\ at = {} /\ answer = {} /\ heap' = heap \ {e}
  BY <1>1 DEF Inv, TypeOK, Option, SearchInv, Popped, Searching
<1>3. \A u \in DOMAIN dist : Pending(u) => Pending(u)'
  <2>1. dist[e[2]] \in Nat
    BY <1>2, CostFacts DEF TypeOK
  <2>2. \A u \in DOMAIN dist : <<dist[u], u>> # e
    BY <1>1, <2>1
  <2> QED
    BY <1>1, <1>2, <2>2 DEF Pending
<1>4. SearchOK(q)'
  BY <1>1, <1>2, <1>3 DEF SearchOK, Relaxed, Settled
<1>5. TypeOK'
  BY <1>1, <1>2 DEF TypeOK
<1> QED
  BY <1>1, <1>2, <1>4, <1>5 DEF Inv, SearchInv, AnswerIsShortest

LEMMA NodeSearches ==
    ASSUME Inv, PopNode
    PROVE  Inv'
<1>1. PICK q \in query, e \in heap :
         /\ Popped(e) /\ e[1] <= dist[e[2]] /\ e[2] # Target(q)
         /\ at' = {e} /\ next' = 1
         /\ UNCHANGED <<query, dist, answer>>
  BY DEF PopNode
<1>2. /\ q \in Query /\ query = {q} /\ TypeOK /\ SearchOK(q)
      /\ at = {} /\ answer = {} /\ heap' = heap \ {e}
      /\ e \in Cost \X DOMAIN dist
  BY <1>1 DEF Inv, TypeOK, Option, SearchInv, Popped, Searching
<1>3. e[1] = dist[e[2]]
  <2>1. dist[e[2]] \in Nat /\ e[1] \in Nat
    BY <1>2, CostFacts DEF TypeOK
  <2>2. dist[e[2]] <= e[1]
    BY <1>2 DEF SearchOK
  <2> QED
    BY <1>1, <2>1, <2>2
<1>4. \A u \in DOMAIN dist : Pending(u) => Pending(u)'
  BY <1>1, <1>2 DEF Pending
<1>5. \A f \in at' : /\ f[1] = dist'[f[2]] /\ f[2] # Target(q)
                    /\ Relaxed(q, f[2], next - 1)'
  <2>1. \A i : i \notin 1..(next' - 1)
    BY <1>1
  <2> QED
    BY <1>1, <1>3, <2>1 DEF Relaxed
<1>6. SearchOK(q)'
  BY <1>1, <1>2, <1>4, <1>5 DEF SearchOK, Relaxed, Settled
<1>7. TypeOK'
  BY <1>1, <1>2 DEF TypeOK, Option
<1> QED
  BY <1>1, <1>2, <1>6, <1>7 DEF Inv, SearchInv, AnswerIsShortest

LEMMA ExpandedSearches ==
    ASSUME Inv, Expanded
    PROVE  Inv'
<1>1. PICK q \in query, e \in at :
         /\ Searching /\ next > Len(q.graph.out[e[2]])
         /\ at' = {}
         /\ UNCHANGED <<query, dist, heap, next, answer>>
  BY DEF Expanded
<1>2. /\ q \in Query /\ query = {q} /\ TypeOK /\ SearchOK(q)
      /\ at = {e} /\ answer = {} /\ e \in Cost \X DOMAIN dist
      /\ e[2] \in Nodes(q.graph)
  BY <1>1 DEF Inv, TypeOK, Option, SearchInv, SearchOK, Searching
<1>3. Settled(q, e[2])
  <2>1. Len(q.graph.out[e[2]]) \in Nat /\ next \in Nat
    BY <1>2, GraphFacts DEF TypeOK
  <2>2. \A i \in 1..Len(q.graph.out[e[2]]) : i \in 1..(next - 1)
    BY <1>1, <2>1
  <2> QED
    BY <1>2, <2>2 DEF SearchOK, Settled, Relaxed
<1>4. ASSUME NEW u \in DOMAIN dist
      PROVE  Pending(u)' \/ Settled(q, u)'
  <2>1. Settled(q, u) => Settled(q, u)'
    BY <1>1 DEF Settled, Relaxed
  <2>2. Pending(u) => Pending(u)' \/ u = e[2]
    BY <1>1, <1>2 DEF Pending
  <2> QED
    BY <1>2, <1>3, <2>1, <2>2 DEF SearchOK
<1>5. SearchOK(q)'
  BY <1>1, <1>2, <1>4 DEF SearchOK
<1>6. TypeOK'
  BY <1>1, <1>2 DEF TypeOK, Option
<1> QED
  BY <1>1, <1>2, <1>5, <1>6 DEF Inv, SearchInv, AnswerIsShortest

-----------------------------------------------------------------------------
(* Distances are costs of routes, and what is not pending is settled, in   *)
(* every state of a search (dijkstra_cost).                                *)
THEOREM DijkstraInvariance == Spec => []Inv
<1>1. Init => Inv
  BY DEF Init, Inv, TypeOK, Option, SearchInv, AnswerIsShortest
<1>2. Inv /\ [Next]_vars => Inv'
  <2> SUFFICES ASSUME Inv, [Next]_vars PROVE Inv'
    OBVIOUS
  <2>1. CASE AskImmediate
    <3>1. PICK q \in Query : /\ query' = {q} /\ ~Searchable(q) /\ answer' = {Immediate(q)}
                             /\ UNCHANGED <<dist, heap, at, next>>
      BY <2>1 DEF AskImmediate, Ask
    <3>2. Immediate(q) = Expected(q)
      BY <3>1 DEF Expected
    <3> QED
      BY <3>1, <3>2, AnswerFacts DEF Inv, TypeOK, Option, SearchInv, AnswerIsShortest
  <2>2. CASE AskPanics
    BY <2>2, AnswerFacts
       DEF AskPanics, Ask, Inv, TypeOK, Option, SearchInv, AnswerIsShortest
  <2>3. CASE AskSearch
    BY <2>3, SearchBegins
  <2>4. CASE PopStale
    BY <2>4, StaleSearches
  <2>5. CASE PopTarget
    BY <2>5, PopTargetAnswers
  <2>6. CASE PopNode
    BY <2>6, NodeSearches
  <2>7. CASE Exhausted
    BY <2>7, ExhaustedAnswers
  <2>8. CASE SkipEdge
    BY <2>8, SkipSearches
  <2>9. CASE Relax
    BY <2>9, RelaxSearches
  <2>10. CASE FilterPanics
    BY <2>10, AnswerFacts
       DEF FilterPanics, Inv, TypeOK, Option, SearchInv, AnswerIsShortest
  <2>11. CASE Expanded
    BY <2>11, ExpandedSearches
  <2>12. CASE UNCHANGED vars
    <3>1. UNCHANGED <<query, dist, heap, at, next, answer>>
      BY <2>12 DEF vars
    <3>2. ASSUME NEW q PROVE SearchOK(q)' <=> SearchOK(q)
      <4>1. \A u, n : Relaxed(q, u, n)' <=> Relaxed(q, u, n)
        BY <3>1 DEF Relaxed
      <4>2. \A u : (Pending(u)' <=> Pending(u)) /\ (Settled(q, u)' <=> Settled(q, u))
        BY <3>1, <4>1 DEF Pending, Settled
      <4> QED
        BY <3>1, <4>1, <4>2 DEF SearchOK
    <3> QED
      BY <3>1, <3>2 DEF Inv, TypeOK, SearchInv, AnswerIsShortest
  <2> QED
    BY <2>1, <2>2, <2>3, <2>4, <2>5, <2>6, <2>7, <2>8, <2>9, <2>10, <2>11, <2>12
       DEF Next, Asking, Step
<1> QED
  BY <1>1, <1>2, PTL DEF Spec

(* Every answer of the search is the cost of a route that no other route   *)
(* undercuts, or says rightly that there is none (dijkstra_cost).          *)
THEOREM DijkstraIsCorrect == Spec => []AnswerIsShortest
<1>1. Inv => AnswerIsShortest
  BY DEF Inv
<1> QED
  BY <1>1, DijkstraInvariance, PTL

=============================================================================
