--------------------------- MODULE CommandProofs ---------------------------
(***************************************************************************)
(* Theorems about the planner's search and the commands that call it, for  *)
(* every library, goal, cap, list of sensors and draft of a configuration. *)
(* The exploration is exact; what the simulation, the findings of an       *)
(* inspection and the exit codes say is true; and the plan is a cheapest   *)
(* one among all sequences of actions, of any length.                      *)
(***************************************************************************)
EXTENDS CommandPromises, Induction, SequenceTheorems

-----------------------------------------------------------------------------
(***************************************************************************)
(* The search.                                                             *)
(***************************************************************************)

(* The queue holds discovered states, none twice, and not the one that is  *)
(* expanded: so no state is ever expanded twice.                           *)
Queued(s) == \E i \in DOMAIN queue : queue[i] = s

QueueOK ==
    /\ \A i \in DOMAIN queue : queue[i] \in discovered
    /\ \A i, j \in DOMAIN queue : queue[i] = queue[j] => i = j
    /\ \A s \in expanding : s \in discovered /\ ~Queued(s)

PhaseOK ==
    /\ phase = "called" => discovered = {} /\ queue = <<>> /\ ~truncated
    /\ phase = "exploring" => discovered # {} /\ ~truncated
    /\ phase # "exploring" => expanding = {}
    /\ phase \in {"explored", "answered"} /\ ~truncated => queue = <<>>
    /\ discovered # {} => initial \in discovered

(* The positions of the actions that have been tried in the state s.       *)
Tried(s) == IF s \in expanding THEN 1..(next - 1)
            ELSE IF s \in discovered /\ ~Queued(s) THEN DOMAIN Actions ELSE {}

(* Each action tried left an edge, and each edge is the best tried so far. *)
EdgesOK ==
    ~truncated =>
        /\ \A s \in discovered : \A i \in Tried(s) :
              Applicable(Actions[i], s) => <<s, Apply(Actions[i], s)>> \in DOMAIN edges
        /\ \A e \in DOMAIN edges : \E i \in Tried(e[1]) \cap Connecting(e[1], e[2]) :
              /\ IsBest(i, Tried(e[1]) \cap Connecting(e[1], e[2]))
              /\ edges[e] = [cost |-> CostAt(i), name |-> Actions[i]]

(* Beyond the cap there is always a state left to pop, so the test is made. *)
CapOK ==
    /\ phase = "exploring" /\ Cardinality(discovered) > MaxStates => queue # <<>>
    /\ phase \in {"explored", "answered"} =>
          (truncated <=> Cardinality(discovered) > MaxStates)

Inv == /\ ExplorationOK /\ QueueOK /\ PhaseOK
       /\ discovered \subseteq Reachable(initial)
       /\ GraphIsConsistent
       /\ EdgesOK
       /\ CapOK

-----------------------------------------------------------------------------
(* Facts about the planning problem. *)

LEMMA ApplyType ==
    ASSUME NEW a \in Action, NEW s \in State
    PROVE  /\ Apply(a, s) \in State
           /\ Library[a].cost \in Cost
BY LibraryAssumption DEF ActionSpec, Apply, State

(* The least set of states that contains s and all successors in it. *)
Closed(S) == \A s \in S : Successors(s) \subseteq S

Hull(s) == {t \in State : \A S \in SUBSET State : s \in S /\ Closed(S) => t \in S}

LEMMA HullClosed ==
    ASSUME NEW r \in State
    PROVE  /\ r \in Hull(r)
           /\ Hull(r) \in SUBSET State
           /\ \A a \in Action, s \in Hull(r) : Applicable(a, s) => Apply(a, s) \in Hull(r)
<1>1. r \in Hull(r) /\ Hull(r) \in SUBSET State
  BY DEF Hull
<1>2. ASSUME NEW a \in Action, NEW s \in Hull(r), Applicable(a, s)
      PROVE  Apply(a, s) \in Hull(r)
  <2>1. Apply(a, s) \in Successors(s)
    BY <1>2 DEF Successors
  <2>2. Apply(a, s) \in State
    BY <1>1, ApplyType
  <2>3. ASSUME NEW S \in SUBSET State, r \in S, Closed(S)
        PROVE  Apply(a, s) \in S
    <3>1. s \in S
      BY <2>3 DEF Hull
    <3> QED
      BY <2>1, <2>3, <3>1 DEF Closed
  <2> QED
    BY <2>2, <2>3 DEF Hull
<1> QED
  BY <1>1, <1>2

LEMMA FiniteStates ==
    ASSUME NEW S \in SUBSET State
    PROVE  IsFiniteSet(S) /\ Cardinality(S) \in Nat
<1>1. IsFiniteSet(State)
  BY LibraryAssumption, FS_SUBSET DEF State
<1>2. IsFiniteSet(S)
  BY <1>1, FS_Subset
<1> QED
  BY <1>2, FS_CardinalityType

-----------------------------------------------------------------------------
(* Every state that can be reached is within reach in time.                *)

LEMMA ExpandType ==
    ASSUME NEW S \in SUBSET State
    PROVE  /\ Expand(S) \in SUBSET State /\ S \subseteq Expand(S)
           /\ \A s \in S : Successors(s) \subseteq Expand(S)
<1>1. \A s \in S : Successors(s) \subseteq State
  BY ApplyType DEF Successors
<1> QED
  BY <1>1 DEF Expand

LEMMA ReachableChain ==
    ASSUME NEW s \in State
    PROVE  \E g \in [0..Cardinality(State) -> SUBSET State] :
              /\ g[0] = {s} /\ \A k \in 1..Cardinality(State) : g[k] = Expand(g[k - 1])
              /\ Reachable(s) = g[Cardinality(State)]
<1> DEFINE T == SUBSET State
           N == Cardinality(State)
           F == [S \in T |-> Expand(S)]
<1>1. N \in Nat
  BY FiniteStates
<1>2. {s} \in T /\ F \in [T -> T] /\ \A S \in T : F[S] = Expand(S)
  BY ExpandType
<1> HIDE DEF T, F, N
<1>3a. PICK g : IsIteration(N, T, {s}, F, g)
  BY <1>1, <1>2, Iterates
<1>3. g \in [0..N -> T] /\ g[0] = {s} /\ \A k \in 1..N : g[k] = F[g[k - 1]]
  BY <1>3a DEF IsIteration
<1>4. \A k \in 1..N : g[k] = Expand(g[k - 1])
  BY <1>1, <1>2, <1>3
<1>5. g = [k \in 0..N |-> IF k = 0 THEN {s} ELSE Expand(g[k - 1])]
  BY <1>1, <1>3, <1>4
<1> DEFINE w == CHOOSE w : w = [k \in 0..N |-> IF k = 0 THEN {s} ELSE Expand(w[k - 1])]
<1>6. w = [k \in 0..N |-> IF k = 0 THEN {s} ELSE Expand(w[k - 1])]
  BY <1>5
<1>7. Reachable(s) = w[N]
  BY DEF Reachable, N
<1> HIDE DEF w
<1>7a. w[0] = {s} /\ \A k \in 1..N : w[k] = Expand(w[k - 1])
  <2>1. 0 \in 0..N /\ \A k \in 1..N : k \in 0..N /\ k # 0
    BY <1>1
  <2>2. \A k \in 0..N : w[k] = IF k = 0 THEN {s} ELSE Expand(w[k - 1])
    BY <1>6, Zenon
  <2> QED
    BY <2>1, <2>2
<1>8. w \in [0..N -> T]
  <2> DEFINE U == {k \in 0..N : w[k] \in T}
  <2>1. 0 \in U
    BY <1>1, <1>2, <1>6
  <2>2. ASSUME NEW k \in 0..(N - 1), k \in U PROVE k + 1 \in U
    <3>1. k + 1 \in 0..N /\ k + 1 \in 1..N /\ (k + 1) - 1 = k
      BY <1>1
    <3>2. w[k + 1] = Expand(w[k])
      BY <1>7a, <3>1
    <3> QED
      BY <2>2, <3>1, <3>2, ExpandType DEF T
  <2> HIDE DEF U
  <2>3. \A k \in 0..N : k \in U
    BY <1>1, <2>1, <2>2, UpTo
  <2>4. \A k \in 0..N : w[k] \in T
    BY <2>3 DEF U
  <2> QED
    BY <1>6, <2>4
<1> QED
  BY <1>7, <1>7a, <1>8 DEF N, T

LEMMA ReachableIsHull ==
    ASSUME NEW s \in State
    PROVE  Reachable(s) = Hull(s)
<1> DEFINE N == Cardinality(State)
<1>1. N \in Nat /\ IsFiniteSet(State)
  BY FiniteStates
<1>2. PICK g \in [0..N -> SUBSET State] :
          /\ g[0] = {s} /\ \A k \in 1..N : g[k] = Expand(g[k - 1])
          /\ Reachable(s) = g[N]
  BY ReachableChain
<1> HIDE DEF N
<1> DEFINE S == {k \in 0..N : s \in g[k] /\ g[k] \subseteq Hull(s)}
           U == {k \in 0..N : Closed(g[k]) \/ Cardinality(g[k]) > k}
<1>3. 0 \in S /\ \A k \in 0..(N - 1) : k \in S => k + 1 \in S
  <2>1. 0 \in S
    BY <1>1, <1>2, HullClosed
  <2>2. ASSUME NEW k \in 0..(N - 1), k \in S PROVE k + 1 \in S
    <3>1. k + 1 \in 1..N /\ k + 1 \in 0..N /\ k \in 0..N /\ (k + 1) - 1 = k
      BY <1>1
    <3>2. g[k + 1] = Expand(g[k]) /\ g[k] \in SUBSET State
      BY <1>2, <3>1
    <3>3. Expand(g[k]) \subseteq Hull(s)
      BY <2>2, HullClosed DEF Expand, Successors
    <3> QED
      BY <2>2, <3>1, <3>2, <3>3, ExpandType
  <2> QED
    BY <2>1, <2>2
<1>4. 0 \in U /\ \A k \in 0..(N - 1) : k \in U => k + 1 \in U
  <2>1. Cardinality(g[0]) = 1
    BY <1>2, FS_Singleton
  <2>1a. 0 \in U
    BY <1>1, <2>1
  <2>2. ASSUME NEW k \in 0..(N - 1), k \in U PROVE k + 1 \in U
    <3>1. k + 1 \in 1..N /\ k + 1 \in 0..N /\ k \in 0..N /\ (k + 1) - 1 = k
      BY <1>1
    <3>2. g[k + 1] = Expand(g[k]) /\ g[k] \in SUBSET State /\ g[k + 1] \in SUBSET State
      BY <1>2, <3>1
    <3>3. CASE Closed(g[k])
      <4>1. g[k + 1] = g[k]
        BY <3>2, <3>3 DEF Expand, Closed
      <4> QED
        BY <3>1, <3>3, <4>1
    <3>4. CASE ~Closed(g[k])
      <4>1. g[k] \subseteq g[k + 1] /\ g[k] # g[k + 1]
        BY <3>2, <3>4, ExpandType DEF Closed
      <4>2. /\ Cardinality(g[k]) \in Nat /\ Cardinality(g[k + 1]) \in Nat
            /\ IsFiniteSet(g[k + 1])
        BY <3>2, FiniteStates
      <4>3. Cardinality(g[k]) <= Cardinality(g[k + 1]) /\ Cardinality(g[k]) # Cardinality(g[k + 1])
        BY <4>1, <4>2, FS_Subset
      <4> QED
        BY <2>2, <3>1, <3>4, <4>2, <4>3
    <3> QED
      BY <3>3, <3>4
  <2> QED
    BY <2>1a, <2>2
<1> HIDE DEF S, U
<1>5. N \in S /\ N \in U
  <2>1. (\A k \in 0..N : k \in S) /\ N \in 0..N
    BY <1>1, <1>3, UpTo
  <2>2. \A k \in 0..N : k \in U
    BY <1>1, <1>4, UpTo
  <2> QED
    BY <2>1, <2>2
<1>6. Closed(g[N])
  <2>1. Cardinality(g[N]) <= N /\ Cardinality(g[N]) \in Nat
    <3>1. g[N] \in SUBSET State
      BY <1>1, <1>2
    <3> QED
      BY <1>1, <3>1, FS_Subset, FS_CardinalityType DEF N
  <2> QED
    BY <1>1, <1>5, <2>1 DEF U
<1>7. g[N] \subseteq Hull(s) /\ s \in g[N] /\ g[N] \in SUBSET State
  BY <1>1, <1>2, <1>5 DEF S
<1>8. Hull(s) \subseteq g[N]
  BY <1>6, <1>7 DEF Hull
<1> QED
  BY <1>2, <1>7, <1>8

LEMMA ReachableClosed ==
    ASSUME NEW r \in State
    PROVE  /\ r \in Reachable(r)
           /\ Reachable(r) \in SUBSET State
           /\ \A a \in Action, s \in Reachable(r) : Applicable(a, s) => Apply(a, s) \in Reachable(r)
  BY HullClosed, ReachableIsHull

-----------------------------------------------------------------------------
(* Popping takes the head of the queue. *)

LEMMA PopQueue ==
    ASSUME QueueOK, queue \in Seq(State), queue # <<>>
    PROVE  /\ Head(queue) \in State /\ Tail(queue) \in Seq(State)
           /\ Head(queue) \in discovered
           /\ Queued(Head(queue))
           /\ \A i \in DOMAIN Tail(queue) : /\ Tail(queue)[i] \in discovered
                                            /\ Tail(queue)[i] # Head(queue)
           /\ \A i, j \in DOMAIN Tail(queue) : Tail(queue)[i] = Tail(queue)[j] => i = j
           /\ \A s : (\E i \in DOMAIN Tail(queue) : Tail(queue)[i] = s)
                       <=> (Queued(s) /\ s # Head(queue))
<1>1. /\ Head(queue) \in State /\ Tail(queue) \in Seq(State)
      /\ Head(queue) = queue[1] /\ 1 \in DOMAIN queue
      /\ Len(queue) \in Nat \ {0} /\ DOMAIN queue = 1..Len(queue)
      /\ DOMAIN Tail(queue) = 1..(Len(queue) - 1)
      /\ \A i \in 1..(Len(queue) - 1) : Tail(queue)[i] = queue[i + 1]
  BY HeadTailProperties, EmptySeq, LenProperties
<1>2. \A i \in DOMAIN Tail(queue) : i + 1 \in DOMAIN queue /\ i + 1 # 1
  BY <1>1
<1>3. /\ Head(queue) \in discovered
      /\ Queued(Head(queue))
  BY <1>1 DEF QueueOK, Queued
<1>4. \A i \in DOMAIN Tail(queue) : /\ Tail(queue)[i] \in discovered
                                    /\ Tail(queue)[i] # Head(queue)
  BY <1>1, <1>2 DEF QueueOK
<1>5. \A i, j \in DOMAIN Tail(queue) : Tail(queue)[i] = Tail(queue)[j] => i = j
  BY <1>1, <1>2 DEF QueueOK
<1>6. ASSUME NEW s
      PROVE  (\E i \in DOMAIN Tail(queue) : Tail(queue)[i] = s)
                <=> (Queued(s) /\ s # Head(queue))
  <2>1. ASSUME NEW i \in DOMAIN Tail(queue), Tail(queue)[i] = s
        PROVE  Queued(s) /\ s # Head(queue)
    BY <1>1, <1>2, <1>4, <2>1 DEF Queued
  <2>2. ASSUME NEW i \in DOMAIN queue, queue[i] = s, s # Head(queue)
        PROVE  \E j \in DOMAIN Tail(queue) : Tail(queue)[j] = s
    <3>1. i # 1 /\ i - 1 \in 1..(Len(queue) - 1) /\ (i - 1) + 1 = i
      BY <1>1, <2>2
    <3> QED
      BY <1>1, <2>2, <3>1
  <2> QED
    BY <2>1, <2>2 DEF Queued
<1> QED
  BY <1>1, <1>3, <1>4, <1>5, <1>6

-----------------------------------------------------------------------------
(* Initially, and when nothing of the exploration changes. *)

LEMMA InitInv == Init => Inv
<1> SUFFICES ASSUME Init PROVE Inv
  OBVIOUS
<1>1. ExplorationOK
  <2>1. call \in Call /\ initial \in State /\ phase = "called" /\ truncated \in BOOLEAN
    BY DEF Init
  <2>6. next \in Nat \ {0}
    BY DEF Init
  <2>2. discovered \subseteq State /\ goalStates \subseteq State /\ queue \in Seq(State)
    BY DEF Init
  <2>3. edges = [e \in {} |-> {}] /\ DOMAIN edges = {}
    BY DEF Init
  <2>4. DOMAIN edges \subseteq State \X State /\ edges \in [DOMAIN edges -> Edge]
    BY <2>3
  <2>5. expanding \in Option(State)
    BY DEF Init, Option
  <2> QED
    BY <2>1, <2>2, <2>4, <2>5, <2>6, Zenon DEF ExplorationOK
<1>2. QueueOK /\ PhaseOK /\ discovered \subseteq Reachable(initial)
  BY DEF Init, QueueOK, PhaseOK
<1>3. GraphIsConsistent /\ EdgesOK
  BY DEF Init, GraphIsConsistent, Satisfying, EdgesOK
<1>4. CapOK
  BY DEF Init, CapOK
<1> QED
  BY <1>1, <1>2, <1>3, <1>4 DEF Inv

(* Tried and the facts about the graph, when graph, queue and expanding    *)
(* stay as they are.                                                       *)
LEMMA SameGraph ==
    ASSUME Inv,
           UNCHANGED <<call, initial, graph, queue, expanding, next, truncated>>
    PROVE  /\ QueueOK' /\ (discovered \subseteq Reachable(initial))'
           /\ GraphIsConsistent' /\ EdgesOK'
<1>1. QueueOK' /\ (discovered \subseteq Reachable(initial))'
  BY DEF Inv, QueueOK, Queued, graph
<1>2. GraphIsConsistent'
  BY DEF Inv, GraphIsConsistent, Satisfying, graph
<1>3. \A s : Tried(s)' = Tried(s)
  BY DEF Tried, Queued, graph
<1>4. EdgesOK'
  BY <1>3 DEF Inv, EdgesOK, graph, IsBest, Connecting
<1> QED
  BY <1>1, <1>2, <1>4

LEMMA StutterInv == Inv /\ UNCHANGED vars => Inv'
<1> SUFFICES ASSUME Inv, UNCHANGED vars PROVE Inv'
  OBVIOUS
<1>1. QueueOK' /\ (discovered \subseteq Reachable(initial))' /\ GraphIsConsistent' /\ EdgesOK'
  BY SameGraph DEF vars, graph
<1>2. ExplorationOK' /\ PhaseOK' /\ CapOK'
  BY DEF Inv, vars, ExplorationOK, PhaseOK, CapOK
<1> QED
  BY <1>1, <1>2 DEF Inv

LEMMA RespondInv == Inv /\ Respond => Inv'
<1> SUFFICES ASSUME Inv, Respond PROVE Inv'
  OBVIOUS
<1>1. /\ UNCHANGED <<call, initial, graph, queue, expanding, next, truncated>>
      /\ phase' = "answered"
      /\ phase \in {"called", "explored"}
  BY DEF Respond, AnswerAtOnce, AnswerGraph, AnswerTooLarge, AnswerNone, AnswerPlan,
     AnswerGraphError, Returns
<1>2. QueueOK' /\ (discovered \subseteq Reachable(initial))' /\ GraphIsConsistent' /\ EdgesOK'
  BY <1>1, SameGraph
<1>3. ExplorationOK'
  BY <1>1 DEF Inv, ExplorationOK, graph
<1>4. PhaseOK'
  BY <1>1 DEF Inv, PhaseOK, graph
<1>5. CapOK'
  <2>1. CASE phase = "called"
    <3>1. discovered = {} /\ ~truncated
      BY <2>1 DEF Inv, PhaseOK
    <3>2. Cardinality(discovered) = 0 /\ MaxStates \in Nat
      BY <3>1, FS_EmptySet, LibraryAssumption
    <3> QED
      BY <1>1, <3>1, <3>2 DEF CapOK, graph
  <2>2. CASE phase = "explored"
    BY <1>1, <2>2 DEF Inv, CapOK, graph
  <2> QED
    BY <1>1, <2>1, <2>2
<1> QED
  BY <1>2, <1>3, <1>4, <1>5 DEF Inv

LEMMA BeginInv == Inv /\ Begin => Inv'
<1> SUFFICES ASSUME Inv, Begin PROVE Inv'
  OBVIOUS
<1> USE DEF Begin
<1>1. initial \in State /\ DOMAIN edges = {} /\ expanding = {} /\ ~truncated
  BY DEF Inv, ExplorationOK, PhaseOK, GraphIsConsistent
<1>2. /\ queue' \in Seq(State) /\ queue' # <<>>
      /\ DOMAIN queue' = {1} /\ queue'[1] = initial
  BY <1>1
<1>3. ExplorationOK'
  <2>1. goalStates' \subseteq State
    BY <1>1 DEF Satisfying
  <2> QED
    BY <1>1, <1>2, <2>1 DEF Inv, ExplorationOK
<1>4. QueueOK'
  BY <1>1, <1>2 DEF QueueOK, Queued
<1>5. PhaseOK'
  BY <1>1, <1>2 DEF PhaseOK
<1>6. (discovered \subseteq Reachable(initial))'
  BY <1>1, ReachableClosed
<1>7. GraphIsConsistent'
  BY <1>1 DEF GraphIsConsistent, Satisfying
<1>8. EdgesOK'
  <2>1. Tried(initial)' = {}
    BY <1>1, <1>2 DEF Tried, Queued
  <2> QED
    BY <1>1, <2>1 DEF EdgesOK
<1>9. CapOK'
  BY <1>1, <1>2 DEF CapOK
<1> QED
  BY <1>3, <1>4, <1>5, <1>6, <1>7, <1>8, <1>9 DEF Inv

LEMMA TruncateInv == Inv /\ Truncate => Inv'
<1> SUFFICES ASSUME Inv, Truncate PROVE Inv'
  OBVIOUS
<1> USE DEF Truncate, Popping, graph
<1>1. /\ Tail(queue) \in Seq(State)
      /\ \A i \in DOMAIN Tail(queue) : Tail(queue)[i] \in discovered
      /\ \A i, j \in DOMAIN Tail(queue) : Tail(queue)[i] = Tail(queue)[j] => i = j
  BY PopQueue DEF Inv, ExplorationOK
<1>2. ExplorationOK'
  BY <1>1 DEF Inv, ExplorationOK
<1>3. QueueOK'
  BY <1>1 DEF QueueOK
<1>4. PhaseOK'
  BY DEF Inv, PhaseOK
<1>5. (discovered \subseteq Reachable(initial))' /\ GraphIsConsistent'
  BY DEF Inv, GraphIsConsistent, Satisfying
<1>6. EdgesOK'
  BY DEF EdgesOK
<1>7. CapOK'
  BY DEF CapOK
<1> QED
  BY <1>2, <1>3, <1>4, <1>5, <1>6, <1>7 DEF Inv

LEMMA PopInv == Inv /\ Pop => Inv'
<1> SUFFICES ASSUME Inv, Pop PROVE Inv'
  OBVIOUS
<1> USE DEF Pop, Popping, graph
<1> DEFINE s0 == Head(queue)
<1>1. /\ s0 \in State /\ Tail(queue) \in Seq(State)
      /\ s0 \in discovered /\ Queued(s0)
      /\ \A i \in DOMAIN Tail(queue) : /\ Tail(queue)[i] \in discovered
                                       /\ Tail(queue)[i] # s0
      /\ \A i, j \in DOMAIN Tail(queue) : Tail(queue)[i] = Tail(queue)[j] => i = j
      /\ \A s : (\E i \in DOMAIN Tail(queue) : Tail(queue)[i] = s)
                   <=> (Queued(s) /\ s # s0)
  BY PopQueue DEF Inv, ExplorationOK
<1> HIDE DEF s0
<1>2. expanding' = {s0} /\ queue' = Tail(queue) /\ next' = 1
  BY DEF s0
<1>3. ExplorationOK'
  BY <1>1, <1>2 DEF Inv, ExplorationOK, Option
<1>4. QueueOK'
  BY <1>1, <1>2 DEF QueueOK, Queued
<1>5. PhaseOK'
  BY DEF Inv, PhaseOK
<1>6. (discovered \subseteq Reachable(initial))' /\ GraphIsConsistent'
  BY DEF Inv, GraphIsConsistent, Satisfying
<1>7. \A s : Tried(s)' = Tried(s)
  <2> TAKE s
  <2>1. CASE s = s0
    <3>1. Tried(s) = {}
      BY <1>1, <2>1 DEF Tried
    <3>2. Tried(s)' = 1..0
      BY <1>2, <2>1 DEF Tried
    <3> QED
      BY <3>1, <3>2
  <2>2. CASE s # s0
    <3>1. Queued(s)' = Queued(s)
      BY <1>1, <1>2, <2>2 DEF Queued
    <3> QED
      BY <1>2, <2>2, <3>1 DEF Tried
  <2> QED
    BY <2>1, <2>2
<1>8. EdgesOK'
  BY <1>7 DEF Inv, EdgesOK, IsBest, Connecting
<1>9. CapOK'
  <2>1. Cardinality(discovered) \in Nat /\ MaxStates \in Nat
    BY FiniteStates, LibraryAssumption DEF Inv, ExplorationOK
  <2> QED
    BY <2>1 DEF CapOK
<1> QED
  BY <1>3, <1>4, <1>5, <1>6, <1>8, <1>9 DEF Inv

LEMMA ExhaustedInv == Inv /\ Exhausted => Inv'
<1> SUFFICES ASSUME Inv, Exhausted PROVE Inv'
  OBVIOUS
<1> USE DEF Exhausted
<1>1. QueueOK' /\ (discovered \subseteq Reachable(initial))' /\ GraphIsConsistent' /\ EdgesOK'
  BY SameGraph
<1>2. ExplorationOK' /\ PhaseOK'
  BY DEF Inv, ExplorationOK, PhaseOK, graph
<1>3. CapOK'
  BY DEF Inv, CapOK, PhaseOK, graph
<1> QED
  BY <1>1, <1>2, <1>3 DEF Inv

LEMMA ExpandedInv == Inv /\ Expanded => Inv'
<1> SUFFICES ASSUME Inv, Expanded PROVE Inv'
  OBVIOUS
<1> USE DEF Expanded, graph
<1>1. PICK s \in State : expanding = {s} /\ s \in discovered /\ ~Queued(s)
  BY DEF Inv, ExplorationOK, QueueOK, Option
<1>2. /\ Len(Actions) \in Nat /\ DOMAIN Actions = 1..Len(Actions) /\ next \in Nat
      /\ next > Len(Actions)
  BY ActionsAssumption, LenProperties DEF Inv, ExplorationOK
<1>3. phase = "exploring"
  BY <1>1 DEF Inv, PhaseOK
<1>4. ExplorationOK' /\ PhaseOK' /\ CapOK'
  BY <1>3 DEF Inv, ExplorationOK, PhaseOK, CapOK, Option
<1>5. QueueOK' /\ (discovered \subseteq Reachable(initial))' /\ GraphIsConsistent'
  BY DEF Inv, QueueOK, Queued, GraphIsConsistent, Satisfying
<1>6. \A x : Tried(x)' = IF x = s THEN DOMAIN Actions ELSE Tried(x)
  BY <1>1 DEF Tried, Queued
<1>7. Tried(s) = 1..(next - 1)
  BY <1>1 DEF Tried
<1>8. EdgesOK'
  <2>1. ~truncated
    BY <1>3 DEF Inv, PhaseOK
  <2>2. DOMAIN Actions \subseteq Tried(s)
    BY <1>2, <1>7
  <2>3. \A x, y : Connecting(x, y) \subseteq DOMAIN Actions
    BY DEF Connecting
  <2>4. \A x, y : Tried(x)' \cap Connecting(x, y) = Tried(x) \cap Connecting(x, y)
    BY <1>6, <2>2, <2>3
  <2>5. ASSUME NEW x \in discovered, NEW i \in Tried(x)', Applicable(Actions[i], x)
        PROVE  <<x, Apply(Actions[i], x)>> \in DOMAIN edges
    BY <1>6, <2>1, <2>2, <2>5 DEF Inv, EdgesOK
  <2>6. ASSUME NEW e \in DOMAIN edges
        PROVE  \E i \in Tried(e[1])' \cap Connecting(e[1], e[2]) :
                 /\ IsBest(i, Tried(e[1])' \cap Connecting(e[1], e[2]))
                 /\ edges[e] = [cost |-> CostAt(i), name |-> Actions[i]]
    BY <2>1, <2>4 DEF Inv, EdgesOK
  <2> QED
    BY <2>5, <2>6 DEF EdgesOK, Connecting, IsBest
<1> QED
  BY <1>4, <1>5, <1>8 DEF Inv

(* What a step that tries an action starts from. *)
LEMMA TryingFacts ==
    ASSUME Inv, NEW s \in expanding, NEW a \in Action, Trying(s, a)
    PROVE  /\ s \in State /\ s \in discovered /\ ~Queued(s) /\ expanding = {s}
           /\ next \in DOMAIN Actions /\ next \in Nat \ {0} /\ a = Actions[next]
           /\ phase = "exploring" /\ ~truncated
           /\ Tried(s) = 1..(next - 1)
<1>1. s \in State /\ s \in discovered /\ ~Queued(s) /\ expanding = {s}
  BY DEF Inv, ExplorationOK, QueueOK, Option, Trying
<1>2. next \in DOMAIN Actions /\ next \in Nat \ {0} /\ a = Actions[next]
  BY ActionsAssumption, LenProperties DEF Inv, ExplorationOK, Trying
<1>3. phase = "exploring" /\ ~truncated
  BY DEF Inv, PhaseOK
<1>4. Tried(s) = 1..(next - 1)
  BY DEF Tried
<1> QED
  BY <1>1, <1>2, <1>3, <1>4

LEMMA SkipInv == Inv /\ Skip => Inv'
<1> SUFFICES ASSUME Inv, Skip PROVE Inv'
  OBVIOUS
<1> USE DEF Skip, graph
<1>1. PICK s \in expanding, a \in Action : Trying(s, a) /\ ~Applicable(a, s)
  OBVIOUS
<1>2. /\ s \in State /\ s \in discovered /\ ~Queued(s) /\ expanding = {s}
      /\ next \in DOMAIN Actions /\ next \in Nat \ {0} /\ a = Actions[next]
      /\ phase = "exploring" /\ ~truncated
      /\ Tried(s) = 1..(next - 1)
  BY <1>1, TryingFacts
<1>3. ExplorationOK' /\ PhaseOK' /\ CapOK'
  BY <1>2 DEF Inv, ExplorationOK, PhaseOK, CapOK
<1>4. QueueOK' /\ (discovered \subseteq Reachable(initial))' /\ GraphIsConsistent'
  BY DEF Inv, QueueOK, Queued, GraphIsConsistent, Satisfying
<1>5. next' = next + 1 /\ 1..(next' - 1) = (1..(next - 1)) \cup {next}
  BY <1>2
<1>6. \A x : Tried(x)' = IF x = s THEN Tried(s) \cup {next} ELSE Tried(x)
  BY <1>2, <1>5 DEF Tried, Queued
<1>7. EdgesOK'
  <2>1. \A y : next \notin Connecting(s, y)
    BY <1>1, <1>2 DEF Connecting
  <2>2. \A x, y : Tried(x)' \cap Connecting(x, y) = Tried(x) \cap Connecting(x, y)
    BY <1>6, <2>1
  <2>3. ASSUME NEW x \in discovered, NEW i \in Tried(x)', Applicable(Actions[i], x)
        PROVE  <<x, Apply(Actions[i], x)>> \in DOMAIN edges
    BY <1>1, <1>2, <1>6, <2>3 DEF Inv, EdgesOK
  <2>4. ASSUME NEW e \in DOMAIN edges
        PROVE  \E i \in Tried(e[1])' \cap Connecting(e[1], e[2]) :
                 /\ IsBest(i, Tried(e[1])' \cap Connecting(e[1], e[2]))
                 /\ edges[e] = [cost |-> CostAt(i), name |-> Actions[i]]
    <3>1. \E i \in Tried(e[1]) \cap Connecting(e[1], e[2]) :
             /\ IsBest(i, Tried(e[1]) \cap Connecting(e[1], e[2]))
             /\ edges[e] = [cost |-> CostAt(i), name |-> Actions[i]]
      BY <1>2 DEF Inv, EdgesOK
    <3>2. Tried(e[1])' \cap Connecting(e[1], e[2]) = Tried(e[1]) \cap Connecting(e[1], e[2])
      BY <2>2
    <3> QED
      BY <3>1, <3>2
  <2> QED
    BY <2>3, <2>4 DEF EdgesOK, Connecting, IsBest
<1> QED
  BY <1>3, <1>4, <1>7 DEF Inv

(* A position tried later either leaves the best one in place, or it is    *)
(* cheaper and takes its place; and there is never more than one.          *)
LEMMA KeptStaysBest ==
    ASSUME NEW I, NEW i \in I, NEW n \in Nat, IsBest(i, I),
           \A j \in I : j \in Nat /\ j < n,
           ~Cheaper(CostAt(n), CostAt(i))
    PROVE  IsBest(i, I \cup {n})
  BY DEF IsBest

LEMMA CheaperIsBest ==
    ASSUME NEW I, NEW i \in I, NEW n \in Nat, IsBest(i, I),
           \A j \in I : j \in Nat /\ j < n /\ CostAt(j) \in Cost,
           CostAt(n) \in Cost, Cheaper(CostAt(n), CostAt(i))
    PROVE  IsBest(n, I \cup {n})
<1>1. CostAt(n) # NaN /\ CostAt(i) # NaN /\ ~Cheaper(CostAt(n), CostAt(n))
  BY DEF Cheaper, Cost
<1>2. ASSUME NEW j \in I PROVE ~Cheaper(CostAt(j), CostAt(n))
  BY <1>2 DEF Cheaper, Cost, IsBest
<1>3. ASSUME NEW j \in I
      PROVE  Cheaper(CostAt(n), CostAt(j)) \/ (CostAt(j) = NaN /\ \E k \in I : k < j)
  <2>1. CASE CostAt(j) = NaN
    <3>1. j # i
      BY <1>1, <2>1
    <3>2. j < i => \E k \in I : k < j
      BY <2>1 DEF IsBest, Cheaper
    <3> QED
      BY <2>1, <3>1, <3>2
  <2>2. CASE CostAt(j) # NaN
    <3>1. ~Cheaper(CostAt(j), CostAt(i))
      BY DEF IsBest
    <3> QED
      BY <1>1, <2>2, <3>1 DEF Cheaper, Cost
  <2> QED
    BY <2>1, <2>2
<1> QED
  BY <1>1, <1>2, <1>3 DEF IsBest

LEMMA OnlyIsBest ==
    ASSUME NEW n \in Nat, CostAt(n) \in Cost
    PROVE  IsBest(n, {n})
  BY DEF IsBest, Cheaper, Cost

LEMMA BestIsOne ==
    ASSUME NEW I \in SUBSET Nat, NEW i \in I, NEW j \in I, IsBest(i, I), IsBest(j, I)
    PROVE  i = j
<1>1. ASSUME NEW x \in I, NEW y \in I, IsBest(x, I), IsBest(y, I), x < y PROVE FALSE
  <2>1. CostAt(x) = NaN /\ CostAt(y) # NaN /\ \E k \in I : k < x
    BY <1>1 DEF IsBest
  <2>2. PICK k \in I : k < x
    BY <2>1
  <2> QED
    BY <1>1, <2>1, <2>2 DEF IsBest, Cheaper
<1> QED
  BY <1>1

LEMMA FollowInv == Inv /\ Follow => Inv'
<1> SUFFICES ASSUME Inv, Follow PROVE Inv'
  OBVIOUS
<1>1. PICK s \in expanding, a \in Action :
         /\ Trying(s, a) /\ Applicable(a, s)
         /\ Discover(Apply(a, s)) /\ RecordEdge(s, Apply(a, s), a)
  BY DEF Follow
<1> DEFINE t == Apply(a, s)
           known == t \in discovered
<1>2. /\ s \in State /\ s \in discovered /\ ~Queued(s) /\ expanding = {s}
      /\ next \in DOMAIN Actions /\ next \in Nat \ {0} /\ a = Actions[next]
      /\ phase = "exploring" /\ ~truncated
      /\ Tried(s) = 1..(next - 1)
  BY <1>1, TryingFacts
<1>3. t \in State /\ Library[a].cost \in Cost /\ Applicable(a, s)
  BY <1>1, <1>2, ApplyType
<1>4. /\ queue' = IF known THEN queue ELSE Append(queue, t)
      /\ discovered' = discovered \cup {t}
      /\ goalStates' = goalStates \cup Satisfying({t})
      /\ edges' = [e \in DOMAIN edges \cup {<<s, t>>} |->
                     IF e # <<s, t>> THEN edges[e]
                     ELSE IF e \in DOMAIN edges /\ ~Cheaper(Library[a].cost, edges[e].cost)
                          THEN edges[e]
                          ELSE [cost |-> Library[a].cost, name |-> a]]
  BY <1>1 DEF Discover, RecordEdge
<1>5. /\ next' = next + 1
      /\ UNCHANGED <<call, initial, phase, expanding, truncated, answer>>
  BY DEF Follow
<1>6. a = Actions[next] /\ t = Apply(Actions[next], s) /\ Applicable(Actions[next], s)
  BY <1>2, <1>3
<1> HIDE DEF t, known
<1>7. /\ queue' \in Seq(State)
      /\ \A x : Queued(x)' <=> Queued(x) \/ (~known /\ x = t)
      /\ \A i, j \in DOMAIN queue' : queue'[i] = queue'[j] => i = j
      /\ queue' # <<>> \/ known
  <2>0. queue \in Seq(State) /\ QueueOK
    BY DEF Inv, ExplorationOK
  <2>1. CASE known
    BY <1>4, <2>0, <2>1 DEF QueueOK, Queued
  <2>2. CASE ~known
    <3>1. queue' = Append(queue, t)
      BY <1>4, <2>2
    <3>2. /\ Len(queue) \in Nat /\ DOMAIN queue = 1..Len(queue)
          /\ queue' \in Seq(State) /\ queue' # <<>>
          /\ DOMAIN queue' = 1..(Len(queue) + 1)
          /\ \A i \in 1..Len(queue) : queue'[i] = queue[i]
          /\ queue'[Len(queue) + 1] = t
      BY <1>3, <2>0, <3>1, AppendProperties, LenProperties
    <3>3. \A i \in DOMAIN queue : queue[i] # t
      BY <2>0, <2>2 DEF QueueOK, known
    <3>4. \A i \in DOMAIN queue' : i \in DOMAIN queue \/ i = Len(queue) + 1
      BY <3>2
    <3>5. \A i, j \in DOMAIN queue' : queue'[i] = queue'[j] => i = j
      BY <2>0, <3>2, <3>3, <3>4 DEF QueueOK
    <3>6. \A x : Queued(x)' <=> Queued(x) \/ x = t
      <4> TAKE x
      <4>1. Queued(x) => Queued(x)'
        BY <3>2 DEF Queued
      <4>2. x = t => Queued(x)'
        BY <3>2 DEF Queued
      <4>3. Queued(x)' => Queued(x) \/ x = t
        BY <3>2, <3>4 DEF Queued
      <4> QED
        BY <4>1, <4>2, <4>3
    <3> QED
      BY <2>2, <3>2, <3>5, <3>6
  <2> QED
    BY <2>1, <2>2
<1>8. QueueOK'
  <2>1. \A i \in DOMAIN queue' : queue'[i] \in discovered'
    <3>1. ASSUME NEW i \in DOMAIN queue', NEW x, queue'[i] = x
          PROVE  x \in discovered'
      <4>1. Queued(x)'
        BY <3>1 DEF Queued
      <4>2. Queued(x) \/ x = t
        BY <1>7, <4>1
      <4>3. Queued(x) => x \in discovered
        BY DEF Inv, QueueOK, Queued
      <4> QED
        BY <1>4, <4>2, <4>3
    <3> QED
      BY <3>1
  <2>2. s \in discovered' /\ ~Queued(s)'
    BY <1>2, <1>4, <1>7 DEF known
  <2>3. \A x \in expanding' : x = s
    BY <1>2, <1>5
  <2> QED
    BY <1>7, <2>1, <2>2, <2>3 DEF QueueOK
<1>9. DOMAIN edges' = DOMAIN edges \cup {<<s, t>>}
  BY <1>4
<1>10. ExplorationOK'
  <2>1. \A e \in DOMAIN edges : edges[e] \in Edge
    BY DEF Inv, ExplorationOK
  <2>2. [cost |-> Library[a].cost, name |-> a] \in Edge
    BY <1>3 DEF Edge
  <2>3. edges' \in [DOMAIN edges' -> Edge]
    BY <1>4, <2>1, <2>2
  <2>4. DOMAIN edges' \subseteq State \X State
    BY <1>2, <1>3, <1>9 DEF Inv, ExplorationOK
  <2>5. discovered' \subseteq State /\ goalStates' \subseteq State
    BY <1>3, <1>4 DEF Inv, ExplorationOK, Satisfying
  <2>6. next' \in Nat \ {0}
    BY <1>2, <1>5
  <2> QED
    BY <1>5, <1>7, <2>3, <2>4, <2>5, <2>6 DEF Inv, ExplorationOK
<1>11. PhaseOK'
  BY <1>2, <1>4, <1>5 DEF Inv, PhaseOK
<1>12. (discovered \subseteq Reachable(initial))'
  <2>1. initial \in State /\ discovered \subseteq Reachable(initial)
    BY DEF Inv, ExplorationOK
  <2>2. t \in Reachable(initial)
    BY <1>2, <1>3, <2>1, ReachableClosed DEF t
  <2> QED
    BY <1>4, <1>5, <2>1, <2>2
<1>13. GraphIsConsistent'
  <2>1. \A e \in DOMAIN edges' : e[1] \in discovered' /\ e[2] \in discovered'
    BY <1>2, <1>4, <1>9 DEF Inv, GraphIsConsistent
  <2>2. goalStates' = Satisfying(discovered)'
    BY <1>4, <1>5 DEF Inv, GraphIsConsistent, Satisfying
  <2> QED
    BY <2>1, <2>2 DEF GraphIsConsistent
<1>14. next' = next + 1 /\ 1..(next' - 1) = (1..(next - 1)) \cup {next}
  BY <1>2, <1>5
<1>15. \A x : Tried(x)' = IF x = s THEN Tried(s) \cup {next} ELSE Tried(x)
  <2> TAKE x
  <2>1. CASE x = s
    BY <1>2, <1>5, <1>14, <2>1 DEF Tried
  <2>2. CASE x # s
    <3>1. x \notin expanding /\ x \notin expanding'
      BY <1>2, <1>5, <2>2
    <3>2. x \in discovered' /\ ~Queued(x)' <=> x \in discovered /\ ~Queued(x)
      BY <1>4, <1>7 DEF known
    <3> QED
      BY <2>2, <3>1, <3>2 DEF Tried
  <2> QED
    BY <2>1, <2>2
<1>16. \A x \in discovered' : \A i \in Tried(x)' :
          Applicable(Actions[i], x) => <<x, Apply(Actions[i], x)>> \in DOMAIN edges'
  <2> SUFFICES ASSUME NEW x \in discovered', NEW i \in Tried(x)', Applicable(Actions[i], x)
               PROVE  <<x, Apply(Actions[i], x)>> \in DOMAIN edges'
    OBVIOUS
  <2>1. CASE x = s /\ i = next
    BY <1>6, <1>9, <2>1
  <2>2. CASE ~(x = s /\ i = next)
    <3>1. i \in Tried(x)
      BY <1>15, <2>2
    <3>2. x \in discovered
      BY <1>2, <3>1 DEF Tried
    <3> QED
      BY <1>2, <1>9, <3>1, <3>2 DEF Inv, EdgesOK
  <2> QED
    BY <2>1, <2>2
<1>17. ASSUME NEW e \in DOMAIN edges'
       PROVE  \E i \in Tried(e[1])' \cap Connecting(e[1], e[2]) :
                 /\ IsBest(i, Tried(e[1])' \cap Connecting(e[1], e[2]))
                 /\ edges'[e] = [cost |-> CostAt(i), name |-> Actions[i]]
  <2> DEFINE tried == Tried(e[1]) \cap Connecting(e[1], e[2])
  <2>1. CASE e # <<s, t>>
    <3>1. e \in DOMAIN edges /\ edges'[e] = edges[e]
      BY <1>4, <1>9, <2>1
    <3>2. e = <<e[1], e[2]>>
      BY <3>1 DEF Inv, ExplorationOK
    <3>3. e[1] = s => next \notin Connecting(e[1], e[2])
      BY <1>6, <2>1, <3>2 DEF Connecting
    <3>4. Tried(e[1])' \cap Connecting(e[1], e[2]) = tried
      BY <1>15, <3>3
    <3> QED
      BY <1>2, <3>1, <3>4 DEF Inv, EdgesOK
  <2>2. CASE e = <<s, t>>
    <3>1. e[1] = s /\ e[2] = t /\ next \in Connecting(s, t)
      BY <1>2, <1>6, <2>2 DEF Connecting
    <3>2. Tried(e[1])' \cap Connecting(e[1], e[2]) = tried \cup {next}
      BY <1>15, <3>1
    <3>3. \A j \in tried : j \in Nat /\ j < next /\ CostAt(j) \in Cost
      <4> TAKE j \in tried
      <4>1. j \in DOMAIN Actions /\ j \in 1..(next - 1)
        BY <1>2, <3>1 DEF Connecting
      <4>2. Actions[j] \in Action
        BY <4>1, ActionsAssumption, ElementOfSeq, LenProperties
      <4>3. CostAt(j) \in Cost
        BY <1>2, <4>2, ApplyType DEF CostAt
      <4> QED
        BY <1>2, <4>1, <4>3
    <3>4. CostAt(next) = Library[a].cost /\ CostAt(next) \in Cost
      BY <1>2, <1>3 DEF CostAt
    <3>5. CASE e \in DOMAIN edges
      <4>1. PICK i \in tried : IsBest(i, tried)
                               /\ edges[e] = [cost |-> CostAt(i), name |-> Actions[i]]
        BY <1>2, <3>5 DEF Inv, EdgesOK
      <4>2. CASE ~Cheaper(CostAt(next), CostAt(i))
        <5>1. edges'[e] = [cost |-> CostAt(i), name |-> Actions[i]]
          BY <1>4, <2>2, <3>4, <3>5, <4>1, <4>2
        <5>2. IsBest(i, tried \cup {next})
          BY <1>2, <3>3, <3>4, <4>1, <4>2, KeptStaysBest
        <5> QED
          BY <3>2, <4>1, <5>1, <5>2
      <4>3. CASE Cheaper(CostAt(next), CostAt(i))
        <5>1. edges'[e] = [cost |-> CostAt(next), name |-> Actions[next]]
          BY <1>2, <1>4, <2>2, <3>4, <3>5, <4>1, <4>3
        <5>2. IsBest(next, tried \cup {next})
          BY <1>2, <3>3, <3>4, <4>1, <4>3, CheaperIsBest
        <5> QED
          BY <3>2, <5>1, <5>2
      <4> QED
        BY <4>2, <4>3
    <3>6. CASE e \notin DOMAIN edges
      <4>1. tried = {}
        BY <1>2, <2>2, <3>1, <3>6 DEF Inv, EdgesOK, Connecting
      <4>2. edges'[e] = [cost |-> CostAt(next), name |-> Actions[next]]
        BY <1>2, <1>4, <2>2, <3>4, <3>6
      <4>3. IsBest(next, {next})
        BY <1>2, <3>4, OnlyIsBest
      <4> QED
        BY <3>2, <4>1, <4>2, <4>3
    <3> QED
      BY <3>5, <3>6
  <2> QED
    BY <2>1, <2>2
<1>18. EdgesOK'
  BY <1>16, <1>17 DEF EdgesOK, Connecting, IsBest, CostAt
<1>19. CapOK'
  <2>1. known => discovered' = discovered /\ queue' = queue
    BY <1>4 DEF known
  <2> QED
    BY <1>2, <1>5, <1>7, <2>1 DEF Inv, CapOK
<1> QED
  BY <1>8, <1>10, <1>11, <1>12, <1>13, <1>18, <1>19 DEF Inv


-----------------------------------------------------------------------------
(* What the invariant says of an exploration that is over. *)

LEMMA ClosedWhenExplored ==
    ASSUME Inv, Explored, ~truncated
    PROVE  /\ \A s \in discovered : Tried(s) = DOMAIN Actions
           /\ discovered = Reachable(initial)
<1>1. expanding = {} /\ queue = <<>> /\ initial \in discovered
  BY DEF Inv, PhaseOK, Explored
<1>2. \A s \in discovered : Tried(s) = DOMAIN Actions
  BY <1>1 DEF Tried, Queued
<1>3. discovered \in SUBSET State /\ discovered \subseteq Reachable(initial)
  BY DEF Inv, ExplorationOK
<1>4. ASSUME NEW s \in discovered, NEW t \in Successors(s)
      PROVE  t \in discovered
  <2>1. PICK a \in Action : Applicable(a, s) /\ t = Apply(a, s)
    BY DEF Successors
  <2>2. PICK i \in DOMAIN Actions : Actions[i] = a
    BY ActionsAssumption
  <2>3. <<s, t>> \in DOMAIN edges
    BY <1>2, <2>1, <2>2 DEF Inv, EdgesOK
  <2> QED
    BY <2>3 DEF Inv, GraphIsConsistent
<1>5. Closed(discovered)
  BY <1>4 DEF Closed
<1>6. Reachable(initial) \subseteq discovered
  <2>1. initial \in State /\ Hull(initial) \subseteq discovered
    BY <1>1, <1>3, <1>5 DEF Hull, Inv, ExplorationOK
  <2> QED
    BY <2>1, ReachableIsHull
<1> QED
  BY <1>2, <1>3, <1>6

LEMMA InvExact == Inv => ExplorationIsExact
<1> SUFFICES ASSUME Inv, Explored, ~truncated
             PROVE  /\ discovered = Reachable(initial)
                    /\ DOMAIN edges = {e \in discovered \X discovered : Connecting(e[1], e[2]) # {}}
                    /\ \A e \in DOMAIN edges : \E i \in Connecting(e[1], e[2]) :
                          /\ IsBest(i, Connecting(e[1], e[2]))
                          /\ edges[e] = [cost |-> CostAt(i), name |-> Actions[i]]
  BY DEF ExplorationIsExact
<1>1. discovered = Reachable(initial) /\ \A s \in discovered : Tried(s) = DOMAIN Actions
  BY ClosedWhenExplored
<1>2. ASSUME NEW e \in DOMAIN edges
      PROVE  /\ e \in discovered \X discovered
             /\ \E i \in Connecting(e[1], e[2]) :
                   /\ IsBest(i, Connecting(e[1], e[2]))
                   /\ edges[e] = [cost |-> CostAt(i), name |-> Actions[i]]
  <2>1. e \in State \X State /\ e[1] \in discovered /\ e[2] \in discovered
    BY DEF Inv, ExplorationOK, GraphIsConsistent
  <2>2. Tried(e[1]) \cap Connecting(e[1], e[2]) = Connecting(e[1], e[2])
    BY <1>1, <2>1 DEF Connecting
  <2>3. \E i \in Tried(e[1]) \cap Connecting(e[1], e[2]) :
           /\ IsBest(i, Tried(e[1]) \cap Connecting(e[1], e[2]))
           /\ edges[e] = [cost |-> CostAt(i), name |-> Actions[i]]
    BY DEF Inv, EdgesOK
  <2> QED
    BY <2>1, <2>2, <2>3
<1>3. ASSUME NEW s \in discovered, NEW t \in discovered, NEW i \in Connecting(s, t)
      PROVE  <<s, t>> \in DOMAIN edges
  BY <1>1 DEF Inv, EdgesOK, Connecting
<1>4. DOMAIN edges = {e \in discovered \X discovered : Connecting(e[1], e[2]) # {}}
  <2>1. ASSUME NEW e \in discovered \X discovered, Connecting(e[1], e[2]) # {}
        PROVE  e \in DOMAIN edges
    <3>1. e = <<e[1], e[2]>> /\ e[1] \in discovered /\ e[2] \in discovered
      OBVIOUS
    <3> QED
      BY <1>3, <2>1, <3>1
  <2>2. \A e \in DOMAIN edges : e \in discovered \X discovered /\ Connecting(e[1], e[2]) # {}
    BY <1>2
  <2> QED
    BY <2>1, <2>2
<1> QED
  BY <1>1, <1>2, <1>4

LEMMA InvCap == Inv => CapIsExact
<1> SUFFICES ASSUME Inv, Explored
             PROVE  truncated <=> Cardinality(Reachable(initial)) > MaxStates
  BY DEF CapIsExact
<1>1. /\ initial \in State /\ discovered \in SUBSET State
      /\ discovered \subseteq Reachable(initial) /\ truncated \in BOOLEAN
  BY DEF Inv, ExplorationOK
<1>2. truncated <=> Cardinality(discovered) > MaxStates
  BY DEF Inv, CapOK, Explored
<1>3. /\ IsFiniteSet(Reachable(initial))
      /\ Cardinality(Reachable(initial)) \in Nat /\ Cardinality(discovered) \in Nat
  BY <1>1, ReachableClosed, FiniteStates
<1>4. CASE truncated
  <2>1. Cardinality(discovered) <= Cardinality(Reachable(initial))
    BY <1>1, <1>3, FS_Subset
  <2> QED
    BY <1>2, <1>3, <1>4, <2>1, LibraryAssumption
<1>5. CASE ~truncated
  BY <1>2, <1>5, ClosedWhenExplored
<1> QED
  BY <1>4, <1>5

-----------------------------------------------------------------------------
LEMMA StepInv == Inv /\ [Next]_vars => Inv'
BY BeginInv, TruncateInv, PopInv, SkipInv, FollowInv, ExpandedInv, ExhaustedInv,
   RespondInv, StutterInv DEF Next, Explore, Done

(* The queue, the tried actions and the graph agree at every step of the   *)
(* exploration (bfs_raw).                                                  *)
THEOREM Invariance == Spec => []Inv
<1> QED
  BY InitInv, StepInv, PTL DEF Spec

(* The graph is consistent at every step, so the lookups of materialise    *)
(* find what they look up, in truncated explorations too.                  *)
THEOREM GraphConsistent == Spec => []GraphIsConsistent
<1>1. Inv => GraphIsConsistent
  BY DEF Inv
<1> QED
  BY <1>1, Invariance, PTL

(* An exploration that is not cut short returns all reachable states and   *)
(* between any two of them the best action (bfs_raw, edge_map).            *)
THEOREM ExplorationExact == Spec => []ExplorationIsExact
<1> QED
  BY InvExact, Invariance, PTL

(* An exploration is cut short exactly if more states are reachable than   *)
(* the cap allows (bfs_raw, the test at the head of its loop).             *)
THEOREM CapExact == Spec => []CapIsExact
<1> QED
  BY InvCap, Invariance, PTL

-----------------------------------------------------------------------------
(***************************************************************************)
(* The commands.                                                           *)
(***************************************************************************)

-----------------------------------------------------------------------------
(* The answer of a call.                                                   *)

(* What an answer says of the exploration it comes from. *)
AnswerInv ==
    /\ phase = "explored" => discovered # {}
    /\ call # "plan" /\ phase = "answered" => discovered # {}
    /\ answer # {} => phase = "answered"
    /\ call = "plan" => \A a \in answer :
          /\ a.kind \in {"plan", "none", "error"}
          /\ a.kind = "plan" => SatisfiedBy(initial) \/ goalStates # {}
          /\ a.kind = "none" => discovered # {} /\ ~truncated /\ goalStates = {}
          /\ a.kind = "error" =>
                /\ discovered # {}
                /\ truncated <=> a.error = "StateSpaceLimitExceeded"

SearchInv == Inv /\ AnswerInv

LEMMA SearchInit == Init => SearchInv
<1>1. Init => AnswerInv
  BY DEF Init, AnswerInv
<1> QED
  BY <1>1, InitInv DEF SearchInv

LEMMA SearchStep == SearchInv /\ [Next]_vars => SearchInv'
<1> SUFFICES ASSUME SearchInv, [Next]_vars PROVE AnswerInv'
  BY StepInv DEF SearchInv
<1> USE DEF SearchInv, AnswerInv
<1>1. CASE Begin \/ Truncate \/ Pop \/ Skip \/ Follow \/ Expanded \/ Exhausted
  <2>1. phase # "answered" /\ phase' # "answered" /\ answer' = answer
    BY <1>1 DEF Begin, Truncate, Pop, Popping, Skip, Follow, Expanded, Exhausted, Inv, PhaseOK,
       Trying
  <2>2. phase' = "explored" => discovered' # {}
    BY <1>1 DEF Begin, Truncate, Pop, Popping, Skip, Follow, Expanded, Exhausted, Inv, PhaseOK,
       Trying, graph
  <2> QED
    BY <2>1, <2>2
<1>2. CASE AnswerAtOnce
  BY <1>2 DEF AnswerAtOnce, Returns
<1>3. CASE AnswerGraph
  BY <1>3 DEF AnswerGraph, Returns, graph
<1>4. CASE AnswerTooLarge
  BY <1>4 DEF AnswerTooLarge, Returns, graph
<1>5. CASE AnswerNone
  BY <1>5 DEF AnswerNone, Returns, graph
<1>6. CASE AnswerPlan
  <2>1. PICK r \in CheapestRoutes :
           Returns([kind  |-> "plan",
                    steps |-> [i \in 1..(Len(r) - 1) |-> edges[<<r[i], r[i + 1]>>].name],
                    cost  |-> RouteCost(r)])
    BY <1>6 DEF AnswerPlan
  <2>2. goalStates # {}
    BY <2>1 DEF CheapestRoutes, GoalRoutes
  <2>3. PICK steps, cost : Returns([kind |-> "plan", steps |-> steps, cost |-> cost])
    BY <2>1
  <2>4. answer' = {[kind |-> "plan", steps |-> steps, cost |-> cost]}
    BY <2>3 DEF Returns
  <2>5. \A a \in answer' : a.kind = "plan"
    BY <2>4
  <2>6. phase' = "answered" /\ UNCHANGED <<call, goalStates>> /\ call = "plan"
    BY <1>6, <2>3 DEF Returns, graph, AnswerPlan
  <2> QED
    BY <2>2, <2>5, <2>6
<1>7. CASE AnswerGraphError
  BY <1>7 DEF AnswerGraphError, Returns, graph
<1>8. CASE UNCHANGED vars
  BY <1>8 DEF vars, SatisfiedBy
<1> QED
  BY <1>1, <1>2, <1>3, <1>4, <1>5, <1>6, <1>7, <1>8 DEF Next, Explore, Respond, Done

(* Before the call the state it is made in may still change. *)
LEMMA InitialMoves ==
    ASSUME SearchInv, phase = "called", initial' \in State,
           UNCHANGED <<call, phase, graph, queue, expanding, next, truncated, answer>>
    PROVE  SearchInv'
<1>1. /\ discovered = {} /\ queue = <<>> /\ expanding = {} /\ DOMAIN edges = {}
      /\ answer = {}
  BY DEF SearchInv, AnswerInv, Inv, PhaseOK, GraphIsConsistent
<1>2. ExplorationOK' /\ PhaseOK' /\ CapOK'
  BY <1>1 DEF SearchInv, Inv, ExplorationOK, PhaseOK, CapOK, graph
<1>3. QueueOK' /\ (discovered \subseteq Reachable(initial))' /\ GraphIsConsistent'
  BY <1>1 DEF SearchInv, Inv, QueueOK, Queued, GraphIsConsistent, Satisfying, graph
<1>4. EdgesOK'
  BY <1>1 DEF EdgesOK, graph
<1>5. AnswerInv'
  BY <1>1 DEF SearchInv, AnswerInv, graph
<1> QED
  BY <1>2, <1>3, <1>4, <1>5 DEF SearchInv, Inv

-----------------------------------------------------------------------------
(* The inductive invariant of a command.                                   *)

StageOK ==
    /\ command \in Command
    /\ stage \in {"load", "sense", "call", "exited"}
    /\ stage \in {"load", "sense"} => phase = "called"
    /\ stage = "sense" => command.name = "run"
    /\ stage # "exited" => report = {} /\ exit = {}
    /\ command.name = "run" => call = "plan"
    /\ command.name = "inspect" => call = "explore_for_goal"

AllSucceeded == \A i \in DOMAIN succeeded : succeeded[i]

(* As long as the sensors succeed, a run follows the simulation. *)
SensedOK ==
    /\ succeeded \in Seq(BOOLEAN) /\ Len(succeeded) <= Len(SweepOrder)
    /\ command.name = "run" /\ AllSucceeded =>
          /\ SimulatedTo(Len(succeeded)) \subseteq initial
          /\ initial \subseteq SimulatedTo(Len(succeeded)) \cup command.have

(* A report shows what the planner has returned. *)
ReportOK ==
    /\ command.name = "inspect" /\ stage = "call" =>
          initial = SimulatedInitialState(command.have)
    /\ \A r \in Inspections :
          /\ stage = "exited" /\ command.name = "inspect" /\ phase = "answered"
          /\ initial = SimulatedInitialState(command.have)
          /\ r.initial = initial /\ r.findings = FindingsSection
          /\ r.graph.truncated = truncated
          /\ exit = {IF IsClean THEN 0 ELSE 1}

(* An exit code other than 2 comes from an answer. *)
ExitOK ==
    \A code \in exit :
        /\ stage = "exited" /\ code \in {0, 1, 2}
        /\ command.name \in {"run", "inspect"} /\ code # 2 => phase = "answered"
        /\ command.name = "run" /\ phase = "answered" =>
              \E a \in answer : code = IF a.kind = "error" THEN 2 ELSE OutcomeCode(a)

CommandInv == SearchInv /\ StageOK /\ SensedOK /\ ReportOK /\ ExitOK

-----------------------------------------------------------------------------
(* Sensing.                                                                *)

LEMMA SensorEffects ==
    ASSUME NEW n \in Sensor, NEW success \in BOOLEAN
    PROVE  EffectsFor(n, success).add \subseteq Fact /\ EffectsFor(n, success).remove \subseteq Fact
<1> DEFINE declared == IF success THEN SensorSpec[n].onSuccess ELSE SensorSpec[n].onFailure
           default == IF success THEN [add |-> {n}, remove |-> {}] ELSE [add |-> {}, remove |-> {n}]
           chosen == CHOOSE e \in declared : TRUE
<1>1. declared \subseteq Effects
  BY SensingAssumption DEF Option
<1>2. default \in Effects
  BY SensingAssumption DEF Effects
<1>3. declared # {} => chosen \in declared
  OBVIOUS
<1>4. EffectsFor(n, success) = IF declared = {} THEN default ELSE chosen
  BY DEF EffectsFor
<1> HIDE DEF declared, default, chosen
<1>5. EffectsFor(n, success) \in Effects
  BY <1>1, <1>2, <1>3, <1>4
<1> QED
  BY <1>5 DEF Effects

LEMMA SweepFacts ==
    /\ Len(SweepOrder) \in Nat
    /\ \A i \in 1..Len(SweepOrder) : SweepOrder[i] \in Sensor
    /\ \A n \in Sensor : \E i \in 1..Len(SweepOrder) : SweepOrder[i] = n
  BY SensingAssumption, LenProperties, ElementOfSeq

(* The simulation adds what a sensor adds, and then removes. *)
LEMMA SimulatedNext ==
    ASSUME NEW k \in Nat, k + 1 \in 1..Len(SweepOrder)
    PROVE  LET e == EffectsFor(SweepOrder[k + 1], TRUE)
           IN  SimulatedTo(k + 1) = (SimulatedTo(k) \cup e.add) \ e.remove
<1> DEFINE A(i) == EffectsFor(SweepOrder[i], TRUE).add
           R(i) == EffectsFor(SweepOrder[i], TRUE).remove
<1>1. A(k + 1) \subseteq Fact
  BY SweepFacts, SensorEffects
<1>2. \A m : SimulatedTo(m) = {f \in Fact : \E i \in 1..m : f \in A(i) /\ \A j \in i..m : f \notin R(j)}
  BY DEF SimulatedTo
<1> HIDE DEF A, R
<1>3. 1..(k + 1) = (1..k) \cup {k + 1} /\ (k + 1)..(k + 1) = {k + 1}
      /\ \A i \in 1..k : i..(k + 1) = (i..k) \cup {k + 1}
  OBVIOUS
<1>4. ASSUME NEW f \in Fact
      PROVE  (\E i \in 1..(k + 1) : f \in A(i) /\ \A j \in i..(k + 1) : f \notin R(j))
                <=> /\ f \notin R(k + 1)
                    /\ \/ \E i \in 1..k : f \in A(i) /\ \A j \in i..k : f \notin R(j)
                       \/ f \in A(k + 1)
  <2>1. ASSUME NEW i \in 1..k
        PROVE  (\A j \in i..(k + 1) : f \notin R(j))
                  <=> f \notin R(k + 1) /\ \A j \in i..k : f \notin R(j)
    BY <1>3
  <2>2. (\A j \in (k + 1)..(k + 1) : f \notin R(j)) <=> f \notin R(k + 1)
    BY <1>3
  <2>3. (\E i \in 1..(k + 1) : f \in A(i) /\ \A j \in i..(k + 1) : f \notin R(j))
           <=> \/ \E i \in 1..k : f \in A(i) /\ \A j \in i..(k + 1) : f \notin R(j)
               \/ f \in A(k + 1) /\ \A j \in (k + 1)..(k + 1) : f \notin R(j)
    BY <1>3
  <2> QED
    BY <2>1, <2>2, <2>3
<1>5. SimulatedTo(k + 1) = (SimulatedTo(k) \cup A(k + 1)) \ R(k + 1)
  BY <1>1, <1>2, <1>4
<1> QED
  BY <1>5 DEF A, R

LEMMA SimulatedType ==
    ASSUME NEW k, NEW have \in State
    PROVE  SimulatedTo(k) \in State /\ SimulatedInitialState(have) \in State
  BY DEF SimulatedTo, SimulatedInitialState, State

LEMMA RunSensorKeeps ==
    ASSUME CommandInv, RunSensor
    PROVE  CommandInv'
<1>1. PICK n \in Sensor, success \in BOOLEAN :
         /\ Due(n) /\ succeeded' = Append(succeeded, success)
         /\ initial' = (initial \cup EffectsFor(n, success).add) \ EffectsFor(n, success).remove
  BY DEF RunSensor, ApplyReading, ReadingOf
<1>2. /\ UNCHANGED <<call, phase, graph, queue, expanding, next, truncated, answer>>
      /\ UNCHANGED <<command, stage, report, exit>>
      /\ stage = "sense" /\ phase = "called" /\ command.name = "run" /\ report = {} /\ exit = {}
  BY <1>1 DEF RunSensor, Due, CommandInv, StageOK
<1>3. initial \in State /\ initial' \in State
  BY <1>1, SensorEffects DEF CommandInv, SearchInv, Inv, ExplorationOK, State
<1>4. SearchInv'
  BY <1>2, <1>3, InitialMoves DEF CommandInv
<1> DEFINE k == Len(succeeded)
<1>5. k \in Nat /\ k + 1 \in 1..Len(SweepOrder) /\ n = SweepOrder[k + 1]
      /\ succeeded \in Seq(BOOLEAN)
  BY <1>1, SweepFacts, LenProperties DEF Due, CommandInv, SensedOK
<1>6. /\ succeeded' \in Seq(BOOLEAN) /\ Len(succeeded') = k + 1
      /\ AllSucceeded' => AllSucceeded /\ success = TRUE
  <2>1. /\ succeeded' \in Seq(BOOLEAN) /\ Len(succeeded') = k + 1
        /\ DOMAIN succeeded = 1..k /\ DOMAIN succeeded' = 1..(k + 1)
        /\ \A i \in 1..k : succeeded'[i] = succeeded[i]
        /\ succeeded'[k + 1] = success
    BY <1>1, <1>5, AppendProperties, LenProperties
  <2> HIDE DEF k
  <2>2. \A i \in 1..k : i \in 1..(k + 1)
    BY <1>5
  <2>3. k + 1 \in 1..(k + 1)
    BY <1>5
  <2> QED
    BY <2>1, <2>2, <2>3 DEF AllSucceeded
<1> HIDE DEF k
<1>7. SensedOK'
  <2>1. ASSUME AllSucceeded'
        PROVE  /\ SimulatedTo(k + 1) \subseteq initial'
               /\ initial' \subseteq SimulatedTo(k + 1) \cup command.have
    <3>1. SimulatedTo(k + 1) = (SimulatedTo(k) \cup EffectsFor(n, TRUE).add) \ EffectsFor(n, TRUE).remove
      BY <1>5, SimulatedNext
    <3>2. /\ SimulatedTo(k) \subseteq initial
          /\ initial \subseteq SimulatedTo(k) \cup command.have
      BY <1>2, <1>6, <2>1 DEF CommandInv, SensedOK, k
    <3>3. initial' = (initial \cup EffectsFor(n, TRUE).add) \ EffectsFor(n, TRUE).remove
      BY <1>1, <1>6, <2>1
    <3> QED
      BY <3>1, <3>2, <3>3
  <2>2. SimulatedTo(Len(succeeded))' = SimulatedTo(k + 1)
    BY <1>6 DEF SimulatedTo
  <2>3. Len(succeeded') <= Len(SweepOrder)
    BY <1>5, <1>6, SweepFacts
  <2> QED
    BY <1>2, <1>6, <2>1, <2>2, <2>3 DEF SensedOK
<1>8. StageOK' /\ ReportOK' /\ ExitOK'
  BY <1>2 DEF CommandInv, StageOK, ReportOK, ExitOK, Inspections
<1> QED
  BY <1>4, <1>7, <1>8 DEF CommandInv

-----------------------------------------------------------------------------
(* The other steps.                                                        *)

LEMMA SimulateKeeps ==
    ASSUME CommandInv, Simulate
    PROVE  CommandInv'
<1>1. /\ UNCHANGED <<call, phase, graph, queue, expanding, next, truncated, answer>>
      /\ UNCHANGED <<command, succeeded, report, exit>>
      /\ stage = "load" /\ stage' = "call" /\ phase = "called" /\ command.name = "inspect"
      /\ report = {} /\ exit = {} /\ initial' = SimulatedInitialState(command.have)
  BY DEF Simulate, Loads, CommandInv, StageOK
<1>2. command.have \in State
  BY <1>1 DEF CommandInv, StageOK, Command
<1>3. SearchInv'
  BY <1>1, <1>2, SimulatedType, InitialMoves DEF CommandInv
<1>4. StageOK' /\ SensedOK'
  BY <1>1 DEF CommandInv, StageOK, SensedOK
<1>5. ReportOK' /\ ExitOK'
  BY <1>1 DEF ReportOK, ExitOK, Inspections, SimulatedInitialState, SimulatedTo
<1> QED
  BY <1>3, <1>4, <1>5 DEF CommandInv

(* The command moves on without the planner and without a report. *)
LEMMA MovesOn ==
    ASSUME CommandInv,
           \/ CannotRead \/ Refuses \/ PrintDryRun \/ StartSensing \/ SensorCannotRun
           \/ StartPlanning \/ LibraryReturns \/ AfterExit \/ UNCHANGED processVars
    PROVE  CommandInv'
<1>1. UNCHANGED <<vars, command, succeeded>>
  BY DEF CannotRead, Refuses, PrintDryRun, StartSensing, SensorCannotRun, StartPlanning,
         LibraryReturns, AfterExit, processVars, commandVars
<1>2. SearchInv'
  BY <1>1, SearchStep DEF CommandInv
<1>3. SensedOK'
  BY <1>1 DEF CommandInv, SensedOK, AllSucceeded, SimulatedTo, vars
<1> DEFINE quiet == /\ stage # "exited" /\ stage' = "exited"
                    /\ command.name = "inspect" => report' = {}
                    /\ Inspections' = {}
<1>4. ReportOK /\ StageOK /\ ExitOK
  BY DEF CommandInv
<1>5. CASE UNCHANGED <<stage, report, exit>>
  <2>1. StageOK'
    BY <1>1, <1>4, <1>5 DEF StageOK, vars
  <2>2. ReportOK'
    BY <1>1, <1>4, <1>5 DEF ReportOK, Inspections, FindingsSection, IsClean, DeadEnds, IsDeadEnd,
       Outgoing, vars, graph
  <2>3. ExitOK'
    BY <1>1, <1>4, <1>5 DEF ExitOK, vars
  <2> QED
    BY <1>2, <1>3, <2>1, <2>2, <2>3 DEF CommandInv
<1>6. CASE CannotRead \/ Refuses \/ SensorCannotRun
  <2>1. /\ phase = "called" /\ stage' = "exited" /\ exit' = {2} /\ report' = {}
    BY <1>4, <1>6 DEF CannotRead, Refuses, SensorCannotRun, Due, Exit, StageOK
  <2> QED
    BY <1>1, <1>2, <1>3, <1>4, <2>1 DEF CommandInv, StageOK, ReportOK, ExitOK, Inspections, vars
<1>7. CASE PrintDryRun
  <2>1. /\ phase = "called" /\ stage' = "exited" /\ exit' = {0}
        /\ report' = {[format |-> "dry-run"]} /\ command.name = "dry-run"
    BY <1>4, <1>7 DEF PrintDryRun, Loads, Exit, StageOK
  <2>2. Inspections' = {}
    BY <2>1 DEF Inspections
  <2> QED
    BY <1>1, <1>2, <1>3, <1>4, <2>1, <2>2 DEF CommandInv, StageOK, ReportOK, ExitOK, vars
<1>8. CASE StartSensing \/ StartPlanning \/ LibraryReturns
  <2>1. /\ UNCHANGED <<report, exit>> /\ stage # "exited"
        /\ command.name # "inspect"
        /\ \/ stage' = "sense" /\ command.name = "run" /\ stage = "load"
           \/ stage' \in {"call", "exited"}
    BY <1>4, <1>8 DEF StartSensing, StartPlanning, LibraryReturns, Loads, Returned, StageOK
  <2>2. report = {} /\ exit = {} /\ Inspections' = {}
    BY <1>4, <2>1 DEF StageOK, Inspections
  <2> QED
    BY <1>1, <1>2, <1>3, <1>4, <2>1, <2>2 DEF CommandInv, StageOK, ReportOK, ExitOK, vars
<1> QED
  BY <1>5, <1>6, <1>7, <1>8 DEF AfterExit, processVars, commandVars

LEMMA PlannerKeeps ==
    ASSUME CommandInv, PlannerSteps
    PROVE  CommandInv'
<1>1. /\ Next /\ UNCHANGED <<command, stage, succeeded, report, exit>>
      /\ stage = "call" /\ report = {} /\ exit = {}
  BY DEF PlannerSteps, commandVars, CommandInv, StageOK
<1>2. UNCHANGED <<call, initial>>
  BY <1>1 DEF Next, Explore, Respond, Done, vars, Begin, Truncate, Pop, Skip, Follow, Expanded,
     Exhausted, AnswerAtOnce, AnswerGraph, AnswerTooLarge, AnswerNone, AnswerGraphError,
     AnswerPlan, Returns
<1>3. SearchInv'
  BY <1>1, SearchStep DEF CommandInv
<1>4. StageOK' /\ SensedOK'
  BY <1>1, <1>2 DEF CommandInv, StageOK, SensedOK, AllSucceeded, SimulatedTo
<1>5. ReportOK' /\ ExitOK'
  BY <1>1, <1>2 DEF CommandInv, ReportOK, ExitOK, Inspections, SimulatedInitialState, SimulatedTo
<1> QED
  BY <1>3, <1>4, <1>5 DEF CommandInv

LEMMA OutcomeKeeps ==
    ASSUME CommandInv, PrintOutcome \/ PrintError
    PROVE  CommandInv'
<1>1. /\ UNCHANGED <<vars, command, succeeded>> /\ stage = "call" /\ phase = "answered"
      /\ command.name = "run" /\ stage' = "exited" /\ Inspections' = {}
  <2>1. CASE PrintOutcome
    <3>1. PICK a \in answer :
             report' = {[format |-> "outcome", state |-> initial, plan |-> a,
                         readings |-> succeeded, values |-> values]}
      BY <2>1 DEF PrintOutcome
    <3> QED
      BY <2>1, <3>1 DEF PrintOutcome, Returned, Exit, Inspections
  <2>2. CASE PrintError
    BY <2>2 DEF PrintError, Returned, Exit, Inspections, CommandInv, StageOK
  <2> QED
    BY <2>1, <2>2
<1>2. PICK a \in answer : exit' = {IF a.kind = "error" THEN 2 ELSE OutcomeCode(a)}
  BY DEF PrintOutcome, PrintError, Exit
<1>3. SearchInv'
  BY <1>1, SearchStep DEF CommandInv
<1>4. StageOK' /\ SensedOK'
  BY <1>1 DEF CommandInv, StageOK, SensedOK, AllSucceeded, SimulatedTo, vars
<1>5. ReportOK'
  BY <1>1 DEF ReportOK
<1>6. ExitOK'
  <2>1. exit' \subseteq {0, 1, 2}
    BY <1>2 DEF OutcomeCode
  <2>2. a \in answer' /\ phase' = "answered" /\ command' = command
    BY <1>1 DEF vars
  <2> QED
    BY <1>1, <1>2, <2>1, <2>2 DEF ExitOK, OutcomeCode
<1> QED
  BY <1>3, <1>4, <1>5, <1>6 DEF CommandInv

LEMMA ReportFields ==
    \A r \in {TextReport, DotReport, MermaidReport, JsonReport} :
        /\ r.initial = initial /\ r.findings = FindingsSection
        /\ r.graph = GraphSection
<1>1. /\ TextReport.initial = initial /\ TextReport.findings = FindingsSection
      /\ TextReport.graph = GraphSection
  BY DEF TextReport
<1>2. /\ DotReport.initial = initial /\ DotReport.findings = FindingsSection
      /\ DotReport.graph = GraphSection
  BY DEF DotReport
<1>3. /\ MermaidReport.initial = DotReport.initial /\ MermaidReport.findings = DotReport.findings
      /\ MermaidReport.graph = DotReport.graph
  BY DEF MermaidReport, DotReport
<1>4. /\ JsonReport.initial = TextReport.initial /\ JsonReport.findings = TextReport.findings
      /\ JsonReport.graph = TextReport.graph
  BY DEF JsonReport, TextReport
<1> QED
  BY <1>1, <1>2, <1>3, <1>4

LEMMA PrintReportKeeps ==
    ASSUME CommandInv, PrintReport
    PROVE  CommandInv'
<1>1. /\ UNCHANGED <<vars, command, succeeded>> /\ stage = "call" /\ phase = "answered"
      /\ command.name = "inspect" /\ stage' = "exited"
      /\ exit' = {IF IsClean THEN 0 ELSE 1}
  BY DEF PrintReport, Returned, Exit
<1>2. PICK r \in {TextReport, DotReport, MermaidReport, JsonReport} : report' = {r}
  BY DEF PrintReport
<1>3. /\ r.initial = initial /\ r.findings = FindingsSection
      /\ r.graph.truncated = truncated
  BY ReportFields DEF GraphSection
<1>4. SearchInv'
  BY <1>1, SearchStep DEF CommandInv
<1>5. StageOK' /\ SensedOK'
  BY <1>1 DEF CommandInv, StageOK, SensedOK, AllSucceeded, SimulatedTo, vars
<1>6. (IsClean)' = IsClean /\ FindingsSection' = FindingsSection
  BY <1>1 DEF IsClean, FindingsSection, DeadEnds, IsDeadEnd, Outgoing, vars
<1>7. SimulatedInitialState(command.have)' = SimulatedInitialState(command.have)
  BY <1>1 DEF SimulatedInitialState, SimulatedTo
<1>8. initial = SimulatedInitialState(command.have)
  BY <1>1 DEF CommandInv, ReportOK
<1>9. Inspections' \subseteq {r}
  BY <1>2 DEF Inspections
<1>10. ReportOK'
  BY <1>1, <1>3, <1>6, <1>7, <1>8, <1>9 DEF ReportOK, vars
<1>11. ExitOK'
  BY <1>1 DEF ExitOK, vars
<1> QED
  BY <1>4, <1>5, <1>10, <1>11 DEF CommandInv

LEMMA CommandInvInit == CommandInit => CommandInv
<1> SUFFICES ASSUME CommandInit PROVE CommandInv
  OBVIOUS
<1>1. SearchInv
  BY SearchInit DEF CommandInit
<1>2. StageOK
  BY DEF CommandInit, Init, StageOK
<1>3. SensedOK
  <2>1. succeeded = <<>> /\ Len(succeeded) = 0 /\ succeeded \in Seq(BOOLEAN)
    BY DEF CommandInit
  <2>2. SimulatedTo(0) = {}
    BY DEF SimulatedTo
  <2>3. command.name = "run" => initial = command.have
    BY DEF CommandInit
  <2> QED
    BY <2>1, <2>2, <2>3, SweepFacts DEF SensedOK
<1>4. ReportOK /\ ExitOK
  BY DEF CommandInit, ReportOK, ExitOK, Inspections
<1> QED
  BY <1>1, <1>2, <1>3, <1>4 DEF CommandInv

LEMMA CommandInvStep == CommandInv /\ [CommandNext]_processVars => CommandInv'
  BY RunSensorKeeps, SimulateKeeps, MovesOn, PlannerKeeps, OutcomeKeeps, PrintReportKeeps
     DEF CommandNext

(* The commands and the planner agree at every step on what was sensed,    *)
(* what was searched and what was printed.                                 *)
THEOREM CommandInvariance == CommandSpec => []CommandInv
<1> QED
  BY CommandInvInit, CommandInvStep, PTL DEF CommandSpec

-----------------------------------------------------------------------------
(* What follows for the reader of a report and of an exit code.            *)

(* When every sensor succeeds a run plans in the state that an inspection  *)
(* simulates, but for the --have facts a sensor takes away                 *)
(* (inspect.rs, simulate_initial_state; run.rs, sense_and_plan).           *)
THEOREM SimulationBounds == CommandSpec => []SimulationIsTheBestCase
<1>1. CommandInv => SimulationIsTheBestCase
  BY DEF CommandInv, SensedOK, AllSucceeded, SimulationIsTheBestCase, SimulatedInitialState
<1> QED
  BY <1>1, CommandInvariance, PTL

(* Facts that no sensor and no action adds never come to hold.             *)
LEMMA NothingElseProduces ==
    ASSUME NEW s \in State, NEW f \in Fact, f \notin s, f \notin Producers
    PROVE  \A w \in Reachable(s) : f \notin w
<1> DEFINE without == {w \in State : f \notin w}
<1>1. ASSUME NEW w \in without, NEW t \in Successors(w)
      PROVE  t \in without
  <2>1. PICK a \in Action : t = Apply(a, w)
    BY <1>1 DEF Successors
  <2>2. t \in State
    BY <2>1, ApplyType
  <2>3. f \notin Library[a].adds
    BY <2>1 DEF Producers
  <2> QED
    BY <2>1, <2>2, <2>3 DEF Apply
<1>2. Closed(without)
  BY <1>1 DEF Closed
<1>3. s \in without /\ without \in SUBSET State
  OBVIOUS
<1> QED
  BY <1>2, <1>3, ReachableIsHull DEF Hull

(* The simulated state holds what is produced and what --have supplies.    *)
LEMMA SimulatedIsProduced ==
    ASSUME NEW have
    PROVE  SimulatedInitialState(have) \subseteq Producers \cup have
<1>1. ASSUME NEW f \in SimulatedTo(Len(SweepOrder))
      PROVE  f \in Producers
  <2>1. PICK i \in 1..Len(SweepOrder) : f \in EffectsFor(SweepOrder[i], TRUE).add
    BY DEF SimulatedTo
  <2>2. SweepOrder[i] \in Sensor
    BY SweepFacts
  <2> QED
    BY <2>1, <2>2 DEF Producers
<1> QED
  BY <1>1 DEF SimulatedInitialState

(* In a complete graph the states without an edge are those without a move. *)
LEMMA DeadEndsAreStuck ==
    ASSUME Inv, Explored, ~truncated, call = "explore_for_goal"
    PROVE  /\ \A w \in Reachable(initial) : IsDeadEnd(w) <=> Successors(w) = {}
           /\ DeadEnds = {w \in Reachable(initial) : ~SatisfiedBy(w) /\ Successors(w) = {}}
<1>1. /\ discovered = Reachable(initial)
      /\ DOMAIN edges = {e \in discovered \X discovered : Connecting(e[1], e[2]) # {}}
  BY InvExact DEF ExplorationIsExact
<1>2. initial \in State
  BY DEF Inv, ExplorationOK
<1>3. ASSUME NEW w \in Reachable(initial), NEW e \in Outgoing(w)
      PROVE  Successors(w) # {}
  <2>1. PICK i \in Connecting(w, e[2]) : TRUE
    BY <1>1, <1>3 DEF Outgoing
  <2>2. Actions[i] \in Action /\ Applicable(Actions[i], w)
    BY <2>1, ActionsAssumption, ElementOfSeq, LenProperties DEF Connecting
  <2> QED
    BY <2>2 DEF Successors
<1>4. ASSUME NEW w \in Reachable(initial), NEW t \in Successors(w)
      PROVE  Outgoing(w) # {}
  <2>1. PICK a \in Action : Applicable(a, w) /\ t = Apply(a, w)
    BY DEF Successors
  <2>2. PICK i \in DOMAIN Actions : Actions[i] = a
    BY ActionsAssumption
  <2>3. i \in Connecting(w, t) /\ t \in Reachable(initial)
    BY <1>2, <2>1, <2>2, ReachableClosed DEF Connecting
  <2>4. <<w, t>> \in DOMAIN edges
    BY <1>1, <2>3
  <2> QED
    BY <2>4 DEF Outgoing
<1>5. \A w \in Reachable(initial) : IsDeadEnd(w) <=> Successors(w) = {}
  BY <1>3, <1>4 DEF IsDeadEnd
<1>6. goalStates = {s \in discovered : SatisfiedBy(s)}
  BY DEF Inv, GraphIsConsistent, Satisfying
<1>7. DeadEnds = {w \in Reachable(initial) : ~SatisfiedBy(w) /\ Successors(w) = {}}
  BY <1>1, <1>5, <1>6 DEF DeadEnds
<1> QED
  BY <1>5, <1>7

LEMMA InspectionFacts ==
    ASSUME CommandInv, NEW r \in Inspections
    PROVE  /\ Inv /\ Explored /\ call = "explore_for_goal" /\ initial \in State
           /\ initial = SimulatedInitialState(command.have)
           /\ r.initial = initial /\ r.findings = FindingsSection
           /\ r.graph.truncated = truncated
           /\ exit = {IF IsClean THEN 0 ELSE 1}
<1>1. /\ command.name = "inspect" /\ phase = "answered"
      /\ initial = SimulatedInitialState(command.have)
      /\ r.initial = initial /\ r.findings = FindingsSection
      /\ r.graph.truncated = truncated
      /\ exit = {IF IsClean THEN 0 ELSE 1}
  BY DEF CommandInv, ReportOK
<1>2. call = "explore_for_goal"
  BY <1>1 DEF CommandInv, StageOK
<1>3. Inv /\ initial \in State /\ discovered # {}
  BY <1>1, <1>2 DEF CommandInv, SearchInv, AnswerInv, Inv, ExplorationOK
<1> QED
  BY <1>1, <1>2, <1>3 DEF Explored

(* What an inspection finds is true of every world that can be reached     *)
(* from the state it prints (inspect.rs, analyse).                         *)
THEOREM FindingsSound == CommandSpec => []FindingsAreSound
<1>1. ASSUME CommandInv, NEW r \in Inspections
      PROVE  /\ \A o \in r.findings.orphans :
                   o[2] \in command.have \/ \A w \in Reachable(r.initial) : ~Applicable(o[1], w)
             /\ \/ r.findings.unreachable \subseteq command.have
                \/ \A w \in Reachable(r.initial) : ~SatisfiedBy(w)
             /\ ~r.graph.truncated =>
                   r.findings.deadEnds =
                       {w \in Reachable(r.initial) :
                           ~SatisfiedBy(w) /\ \A a \in Action : ~Applicable(a, w)}
  <2>1. /\ Inv /\ Explored /\ call = "explore_for_goal" /\ initial \in State
        /\ initial \subseteq Producers \cup command.have
        /\ r.initial = initial /\ r.graph.truncated = truncated
    BY <1>1, InspectionFacts, SimulatedIsProduced
  <2>2. /\ r.findings.orphans = Orphans /\ r.findings.unreachable = UnreachableGoalFacts
        /\ r.findings.deadEnds = DeadEnds
    BY <1>1, InspectionFacts DEF FindingsSection
  <2>3. ASSUME NEW o \in Orphans, o[2] \notin command.have, NEW w \in Reachable(initial)
        PROVE  ~Applicable(o[1], w)
    <3>1. o[2] \in Fact /\ o[2] \notin Producers /\ o[2] \in Library[o[1]].requires
      BY <2>3 DEF Orphans
    <3>2. o[2] \notin w
      BY <2>1, <2>3, <3>1, NothingElseProduces
    <3> QED
      BY <3>1, <3>2 DEF Applicable
  <2>4. ASSUME NEW f \in UnreachableGoalFacts, f \notin command.have, NEW w \in Reachable(initial)
        PROVE  ~SatisfiedBy(w)
    <3>1. f \in Fact /\ f \notin Producers /\ f \in Goal.requires
      BY LibraryAssumption DEF UnreachableGoalFacts
    <3>2. f \notin w
      BY <2>1, <2>4, <3>1, NothingElseProduces
    <3> QED
      BY <3>1, <3>2 DEF SatisfiedBy
  <2>5. ASSUME ~truncated
        PROVE  DeadEnds = {w \in Reachable(initial) :
                              ~SatisfiedBy(w) /\ \A a \in Action : ~Applicable(a, w)}
    <3>1. \A w : Successors(w) = {} <=> \A a \in Action : ~Applicable(a, w)
      BY DEF Successors
    <3> QED
      BY <2>1, <2>5, <3>1, DeadEndsAreStuck
  <2> QED
    BY <2>1, <2>2, <2>3, <2>4, <2>5
<1>2. CommandInv => FindingsAreSound
  BY <1>1 DEF FindingsAreSound
<1> QED
  BY <1>2, CommandInvariance, PTL

-----------------------------------------------------------------------------
(***************************************************************************)
(* The plan.                                                               *)
(*                                                                         *)
(* What is reachable in a bounded number of steps is reachable at all; the *)
(* routes that are built edge by edge are the simple paths of the graph;   *)
(* and a route along which no state is seen twice is no dearer than steps  *)
(* that go anywhere.  So the cheapest route is a cheapest plan.            *)
(***************************************************************************)

-----------------------------------------------------------------------------
(* Sums. *)

IsSum(f, n, g) == g = [k \in 0..n |-> IF k = 0 THEN 0 ELSE g[k - 1] + f[k]]

LEMMA SumExists ==
    ASSUME NEW f, NEW n \in Nat
    PROVE  \E g : IsSum(f, n, g)
<1> DEFINE S == {m \in Nat : \E g : IsSum(f, m, g)}
<1>1. 0 \in S
  <2>1. IsSum(f, 0, [k \in 0..0 |-> 0])
    BY DEF IsSum
  <2> QED
    BY <2>1
<1>2. ASSUME NEW m \in S PROVE m + 1 \in S
  <2>1. PICK g : IsSum(f, m, g)
    OBVIOUS
  <2> DEFINE h == [k \in 0..(m + 1) |-> IF k = m + 1 THEN g[m] + f[m + 1] ELSE g[k]]
  <2>2. IsSum(f, m + 1, h)
    BY <2>1 DEF IsSum
  <2> HIDE DEF h
  <2> QED
    BY <2>2
<1> HIDE DEF S
<1>3. S = Nat
  BY <1>1, <1>2, NatSet DEF S
<1> QED
  BY <1>3 DEF S

LEMMA TotalIsSum ==
    ASSUME NEW f, NEW n \in Nat
    PROVE  \E g : IsSum(f, n, g) /\ Total(f, n) = g[n]
<1> DEFINE w == CHOOSE w : w = [k \in 0..n |-> IF k = 0 THEN 0 ELSE w[k - 1] + f[k]]
<1>1. w = [k \in 0..n |-> IF k = 0 THEN 0 ELSE w[k - 1] + f[k]]
  BY SumExists DEF IsSum
<1>2. Total(f, n) = w[n]
  BY DEF Total
<1> HIDE DEF w
<1> QED
  BY <1>1, <1>2 DEF IsSum

(* Two sums of the same numbers agree, even if one goes on. *)
LEMMA SumsAgree ==
    ASSUME NEW f, NEW h, NEW m \in Nat, NEW n \in Nat, m <= n, NEW u, NEW v,
           IsSum(f, m, u), IsSum(h, n, v), \A k \in 1..n : k <= m => f[k] = h[k]
    PROVE  \A k \in 0..m : u[k] = v[k]
<1> DEFINE S == {k \in 0..m : u[k] = v[k]}
<1>1. 0 \in S
  BY DEF IsSum
<1>2. ASSUME NEW k \in 0..(m - 1), k \in S PROVE k + 1 \in S
  BY <1>2 DEF IsSum
<1> HIDE DEF S
<1>3. \A k \in 0..m : k \in S
  BY <1>1, <1>2, UpTo
<1> QED
  BY <1>3 DEF S

LEMMA TotalSame ==
    ASSUME NEW n \in Nat, NEW f, NEW h, \A k \in 1..n : f[k] = h[k]
    PROVE  Total(f, n) = Total(h, n)
<1>1. PICK u : IsSum(f, n, u) /\ Total(f, n) = u[n]
  BY TotalIsSum
<1>2. PICK v : IsSum(h, n, v) /\ Total(h, n) = v[n]
  BY TotalIsSum
<1>3. \A k \in 0..n : u[k] = v[k]
  <2>1. PICK m \in Nat : m = n
    OBVIOUS
  <2>2. m <= n /\ (\A k \in 1..n : k <= m => f[k] = h[k]) /\ IsSum(f, m, u) /\ IsSum(h, n, v)
    BY <1>1, <1>2, <2>1
  <2>3. \A k \in 0..m : u[k] = v[k]
    BY <2>2, SumsAgree
  <2> QED
    BY <2>1, <2>3
<1>4. n \in 0..n
  OBVIOUS
<1> QED
  BY <1>1, <1>2, <1>3, <1>4

LEMMA TotalStep ==
    ASSUME NEW f
    PROVE  /\ Total(f, 0) = 0
           /\ \A n \in Nat : Total(f, n + 1) = Total(f, n) + f[n + 1]
<1>1. Total(f, 0) = 0
  <2>1. PICK u : IsSum(f, 0, u) /\ Total(f, 0) = u[0]
    BY TotalIsSum
  <2> QED
    BY <2>1 DEF IsSum
<1>2. ASSUME NEW n \in Nat PROVE Total(f, n + 1) = Total(f, n) + f[n + 1]
  <2>1. PICK u : IsSum(f, n, u) /\ Total(f, n) = u[n]
    BY TotalIsSum
  <2>2. PICK m \in Nat : m = n + 1
    OBVIOUS
  <2>3. PICK v : IsSum(f, m, v) /\ Total(f, m) = v[m]
    BY TotalIsSum
  <2>4. n <= m /\ \A k \in 1..m : k <= n => f[k] = f[k]
    BY <2>2
  <2>5. \A k \in 0..n : u[k] = v[k]
    BY <2>1, <2>3, <2>4, SumsAgree
  <2>6. v[m] = v[n] + f[m]
    BY <2>2, <2>3 DEF IsSum
  <2> QED
    BY <2>1, <2>2, <2>3, <2>5, <2>6
<1> QED
  BY <1>1, <1>2

LEMMA TotalType ==
    ASSUME NEW n \in Nat, NEW f, \A k \in 1..n : f[k] \in Nat
    PROVE  \A m \in 0..n : Total(f, m) \in Nat /\ Total(f, m) <= Total(f, n)
<1> DEFINE S == {m \in 0..n : Total(f, m) \in Nat}
           T == {m \in Nat : m <= n => Total(f, n - m) <= Total(f, n)}
<1>1. 0 \in S /\ \A m \in 0..(n - 1) : m \in S => m + 1 \in S
  BY TotalStep
<1> HIDE DEF S
<1>2. \A m \in 0..n : m \in S
  BY <1>1, UpTo
<1>3. \A m \in 0..n : Total(f, m) \in Nat
  BY <1>2 DEF S
<1>4. 0 \in T
  BY <1>3
<1>5. ASSUME NEW m \in T PROVE m + 1 \in T
  <2> SUFFICES ASSUME m + 1 <= n PROVE Total(f, n - (m + 1)) <= Total(f, n)
    OBVIOUS
  <2> DEFINE k == n - (m + 1)
  <2>1. k \in Nat /\ k + 1 = n - m /\ k \in 0..n /\ k + 1 \in 1..n /\ n \in 0..n
    OBVIOUS
  <2>2. Total(f, k + 1) = Total(f, k) + f[k + 1] /\ Total(f, k + 1) <= Total(f, n)
    BY <2>1, TotalStep
  <2>3. f[k + 1] \in Nat /\ Total(f, k) \in Nat /\ Total(f, n) \in Nat
    BY <1>3, <2>1
  <2> QED
    BY <2>2, <2>3
<1> HIDE DEF T
<1>6. T = Nat
  BY <1>4, <1>5, NatSet DEF T
<1>7. \A m \in 0..n : n - m \in Nat /\ n - m <= n /\ n - (n - m) = m
  OBVIOUS
<1> QED
  BY <1>3, <1>6, <1>7 DEF T

-----------------------------------------------------------------------------
(* Routes.                                                                 *)

(* A route: from the initial state along edges, never twice through a state. *)
Simple(r) ==
    /\ r \in Seq(discovered) /\ r # <<>> /\ r[1] = initial
    /\ \A i \in 1..(Len(r) - 1) : <<r[i], r[i + 1]>> \in DOMAIN edges
    /\ \A i, j \in 1..Len(r) : r[i] = r[j] => i = j

LEMMA RoutesChain ==
    ASSUME initial \in discovered, IsFiniteSet(discovered)
    PROVE  \E g \in [0..Cardinality(discovered) -> SUBSET Seq(discovered)] :
              /\ g[0] = {<<initial>>}
              /\ \A k \in 1..Cardinality(discovered) : g[k] = Extended(g[k - 1])
              /\ Routes = g[Cardinality(discovered)]
<1> DEFINE T == SUBSET Seq(discovered)
           N == Cardinality(discovered)
           F == [R \in T |-> Extended(R)]
<1>1. N \in Nat
  BY FS_CardinalityType
<1>2. ASSUME NEW R \in T PROVE Extended(R) \in T
  <2>1. \A r \in R, t \in discovered : Append(r, t) \in Seq(discovered)
    BY AppendProperties
  <2>2. ASSUME NEW x \in Extended(R) PROVE x \in Seq(discovered)
    <3>1. x \in R \/ \E r \in R, t \in discovered : x = Append(r, t)
      BY DEF Extended
    <3> QED
      BY <2>1, <3>1
  <2> QED
    BY <2>2
<1>2a. \A R \in T : Extended(R) \in T
  BY <1>2
<1>3. {<<initial>>} \in T /\ (\A R \in T : Extended(R) \in T) /\ F \in [T -> T] /\ \A R \in T : F[R] = Extended(R)
  BY <1>2a
<1> HIDE DEF T, F, N
<1>4a. PICK g : IsIteration(N, T, {<<initial>>}, F, g)
  BY <1>1, <1>3, Iterates
<1>4. g \in [0..N -> T] /\ g[0] = {<<initial>>} /\ \A k \in 1..N : g[k] = F[g[k - 1]]
  BY <1>4a DEF IsIteration
<1>5. \A k \in 1..N : g[k] = Extended(g[k - 1])
  BY <1>1, <1>3, <1>4
<1>6. g = [k \in 0..N |-> IF k = 0 THEN {<<initial>>} ELSE Extended(g[k - 1])]
  BY <1>1, <1>4, <1>5
<1> DEFINE w == CHOOSE w : w = [k \in 0..N |-> IF k = 0 THEN {<<initial>>} ELSE Extended(w[k - 1])]
<1>7. w = [k \in 0..N |-> IF k = 0 THEN {<<initial>>} ELSE Extended(w[k - 1])]
  BY <1>6
<1>8. Routes = w[N]
  BY DEF Routes, N
<1> HIDE DEF w
<1>8a. w[0] = {<<initial>>} /\ \A k \in 1..N : w[k] = Extended(w[k - 1])
  <2>1. 0 \in 0..N /\ \A k \in 1..N : k \in 0..N /\ k # 0
    BY <1>1
  <2>2. \A k \in 0..N : w[k] = IF k = 0 THEN {<<initial>>} ELSE Extended(w[k - 1])
    BY <1>7, Zenon
  <2> QED
    BY <2>1, <2>2
<1>9. w \in [0..N -> T]
  <2> DEFINE U == {k \in 0..N : w[k] \in T}
  <2>1. 0 \in U
    BY <1>1, <1>3, <1>7
  <2>2. ASSUME NEW k \in 0..(N - 1), k \in U PROVE k + 1 \in U
    <3>1. k + 1 \in 0..N /\ k + 1 \in 1..N /\ (k + 1) - 1 = k
      BY <1>1
    <3>2. w[k + 1] = Extended(w[k])
      BY <1>8a, <3>1
    <3> QED
      BY <2>2, <3>1, <3>2, <1>3
  <2> HIDE DEF U
  <2>3. \A k \in 0..N : k \in U
    BY <1>1, <2>1, <2>2, UpTo
  <2>4. \A k \in 0..N : w[k] \in T
    BY <2>3 DEF U
  <2> QED
    BY <1>7, <2>4
<1> QED
  BY <1>8, <1>8a, <1>9 DEF N, T

LEMMA SimpleFacts ==
    ASSUME NEW r, Simple(r)
    PROVE  /\ Len(r) \in Nat \ {0} /\ DOMAIN r = 1..Len(r)
           /\ \A i \in 1..Len(r) : r[i] \in discovered
           /\ \A i \in 1..(Len(r) - 1) : i \in 1..Len(r) /\ i + 1 \in 1..Len(r)
           /\ 1 \in 1..Len(r) /\ Len(r) \in 1..Len(r)
<1>1. r \in Seq(discovered) /\ r # <<>>
  BY DEF Simple
<1>2. Len(r) \in Nat /\ DOMAIN r = 1..Len(r) /\ Len(r) # 0 /\ \A i \in 1..Len(r) : r[i] \in discovered
  BY <1>1, EmptySeq, LenProperties
<1> QED
  BY <1>2

LEMMA SimpleStart ==
    ASSUME initial \in discovered
    PROVE  /\ Simple(<<initial>>) /\ Len(<<initial>>) = 1
           /\ \A r : Simple(r) /\ Len(r) = 1 => r = <<initial>>
<1>1. Simple(<<initial>>) /\ Len(<<initial>>) = 1
  BY DEF Simple
<1>2. ASSUME NEW r, Simple(r), Len(r) = 1 PROVE r = <<initial>>
  BY <1>2 DEF Simple
<1> QED
  BY <1>1, <1>2

LEMMA SimpleAppend ==
    ASSUME NEW q, Simple(q), NEW t \in discovered, <<q[Len(q)], t>> \in DOMAIN edges,
           \A i \in 1..Len(q) : q[i] # t
    PROVE  /\ Simple(Append(q, t)) /\ Len(Append(q, t)) = Len(q) + 1
           /\ Append(q, t)[Len(q) + 1] = t
           /\ \A i \in 1..Len(q) : Append(q, t)[i] = q[i]
<1>1. q \in Seq(discovered)
  BY DEF Simple
<1>2. /\ Len(q) \in Nat \ {0} /\ 1 \in 1..Len(q)
      /\ \A i \in 1..(Len(q) - 1) : i \in 1..Len(q) /\ i + 1 \in 1..Len(q)
  BY SimpleFacts
<1> DEFINE r == Append(q, t)
<1>3. /\ r \in Seq(discovered) /\ r # <<>> /\ Len(r) = Len(q) + 1
      /\ \A i \in 1..Len(q) : r[i] = q[i]
      /\ r[Len(q) + 1] = t
  BY <1>1, AppendProperties
<1> HIDE DEF r
<1>4. r[1] = initial
  BY <1>2, <1>3 DEF Simple
<1>5. ASSUME NEW i \in 1..(Len(r) - 1) PROVE <<r[i], r[i + 1]>> \in DOMAIN edges
  <2>1. CASE i = Len(q)
    <3>1. r[i] = q[Len(q)] /\ r[i + 1] = t
      BY <1>2, <1>3, <2>1
    <3> QED
      BY <3>1
  <2>2. CASE i # Len(q)
    <3>1. i \in 1..(Len(q) - 1)
      BY <1>2, <1>3, <2>2
    <3>2. r[i] = q[i] /\ r[i + 1] = q[i + 1]
      BY <1>2, <1>3, <3>1
    <3> QED
      BY <3>1, <3>2 DEF Simple
  <2> QED
    BY <2>1, <2>2
<1>6. ASSUME NEW i \in 1..Len(r), NEW j \in 1..Len(r), r[i] = r[j] PROVE i = j
  <2>1. \A k \in 1..Len(r) : k = Len(q) + 1 \/ k \in 1..Len(q)
    BY <1>2, <1>3
  <2> QED
    BY <1>3, <1>6, <2>1 DEF Simple
<1>7. Simple(r)
  BY <1>3, <1>4, <1>5, <1>6 DEF Simple
<1> QED
  BY <1>3, <1>7 DEF r

LEMMA SimplePrefix ==
    ASSUME NEW r, Simple(r), NEW n \in 1..Len(r)
    PROVE  /\ Simple(SubSeq(r, 1, n)) /\ Len(SubSeq(r, 1, n)) = n
           /\ \A i \in 1..n : SubSeq(r, 1, n)[i] = r[i]
<1>1. r \in Seq(discovered) /\ Len(r) \in Nat \ {0} /\ n \in Nat /\ n <= Len(r)
  BY SimpleFacts DEF Simple
<1> DEFINE q == SubSeq(r, 1, n)
<1>2. /\ q \in Seq(discovered) /\ Len(q) = n
      /\ \A i \in 1..n : q[i] = r[i]
  <2>1. 1 \in 1..(Len(r) + 1) /\ n \in 0..Len(r) /\ 0 <= n /\ n - 1 + 1 = n
    BY <1>1
  <2>2. /\ q \in Seq(discovered) /\ Len(q) = IF 1 <= n THEN n - 1 + 1 ELSE 0
        /\ \A i \in 1..(n - 1 + 1) : q[i] = r[1 + i - 1]
    BY <1>1, <2>1, SubSeqProperties
  <2>3. \A i \in 1..n : 1 + i - 1 = i
    BY <1>1
  <2> QED
    BY <1>1, <2>1, <2>2, <2>3
<1> HIDE DEF q
<1>3. q # <<>> /\ q[1] = initial
  <2>1. 1 \in 1..n
    BY <1>1
  <2>2. q[1] = r[1]
    BY <1>2, <2>1
  <2> QED
    BY <1>1, <1>2, <2>2, EmptySeq DEF Simple
<1>4. ASSUME NEW i \in 1..(n - 1) PROVE <<q[i], q[i + 1]>> \in DOMAIN edges
  <2>1. i \in 1..n /\ i + 1 \in 1..n /\ i \in 1..(Len(r) - 1)
    BY <1>1
  <2>2. q[i] = r[i] /\ q[i + 1] = r[i + 1]
    BY <1>2, <2>1
  <2> QED
    BY <2>1, <2>2 DEF Simple
<1>5. ASSUME NEW i \in 1..n, NEW j \in 1..n, q[i] = q[j] PROVE i = j
  <2>1. i \in 1..Len(r) /\ j \in 1..Len(r)
    BY <1>1
  <2> QED
    BY <1>2, <1>5, <2>1 DEF Simple
<1>6. Simple(q)
  BY <1>2, <1>3, <1>4, <1>5 DEF Simple
<1> QED
  BY <1>2, <1>6 DEF q

(* A simple route is no longer than there are states. *)
LEMMA SimpleLength ==
    ASSUME IsFiniteSet(discovered), NEW r, Simple(r)
    PROVE  Len(r) <= Cardinality(discovered)
<1>1. Len(r) \in Nat /\ r \in [1..Len(r) -> discovered]
  BY LenProperties DEF Simple
<1>2. r \in Injection(1..Len(r), discovered)
  BY <1>1 DEF Simple, Injection, IsInjective
<1>3. Cardinality(1..Len(r)) <= Cardinality(discovered)
  <2>1. PICK D : D = 1..Len(r)
    OBVIOUS
  <2>2. Injection(D, discovered) # {}
    BY <1>2, <2>1
  <2>3. Cardinality(D) <= Cardinality(discovered)
    BY <2>2, FS_Injection
  <2> QED
    BY <2>1, <2>3
<1>4. Cardinality(1..Len(r)) = Len(r)
  BY <1>1, FS_Interval
<1> QED
  BY <1>3, <1>4

(* r is one step longer than a route in R. *)
OneLonger(R, r) ==
    \E q \in R : \E t \in discovered :
        /\ r = Append(q, t) /\ <<q[Len(q)], t>> \in DOMAIN edges
        /\ \A i \in DOMAIN q : q[i] # t

LEMMA ExtendedIs ==
    ASSUME NEW R, NEW r
    PROVE  r \in Extended(R) <=> r \in R \/ OneLonger(R, r)
<1> DEFINE More(q) == {u \in discovered : /\ <<q[Len(q)], u>> \in DOMAIN edges
                                          /\ \A i \in DOMAIN q : q[i] # u}
           Longer(q) == {Append(q, t) : t \in More(q)}
<1>1. Extended(R) = R \cup UNION {Longer(q) : q \in R}
  BY DEF Extended
<1>2. ASSUME NEW q
      PROVE  r \in Longer(q) <=>
                \E t \in discovered : /\ r = Append(q, t) /\ <<q[Len(q)], t>> \in DOMAIN edges
                                      /\ \A i \in DOMAIN q : q[i] # t
  OBVIOUS
<1> HIDE DEF Longer
<1> QED
  BY <1>1, <1>2 DEF OneLonger

LEMMA RoutesAreSimple ==
    ASSUME initial \in discovered, IsFiniteSet(discovered)
    PROVE  \A r : r \in Routes <=> Simple(r)
<1> DEFINE N == Cardinality(discovered)
<1>1. N \in Nat
  BY FS_CardinalityType
<1>2. PICK g \in [0..N -> SUBSET Seq(discovered)] :
          /\ g[0] = {<<initial>>}
          /\ \A k \in 1..N : g[k] = Extended(g[k - 1])
          /\ Routes = g[N]
  BY RoutesChain
<1> HIDE DEF N
<1> DEFINE S == {k \in 0..N : \A r \in g[k] : Simple(r)}
           U == {k \in 0..N : \A r : Simple(r) /\ Len(r) <= k + 1 => r \in g[k]}
<1>3. ASSUME NEW k \in 0..(N - 1)
      PROVE  k + 1 \in 0..N /\ k \in 0..N /\ g[k + 1] = Extended(g[k])
  <2>1. k + 1 \in 1..N /\ k + 1 \in 0..N /\ k \in 0..N /\ (k + 1) - 1 = k
    BY <1>1
  <2> QED
    BY <1>2, <2>1
<1>4. 0 \in S /\ 0 \in U
  <2>1. 0 \in 0..N
    BY <1>1
  <2>2. ASSUME NEW r, Simple(r), Len(r) <= 1 PROVE r = <<initial>>
    <3> DEFINE n == Len(r)
    <3>1. n \in Nat \ {0} /\ n <= 1
      BY <2>2, SimpleFacts
    <3> HIDE DEF n
    <3>2. n = 1
      BY <3>1
    <3> QED
      BY <2>2, <3>2, SimpleStart DEF n
  <2>3. 0 + 1 = 1
    OBVIOUS
  <2> QED
    BY <1>2, <2>1, <2>3, <2>2, SimpleStart
<1>5. ASSUME NEW k \in 0..(N - 1), k \in S PROVE k + 1 \in S
  <2> SUFFICES ASSUME NEW r \in Extended(g[k]) PROVE Simple(r)
    BY <1>3
  <2>1. CASE r \in g[k]
    BY <1>5, <2>1
  <2>2. CASE r \notin g[k]
    <3>0. OneLonger(g[k], r)
      BY <2>2, ExtendedIs
    <3>1. PICK q \in g[k], t \in discovered :
              /\ r = Append(q, t) /\ <<q[Len(q)], t>> \in DOMAIN edges
              /\ \A i \in DOMAIN q : q[i] # t
      BY <3>0 DEF OneLonger
    <3>2. Simple(q) /\ DOMAIN q = 1..Len(q)
      BY <1>5, <3>1, SimpleFacts
    <3> QED
      BY <3>1, <3>2, SimpleAppend
  <2> QED
    BY <2>1, <2>2
<1>6. ASSUME NEW k \in 0..(N - 1), k \in U PROVE k + 1 \in U
  <2> SUFFICES ASSUME NEW r, Simple(r), Len(r) <= k + 1 + 1 PROVE r \in Extended(g[k])
    BY <1>3
  <2>1. CASE Len(r) <= k + 1
    <3>1. r \in g[k]
      BY <1>6, <2>1
    <3> QED
      BY <3>1 DEF Extended
  <2>2. CASE ~(Len(r) <= k + 1)
    <3> DEFINE n == k + 1
               q == SubSeq(r, 1, n)
    <3>1. n \in 1..Len(r) /\ n + 1 = Len(r) /\ n \in Nat /\ n \in 1..n
          /\ n \in 1..(Len(r) - 1) /\ Len(r) \in 1..Len(r)
      BY <2>2, SimpleFacts, <1>1
    <3>2. /\ Simple(q) /\ Len(q) = n /\ \A i \in 1..n : q[i] = r[i]
      BY <3>1, SimplePrefix
    <3> HIDE DEF q
    <3>3. q \in g[k]
      <4>1. Len(q) <= k + 1
        BY <1>1, <3>2
      <4> QED
        BY <1>6, <3>2, <4>1
    <3> HIDE DEF n
    <3> DEFINE t == r[n + 1]
    <3>4. t \in discovered /\ <<q[Len(q)], t>> \in DOMAIN edges
      <4>1. q[Len(q)] = r[n]
        BY <3>1, <3>2
      <4>2. <<r[n], r[n + 1]>> \in DOMAIN edges
        BY <3>1 DEF Simple
      <4> QED
        BY <3>1, <4>1, <4>2, SimpleFacts
    <3>5. \A i \in 1..Len(q) : q[i] # t
      <4>1. \A i \in 1..n : i \in 1..Len(r) /\ n + 1 \in 1..Len(r) /\ i # n + 1
        BY <3>1
      <4> QED
        BY <3>2, <4>1 DEF Simple
    <3>6. r = Append(q, t)
      <4>1. /\ Len(Append(q, t)) = n + 1 /\ Append(q, t)[n + 1] = t
            /\ \A i \in 1..n : Append(q, t)[i] = q[i]
            /\ Append(q, t) \in Seq(discovered)
        BY <3>2, <3>4, <3>5, SimpleAppend DEF Simple
      <4>2. r \in Seq(discovered)
        BY DEF Simple
      <4>3. \A i \in 1..Len(r) : i = n + 1 \/ i \in 1..n
        BY <3>1
      <4>4. \A i \in 1..Len(r) : r[i] = Append(q, t)[i]
        BY <3>2, <4>1, <4>3
      <4> HIDE DEF t
      <4> QED
        BY <3>1, <4>1, <4>2, <4>4, SeqEqual
    <3>7. DOMAIN q = 1..Len(q)
      BY <3>2, SimpleFacts
    <3> HIDE DEF t
    <3>8. OneLonger(g[k], r)
      BY <3>3, <3>4, <3>5, <3>6, <3>7 DEF OneLonger
    <3> QED
      BY <3>8, ExtendedIs
  <2> QED
    BY <2>1, <2>2
<1> HIDE DEF S, U
<1>7. N \in S /\ N \in U
  <2>1. N \in 0..N
    BY <1>1
  <2>2. \A k \in 0..N : k \in S
    BY <1>1, <1>4, <1>5, UpTo
  <2>3. \A k \in 0..N : k \in U
    BY <1>1, <1>4, <1>6, UpTo
  <2> QED
    BY <2>1, <2>2, <2>3
<1>8. ASSUME NEW r, Simple(r) PROVE r \in Routes
  <2>1. Len(r) <= N /\ Len(r) \in Nat
    BY <1>8, SimpleLength, SimpleFacts DEF N
  <2>2. Len(r) <= N + 1
    BY <1>1, <2>1
  <2> QED
    BY <1>2, <1>7, <1>8, <2>2 DEF U
<1>9. \A r \in Routes : Simple(r)
  BY <1>2, <1>7 DEF S
<1> QED
  BY <1>8, <1>9

-----------------------------------------------------------------------------
(* The graph that a complete exploration has found. *)

ExactGraph ==
    /\ IsFiniteSet(discovered) /\ discovered \subseteq State /\ initial \in discovered
    /\ DOMAIN edges \subseteq discovered \X discovered
    /\ goalStates = {s \in discovered : SatisfiedBy(s)}
    /\ \A e \in DOMAIN edges :
          /\ edges[e].name \in Action
          /\ Applicable(edges[e].name, e[1]) /\ Apply(edges[e].name, e[1]) = e[2]
          /\ edges[e].cost = Library[edges[e].name].cost
    /\ \A s \in discovered, a \in Action : Applicable(a, s) =>
          /\ Apply(a, s) \in discovered
          /\ <<s, Apply(a, s)>> \in DOMAIN edges
          /\ ~Cheaper(Library[a].cost, edges[<<s, Apply(a, s)>>].cost)

LEMMA GraphIsExact ==
    ASSUME Inv, call = "plan", Explored, ~truncated
    PROVE  ExactGraph
<1>1. /\ initial \in State /\ discovered = Reachable(initial)
      /\ \A s \in discovered : Tried(s) = DOMAIN Actions
  BY ClosedWhenExplored DEF Inv, ExplorationOK
<1>2. IsFiniteSet(discovered) /\ discovered \subseteq State /\ initial \in discovered
  BY <1>1, ReachableClosed, FiniteStates
<1>3. DOMAIN edges \subseteq discovered \X discovered
  <2>1. DOMAIN edges \subseteq State \X State
    BY DEF Inv, ExplorationOK
  <2> QED
    BY <2>1 DEF Inv, GraphIsConsistent
<1>4. goalStates = {s \in discovered : SatisfiedBy(s)}
  BY DEF Inv, GraphIsConsistent, Satisfying
<1>5. \A e \in DOMAIN edges :
         \E i \in Connecting(e[1], e[2]) :
            /\ IsBest(i, Connecting(e[1], e[2]))
            /\ edges[e] = [cost |-> CostAt(i), name |-> Actions[i]]
  BY InvExact DEF ExplorationIsExact
<1>6. \A i \in DOMAIN Actions : Actions[i] \in Action
  <2>1. Actions \in Seq(Action)
    BY ActionsAssumption
  <2>2. Actions \in [1..Len(Actions) -> Action] /\ DOMAIN Actions = 1..Len(Actions)
    BY <2>1, LenProperties
  <2> QED
    BY <2>2
<1>7. ASSUME NEW e \in DOMAIN edges
      PROVE  /\ edges[e].name \in Action
             /\ Applicable(edges[e].name, e[1]) /\ Apply(edges[e].name, e[1]) = e[2]
             /\ edges[e].cost = Library[edges[e].name].cost
  <2>1. PICK i \in Connecting(e[1], e[2]) : edges[e] = [cost |-> CostAt(i), name |-> Actions[i]]
    BY <1>5
  <2> QED
    BY <1>6, <2>1 DEF Connecting, CostAt
<1>8. ASSUME NEW s \in discovered, NEW a \in Action, Applicable(a, s)
      PROVE  /\ Apply(a, s) \in discovered
             /\ <<s, Apply(a, s)>> \in DOMAIN edges
             /\ ~Cheaper(Library[a].cost, edges[<<s, Apply(a, s)>>].cost)
  <2> DEFINE t == Apply(a, s)
             e == <<s, t>>
  <2>1. t \in discovered
    BY <1>1, <1>8, ReachableClosed
  <2>2. PICK j \in DOMAIN Actions : Actions[j] = a
    BY ActionsAssumption
  <2>3. j \in Connecting(s, t) /\ CostAt(j) = Library[a].cost
    BY <1>8, <2>2 DEF Connecting, CostAt
  <2>4. e \in DOMAIN edges
    BY <1>1, <1>8, <2>2 DEF Inv, EdgesOK
  <2>5. e[1] = s /\ e[2] = t
    OBVIOUS
  <2> HIDE DEF t, e
  <2>6. PICK i \in Connecting(s, t) :
            IsBest(i, Connecting(s, t)) /\ edges[e] = [cost |-> CostAt(i), name |-> Actions[i]]
    BY <1>5, <2>4, <2>5
  <2>7. edges[e].cost = CostAt(i) /\ ~Cheaper(CostAt(j), CostAt(i))
    BY <2>3, <2>6 DEF IsBest
  <2> QED
    BY <2>1, <2>3, <2>4, <2>7 DEF t, e
<1> QED
  BY <1>2, <1>3, <1>4, <1>7, <1>8 DEF ExactGraph

(* Where grafo accepts every edge, each is no dearer than what has a price. *)
PricedGraph == ExactGraph /\ Accepted

LEMMA NoDearer ==
    ASSUME PricedGraph, NEW s \in discovered, NEW a \in Priced, Applicable(a, s)
    PROVE  edges[<<s, Apply(a, s)>>].cost <= Library[a].cost
<1> DEFINE c == edges[<<s, Apply(a, s)>>].cost
           d == Library[a].cost
<1>1. a \in Action /\ d \in Payable
  BY DEF Priced
<1>2. c \in Payable /\ ~Cheaper(d, c)
  BY <1>1 DEF PricedGraph, ExactGraph, Accepted
<1> HIDE DEF c, d
<1>3. c <= d
  BY <1>1, <1>2, LibraryAssumption DEF Payable, Cheaper
<1> QED
  BY <1>3 DEF c, d

LEMMA PricedCost ==
    ASSUME NEW a \in Priced
    PROVE  a \in Action /\ Library[a].cost \in Nat
  BY LibraryAssumption DEF Priced, Payable

-----------------------------------------------------------------------------
(* What a route costs. *)

Weights(r) == [i \in 1..(Len(r) - 1) |-> edges[<<r[i], r[i + 1]>>].cost]

LEMMA EdgeCost ==
    ASSUME PricedGraph, NEW e \in DOMAIN edges
    PROVE  edges[e].cost \in Nat
  BY LibraryAssumption DEF PricedGraph, Accepted, Payable

LEMMA WeightsType ==
    ASSUME PricedGraph, NEW r, Simple(r)
    PROVE  /\ RouteCost(r) = Total(Weights(r), Len(r) - 1)
           /\ Len(r) - 1 \in Nat
           /\ \A i \in 1..(Len(r) - 1) : /\ Weights(r)[i] = edges[<<r[i], r[i + 1]>>].cost
                                         /\ Weights(r)[i] \in Nat
           /\ RouteCost(r) \in Nat
           /\ \A m \in 0..(Len(r) - 1) : /\ Total(Weights(r), m) \in Nat
                                         /\ Total(Weights(r), m) <= RouteCost(r)
<1> DEFINE n == Len(r) - 1
<1>1. n \in Nat
  <2>1. Len(r) \in Nat \ {0}
    BY SimpleFacts
  <2> QED
    BY <2>1
<1>2. RouteCost(r) = Total(Weights(r), n)
  BY DEF RouteCost, Weights
<1>3. \A i \in 1..n : Weights(r)[i] = edges[<<r[i], r[i + 1]>>].cost
  BY DEF Weights
<1>4. \A i \in 1..n : <<r[i], r[i + 1]>> \in DOMAIN edges
  BY DEF Simple
<1>5. \A i \in 1..n : Weights(r)[i] \in Nat
  BY <1>3, <1>4, EdgeCost
<1> HIDE DEF n
<1>6. \A m \in 0..n : Total(Weights(r), m) \in Nat /\ Total(Weights(r), m) <= Total(Weights(r), n)
  BY <1>1, <1>5, TotalType
<1>7. n \in 0..n
  BY <1>1
<1> QED
  BY <1>1, <1>2, <1>3, <1>5, <1>6, <1>7 DEF n

LEMMA StartCost ==
    RouteCost(<<initial>>) = 0
<1>1. Len(<<initial>>) - 1 = 0
  OBVIOUS
<1> QED
  BY <1>1, TotalStep DEF RouteCost

LEMMA AppendCost ==
    ASSUME PricedGraph, NEW q, Simple(q), NEW t \in discovered, <<q[Len(q)], t>> \in DOMAIN edges,
           \A i \in 1..Len(q) : q[i] # t
    PROVE  RouteCost(Append(q, t)) = RouteCost(q) + edges[<<q[Len(q)], t>>].cost
<1> DEFINE r == Append(q, t)
           n == Len(q) - 1
<1>1. /\ Simple(r) /\ Len(r) = Len(q) + 1 /\ r[Len(q) + 1] = t
      /\ \A i \in 1..Len(q) : r[i] = q[i]
  BY SimpleAppend
<1> HIDE DEF r
<1>2. n \in Nat /\ n + 1 = Len(q) /\ n + 1 = Len(r) - 1 /\ n + 1 \in 1..(n + 1)
  BY <1>1, WeightsType
<1>3. RouteCost(r) = Total(Weights(r), n + 1) /\ RouteCost(q) = Total(Weights(q), n)
  BY <1>1, <1>2, WeightsType
<1>4. Total(Weights(r), n + 1) = Total(Weights(r), n) + Weights(r)[n + 1]
  BY <1>2, TotalStep
<1>5. Weights(r)[n + 1] = edges[<<q[Len(q)], t>>].cost
  <2>1. Weights(r)[n + 1] = edges[<<r[n + 1], r[n + 1 + 1]>>].cost
    BY <1>1, <1>2, WeightsType
  <2>2. n + 1 \in 1..Len(q)
    BY <1>2
  <2>3. r[n + 1] = q[Len(q)] /\ r[n + 1 + 1] = t
    BY <1>1, <1>2, <2>2
  <2> QED
    BY <2>1, <2>3
<1>6. \A i \in 1..n : Weights(r)[i] = Weights(q)[i]
  <2>1. ASSUME NEW i \in 1..n PROVE Weights(r)[i] = Weights(q)[i]
    <3>1. i \in 1..Len(q) /\ i + 1 \in 1..Len(q) /\ i \in 1..(Len(r) - 1)
      BY <1>2
    <3>2. r[i] = q[i] /\ r[i + 1] = q[i + 1]
      BY <1>1, <3>1
    <3>3. Weights(r)[i] = edges[<<r[i], r[i + 1]>>].cost /\ Weights(q)[i] = edges[<<q[i], q[i + 1]>>].cost
      BY <1>1, <3>1, WeightsType
    <3> QED
      BY <3>2, <3>3
  <2> QED
    BY <2>1
<1>7. Total(Weights(r), n) = Total(Weights(q), n)
  <2> HIDE DEF n
  <2> QED
    BY <1>2, <1>6, TotalSame
<1> QED
  BY <1>3, <1>4, <1>5, <1>7 DEF r

LEMMA PrefixCost ==
    ASSUME PricedGraph, NEW r, Simple(r), NEW m \in 1..Len(r)
    PROVE  RouteCost(SubSeq(r, 1, m)) <= RouteCost(r)
<1> DEFINE q == SubSeq(r, 1, m)
           n == m - 1
<1>1. Simple(q) /\ Len(q) = m /\ \A i \in 1..m : q[i] = r[i]
  BY SimplePrefix
<1> HIDE DEF q
<1>2. Len(r) \in Nat /\ n \in Nat /\ n \in 0..(Len(r) - 1) /\ n = Len(q) - 1
  <2>1. Len(r) \in Nat \ {0}
    BY SimpleFacts
  <2> QED
    BY <1>1, <2>1
<1>3. \A i \in 1..n : Weights(q)[i] = Weights(r)[i]
  <2>1. ASSUME NEW i \in 1..n PROVE Weights(q)[i] = Weights(r)[i]
    <3>1. i \in 1..m /\ i + 1 \in 1..m /\ i \in 1..(Len(r) - 1) /\ i \in 1..(Len(q) - 1)
      BY <1>2
    <3>2. r[i] = q[i] /\ r[i + 1] = q[i + 1]
      BY <1>1, <3>1
    <3>3. Weights(r)[i] = edges[<<r[i], r[i + 1]>>].cost /\ Weights(q)[i] = edges[<<q[i], q[i + 1]>>].cost
      BY <1>1, <3>1, WeightsType
    <3> QED
      BY <3>2, <3>3
  <2> QED
    BY <2>1
<1>4. Total(Weights(q), n) = Total(Weights(r), n)
  <2> HIDE DEF n
  <2> QED
    BY <1>2, <1>3, TotalSame
<1>5. RouteCost(q) = Total(Weights(q), n)
  BY <1>1, <1>2, WeightsType
<1>6. Total(Weights(r), n) <= RouteCost(r)
  BY <1>2, WeightsType
<1> QED
  BY <1>4, <1>5, <1>6 DEF q

-----------------------------------------------------------------------------
(* Some route leads to v for at most d. *)
Near(v, d) == \E r : Simple(r) /\ r[Len(r)] = v /\ RouteCost(r) <= d

LEMMA NearStart ==
    ASSUME PricedGraph
    PROVE  Near(initial, 0)
<1>1. initial \in discovered
  BY DEF PricedGraph, ExactGraph
<1>2. Simple(<<initial>>) /\ Len(<<initial>>) = 1
  BY <1>1, SimpleStart
<1>3. <<initial>>[Len(<<initial>>)] = initial
  BY <1>2
<1> QED
  BY <1>2, <1>3, StartCost DEF Near

(* A cheapest route grows by an edge, or a part of it is a route already. *)
LEMMA NearStep ==
    ASSUME PricedGraph, NEW e \in DOMAIN edges, NEW d \in Nat, Near(e[1], d)
    PROVE  Near(e[2], d + edges[e].cost)
<1>1. e[1] \in discovered /\ e[2] \in discovered /\ e = <<e[1], e[2]>>
  BY DEF PricedGraph, ExactGraph
<1> DEFINE t == e[2]
           c == edges[e].cost
<1>2. PICK q : Simple(q) /\ q[Len(q)] = e[1] /\ RouteCost(q) <= d
  BY DEF Near
<1>3. c \in Nat /\ RouteCost(q) \in Nat
  BY <1>2, EdgeCost, WeightsType
<1>4. CASE \A i \in 1..Len(q) : q[i] # t
  <2>1. <<q[Len(q)], t>> = e
    BY <1>1, <1>2
  <2>2. Simple(Append(q, t)) /\ Append(q, t)[Len(q) + 1] = t /\ Len(Append(q, t)) = Len(q) + 1
    BY <1>1, <1>2, <1>4, <2>1, SimpleAppend
  <2>3. RouteCost(Append(q, t)) = RouteCost(q) + c
    BY <1>1, <1>2, <1>4, <2>1, AppendCost
  <2> HIDE DEF t, c
  <2>4. RouteCost(Append(q, t)) <= d + c
    BY <1>2, <1>3, <2>3
  <2>5. Near(t, d + c)
    BY <2>2, <2>4 DEF Near
  <2> QED
    BY <2>5 DEF t, c
<1>5. CASE ~(\A i \in 1..Len(q) : q[i] # t)
  <2>1. PICK m \in 1..Len(q) : q[m] = t
    BY <1>5
  <2> DEFINE p == SubSeq(q, 1, m)
  <2>2. /\ Simple(p) /\ Len(p) = m /\ \A i \in 1..m : p[i] = q[i]
        /\ RouteCost(p) <= RouteCost(q) /\ RouteCost(p) \in Nat
    <3>1. Simple(p) /\ Len(p) = m /\ \A i \in 1..m : p[i] = q[i]
      BY <1>2, SimplePrefix
    <3> QED
      BY <3>1, <1>2, PrefixCost, WeightsType
  <2> HIDE DEF p, t, c
  <2>3. m \in 1..m
    BY <2>1
  <2>4. p[Len(p)] = t /\ RouteCost(p) <= d + c
    BY <1>2, <1>3, <2>1, <2>2, <2>3
  <2>5. Near(t, d + c)
    BY <2>2, <2>4 DEF Near
  <2> QED
    BY <2>5 DEF t, c
<1> QED
  BY <1>4, <1>5

-----------------------------------------------------------------------------
(* Plans of the planning problem.                                          *)

(* x is a plan of P with one more action before it. *)
OnePreceded(P, x) ==
    \E a \in Priced : \E p \in P : \E s \in State :
        Applicable(a, s) /\ Apply(a, s) = p[1] /\ x = <<s, Library[a].cost + p[2]>>

LEMMA LengthenIs ==
    ASSUME NEW P, NEW x
    PROVE  x \in Lengthen(P) <=> x \in P \/ OnePreceded(P, x)
<1> DEFINE Before(a, p) == {t \in State : Applicable(a, t) /\ Apply(a, t) = p[1]}
           Longer(a, p) == {<<s, Library[a].cost + p[2]>> : s \in Before(a, p)}
<1>1. Lengthen(P) = P \cup UNION {Longer(a, p) : a \in Priced, p \in P}
  BY DEF Lengthen
<1>2. ASSUME NEW a, NEW p
      PROVE  x \in Longer(a, p) <=>
                \E s \in State : /\ Applicable(a, s) /\ Apply(a, s) = p[1]
                                 /\ x = <<s, Library[a].cost + p[2]>>
  OBVIOUS
<1> HIDE DEF Longer
<1> QED
  BY <1>1, <1>2 DEF OnePreceded

GoalPlans == {<<s, 0>> : s \in {t \in State : SatisfiedBy(t)}}

LEMMA PlansChain ==
    \E g \in [0..Cardinality(State) -> SUBSET (State \X Nat)] :
        /\ g[0] = GoalPlans /\ \A k \in 1..Cardinality(State) : g[k] = Lengthen(g[k - 1])
        /\ Plans = g[Cardinality(State)]
<1> DEFINE T == SUBSET (State \X Nat)
           N == Cardinality(State)
           F == [P \in T |-> Lengthen(P)]
<1>1. N \in Nat
  BY FiniteStates
<1>2. ASSUME NEW P \in T PROVE Lengthen(P) \in T
  <2>1. ASSUME NEW x \in Lengthen(P) PROVE x \in State \X Nat
    <3>1. CASE x \in P
      BY <3>1
    <3>2. CASE OnePreceded(P, x)
      <4>1. PICK a \in Priced, p \in P, s \in State : x = <<s, Library[a].cost + p[2]>>
        BY <3>2 DEF OnePreceded
      <4>2. Library[a].cost \in Nat /\ p[2] \in Nat
        BY <4>1, PricedCost
      <4> QED
        BY <4>1, <4>2
    <3> QED
      BY <2>1, <3>1, <3>2, LengthenIs
  <2> QED
    BY <2>1
<1>3. \A P \in T : Lengthen(P) \in T
  BY <1>2
<1>4. GoalPlans \in T
  BY DEF GoalPlans
<1>5. F \in [T -> T] /\ \A P \in T : F[P] = Lengthen(P)
  BY <1>3
<1> HIDE DEF T, F, N
<1>6. PICK g : IsIteration(N, T, GoalPlans, F, g)
  BY <1>1, <1>4, <1>5, Iterates
<1>7. g \in [0..N -> T] /\ g[0] = GoalPlans /\ \A k \in 1..N : g[k] = F[g[k - 1]]
  BY <1>6 DEF IsIteration
<1>8. \A k \in 1..N : g[k] = Lengthen(g[k - 1])
  BY <1>1, <1>5, <1>7
<1>9. g = [k \in 0..N |-> IF k = 0 THEN GoalPlans ELSE Lengthen(g[k - 1])]
  BY <1>1, <1>7, <1>8
<1> DEFINE w == CHOOSE w : w = [k \in 0..N |-> IF k = 0 THEN GoalPlans ELSE Lengthen(w[k - 1])]
<1>10. w = [k \in 0..N |-> IF k = 0 THEN GoalPlans ELSE Lengthen(w[k - 1])]
  BY <1>9
<1>11. Plans = w[N]
  BY DEF Plans, N, GoalPlans
<1> HIDE DEF w
<1>12. w[0] = GoalPlans /\ \A k \in 1..N : w[k] = Lengthen(w[k - 1])
  <2>1. 0 \in 0..N /\ \A k \in 1..N : k \in 0..N /\ k # 0
    BY <1>1
  <2>2. \A k \in 0..N : w[k] = IF k = 0 THEN GoalPlans ELSE Lengthen(w[k - 1])
    BY <1>10, Zenon
  <2> QED
    BY <2>1, <2>2
<1>13. w \in [0..N -> T]
  <2> DEFINE U == {k \in 0..N : w[k] \in T}
  <2>1. 0 \in U
    BY <1>1, <1>4, <1>12
  <2>2. ASSUME NEW k \in 0..(N - 1), k \in U PROVE k + 1 \in U
    <3>1. k + 1 \in 0..N /\ k + 1 \in 1..N /\ (k + 1) - 1 = k
      BY <1>1
    <3>2. w[k + 1] = Lengthen(w[k])
      BY <1>12, <3>1
    <3> QED
      BY <2>2, <3>1, <3>2, <1>3
  <2> HIDE DEF U
  <2>3. \A k \in 0..N : k \in U
    BY <1>1, <2>1, <2>2, UpTo
  <2>4. \A k \in 0..N : w[k] \in T
    BY <2>3 DEF U
  <2> QED
    BY <1>10, <2>4
<1> QED
  BY <1>11, <1>12, <1>13 DEF N, T

(* Every plan that starts where a route leads has a goal state in its      *)
(* reach: no plan is cheaper than the cheapest route to a goal state.      *)
Bounded(x) ==
    \A d \in Nat : x[1] \in discovered /\ Near(x[1], d) =>
        \E t \in goalStates : Near(t, d + x[2])

LEMMA PlansAreBounded ==
    ASSUME PricedGraph
    PROVE  \A x \in Plans : Bounded(x)
<1> DEFINE N == Cardinality(State)
<1>1. N \in Nat
  BY FiniteStates
<1>2. PICK g \in [0..N -> SUBSET (State \X Nat)] :
          /\ g[0] = GoalPlans /\ \A k \in 1..N : g[k] = Lengthen(g[k - 1])
          /\ Plans = g[N]
  BY PlansChain
<1> HIDE DEF N
<1> DEFINE S == {k \in 0..N : \A x \in g[k] : Bounded(x)}
<1>3. 0 \in S
  <2>1. ASSUME NEW x \in GoalPlans PROVE Bounded(x)
    <3>1. PICK s \in State : SatisfiedBy(s) /\ x = <<s, 0>>
      BY DEF GoalPlans
    <3>2. s \in discovered => s \in goalStates
      BY <3>1 DEF PricedGraph, ExactGraph
    <3>3. x[1] = s /\ \A d \in Nat : d + x[2] = d
      BY <3>1
    <3> QED
      BY <3>2, <3>3 DEF Bounded
  <2>2. 0 \in 0..N
    BY <1>1
  <2> QED
    BY <1>2, <2>1, <2>2
<1>4. ASSUME NEW k \in 0..(N - 1), k \in S PROVE k + 1 \in S
  <2>1. k + 1 \in 1..N /\ k + 1 \in 0..N /\ k \in 0..N /\ (k + 1) - 1 = k
    BY <1>1
  <2>2. g[k + 1] = Lengthen(g[k]) /\ g[k] \in SUBSET (State \X Nat)
    BY <1>2, <2>1
  <2>3. ASSUME NEW x \in Lengthen(g[k]) PROVE Bounded(x)
    <3>1. CASE x \in g[k]
      BY <1>4, <3>1
    <3>2. CASE OnePreceded(g[k], x)
      <4>1. PICK a \in Priced, p \in g[k], s \in State :
                Applicable(a, s) /\ Apply(a, s) = p[1] /\ x = <<s, Library[a].cost + p[2]>>
        BY <3>2 DEF OnePreceded
      <4>2. Bounded(p) /\ p[2] \in Nat /\ Library[a].cost \in Nat
        BY <1>4, <2>2, <4>1, PricedCost
      <4>3. ASSUME NEW d \in Nat, s \in discovered, Near(s, d)
            PROVE  \E t \in goalStates : Near(t, d + x[2])
        <5> DEFINE e == <<s, p[1]>>
        <5>1. e \in DOMAIN edges /\ p[1] \in discovered /\ edges[e].cost <= Library[a].cost
          BY <4>1, <4>3, NoDearer, PricedCost DEF PricedGraph, ExactGraph
        <5>2. e[1] = s /\ e[2] = p[1]
          OBVIOUS
        <5> HIDE DEF e
        <5>3. edges[e].cost \in Nat
          BY <5>1, EdgeCost
        <5>4. Near(p[1], d + edges[e].cost)
          BY <4>3, <5>1, <5>2, NearStep
        <5>5. d + edges[e].cost \in Nat
          BY <5>3
        <5>6. PICK t \in goalStates : Near(t, d + edges[e].cost + p[2])
          BY <4>2, <5>1, <5>4, <5>5 DEF Bounded
        <5>7. d + edges[e].cost + p[2] <= d + x[2] /\ d + edges[e].cost + p[2] \in Nat
              /\ d + x[2] \in Nat
          <6> DEFINE c == edges[e].cost
                     w == Library[a].cost
          <6>1. c \in Nat /\ w \in Nat /\ c <= w /\ p[2] \in Nat /\ x[2] = w + p[2]
            BY <4>1, <4>2, <5>1, <5>3
          <6> HIDE DEF c, w
          <6>2. d + c + p[2] <= d + x[2] /\ d + c + p[2] \in Nat /\ d + x[2] \in Nat
            BY <6>1
          <6> QED
            BY <6>2 DEF c
        <5>8. Near(t, d + x[2])
          <6>1. PICK r : Simple(r) /\ r[Len(r)] = t /\ RouteCost(r) <= d + edges[e].cost + p[2]
            BY <5>6 DEF Near
          <6>2. RouteCost(r) \in Nat
            BY <6>1, WeightsType
          <6>3. RouteCost(r) <= d + x[2]
            BY <5>7, <6>1, <6>2
          <6> QED
            BY <6>1, <6>3 DEF Near
        <5> QED
          BY <5>8
      <4>4. x[1] = s
        BY <4>1
      <4> QED
        BY <4>3, <4>4 DEF Bounded
    <3> QED
      BY <2>3, <3>1, <3>2, LengthenIs
  <2> QED
    BY <2>1, <2>2, <2>3
<1> HIDE DEF S
<1>5. N \in S
  <2>1. N \in 0..N
    BY <1>1
  <2>2. \A k \in 0..N : k \in S
    BY <1>1, <1>3, <1>4, UpTo
  <2> QED
    BY <2>1, <2>2
<1> QED
  BY <1>2, <1>5 DEF S

(* From each state of a route to a goal state the rest of it is a plan. *)
LEMMA RestsArePlans ==
    ASSUME PricedGraph, NEW r, Simple(r), r[Len(r)] \in goalStates
    PROVE  \A j \in 0..(Len(r) - 1) :
              <<r[Len(r) - j], RouteCost(r) - Total(Weights(r), Len(r) - 1 - j)>> \in Plans
<1> DEFINE N == Cardinality(State)
           n == Len(r) - 1
           rest(j) == <<r[n + 1 - j], RouteCost(r) - Total(Weights(r), n - j)>>
<1>1. /\ N \in Nat /\ n \in Nat /\ Len(r) = n + 1 /\ n <= N
  <2>1. IsFiniteSet(State) /\ N \in Nat
    BY FiniteStates
  <2>2. IsFiniteSet(discovered) /\ discovered \in SUBSET State
    BY DEF PricedGraph, ExactGraph
  <2>3. Cardinality(discovered) <= N /\ Cardinality(discovered) \in Nat
    BY <2>1, <2>2, FS_Subset, FS_CardinalityType
  <2>4. Len(r) <= Cardinality(discovered) /\ Len(r) \in Nat \ {0}
    BY <2>2, SimpleLength, SimpleFacts
  <2> HIDE DEF N
  <2> QED
    BY <2>1, <2>3, <2>4
<1>2. PICK g \in [0..N -> SUBSET (State \X Nat)] :
          /\ g[0] = GoalPlans /\ \A k \in 1..N : g[k] = Lengthen(g[k - 1])
          /\ Plans = g[N]
  BY PlansChain
<1>3. /\ \A i \in 1..n : /\ Weights(r)[i] = edges[<<r[i], r[i + 1]>>].cost
                         /\ Weights(r)[i] \in Nat
      /\ \A m \in 0..n : Total(Weights(r), m) \in Nat
      /\ RouteCost(r) \in Nat /\ RouteCost(r) = Total(Weights(r), n)
  BY WeightsType
<1> HIDE DEF N, n
<1> DEFINE S == {k \in 0..N : \A j \in 0..n : j <= k => rest(j) \in g[k]}
<1>4. 0 \in S
  <2>1. rest(0) \in GoalPlans
    <3>1. r[n + 1] \in State /\ SatisfiedBy(r[n + 1])
      BY <1>1 DEF PricedGraph, ExactGraph
    <3>2. rest(0) = <<r[n + 1], 0>>
      <4>1. n + 1 - 0 = n + 1 /\ n - 0 = n
        BY <1>1
      <4>2. RouteCost(r) - Total(Weights(r), n) = 0
        BY <1>3
      <4> QED
        BY <4>1, <4>2
    <3> QED
      BY <3>1, <3>2 DEF GoalPlans
  <2>2. 0 \in 0..N /\ \A j \in 0..n : j <= 0 => j = 0
    BY <1>1
  <2> HIDE DEF rest
  <2> QED
    BY <1>2, <2>1, <2>2
<1>5. ASSUME NEW k \in 0..(N - 1), k \in S PROVE k + 1 \in S
  <2>1. k + 1 \in 1..N /\ k + 1 \in 0..N /\ k \in 0..N /\ (k + 1) - 1 = k
    BY <1>1
  <2>2. g[k + 1] = Lengthen(g[k]) /\ g[k] \in SUBSET (State \X Nat)
    BY <1>2, <2>1
  <2>3. ASSUME NEW j \in 0..n, j <= k + 1 PROVE rest(j) \in Lengthen(g[k])
    <3>1. CASE j <= k
      <4>1. rest(j) \in g[k]
        BY <1>5, <3>1
      <4> HIDE DEF rest
      <4> QED
        BY <4>1, LengthenIs
    <3>2. CASE ~(j <= k)
      <4> DEFINE i == n + 1 - j
                 p == rest(k)
                 s == r[i]
      <4>1. /\ j = k + 1 /\ k \in 0..n /\ k <= k /\ i \in 1..n /\ i + 1 = n + 1 - k
            /\ i = n - k /\ i - 1 = n - j /\ i - 1 \in Nat /\ i - 1 + 1 = i /\ i \in 0..n
            /\ i - 1 \in 0..n
        BY <1>1, <2>1, <2>3, <3>2
      <4>2. p \in g[k]
        BY <1>5, <4>1
      <4>3. p[1] = r[i + 1] /\ p[2] = RouteCost(r) - Total(Weights(r), i)
        BY <4>1
      <4>4. rest(j) = <<s, RouteCost(r) - Total(Weights(r), i - 1)>>
        BY <4>1
      <4> HIDE DEF p, rest, i
      <4> DEFINE e == <<s, r[i + 1]>>
                 a == edges[e].name
      <4>5. e \in DOMAIN edges /\ e[1] = s /\ e[2] = r[i + 1]
        BY <1>1, <4>1 DEF Simple
      <4>6. /\ a \in Action /\ Applicable(a, s) /\ Apply(a, s) = r[i + 1]
            /\ Library[a].cost = edges[e].cost
        <5> HIDE DEF e, s
        <5> QED
          BY <4>5 DEF PricedGraph, ExactGraph
      <4>7. s \in State
        BY <4>5 DEF PricedGraph, ExactGraph
      <4>8. Total(Weights(r), i) = Total(Weights(r), i - 1) + Weights(r)[i]
        BY <4>1, TotalStep
      <4>9. Weights(r)[i] = Library[a].cost /\ Weights(r)[i] \in Nat
        BY <1>3, <4>1, <4>6
      <4>10. Library[a].cost + p[2] = RouteCost(r) - Total(Weights(r), i - 1)
        <5>1. Total(Weights(r), i) \in Nat /\ Total(Weights(r), i - 1) \in Nat /\ RouteCost(r) \in Nat
          BY <1>3, <4>1
        <5> DEFINE all == RouteCost(r)
                   upTo == Total(Weights(r), i)
                   before == Total(Weights(r), i - 1)
                   cost == Library[a].cost
        <5>2. /\ all \in Nat /\ upTo \in Nat /\ before \in Nat /\ cost \in Nat
              /\ p[2] = all - upTo /\ upTo = before + cost
          BY <4>3, <4>8, <4>9, <5>1
        <5> HIDE DEF all, upTo, before, cost
        <5>3. cost + p[2] = all - before
          BY <5>2
        <5> QED
          BY <5>3 DEF all, before, cost
      <4>12. a \in Priced
        <5> HIDE DEF e, s
        <5> QED
          BY <4>5, <4>6 DEF PricedGraph, ExactGraph, Accepted, Priced
      <4>11. OnePreceded(g[k], rest(j))
        <5> HIDE DEF s, a, e
        <5> QED
          BY <4>2, <4>3, <4>4, <4>6, <4>7, <4>10, <4>12 DEF OnePreceded
      <4> QED
        BY <4>11, LengthenIs
    <3> QED
      BY <3>1, <3>2
  <2> HIDE DEF rest
  <2> QED
    BY <2>1, <2>2, <2>3
<1> HIDE DEF S
<1>6. N \in S
  <2>1. N \in 0..N
    BY <1>1
  <2>2. \A k \in 0..N : k \in S
    BY <1>1, <1>4, <1>5, UpTo
  <2> QED
    BY <2>1, <2>2
<1>7. \A j \in 0..n : rest(j) \in Plans
  <2> HIDE DEF rest
  <2>1. \A j \in 0..n : j <= N
    BY <1>1
  <2> QED
    BY <1>2, <1>6, <2>1 DEF S
<1>8. \A j \in 0..n : rest(j) = <<r[Len(r) - j], RouteCost(r) - Total(Weights(r), Len(r) - 1 - j)>>
  BY <1>1
<1> QED
  BY <1>7, <1>8 DEF n

-----------------------------------------------------------------------------
(* What a plan passes through.                                             *)

LEMMA PassingIs ==
    ASSUME NEW steps, Len(steps) \in Nat, NEW g,
           g = [i \in 0..Len(steps) |-> IF i = 0 THEN initial ELSE Apply(steps[i], g[i - 1])]
    PROVE  \A i \in 0..Len(steps) : Passing(steps)[i] = g[i]
<1> DEFINE n == Len(steps)
           w == CHOOSE w : w = [i \in 0..n |-> IF i = 0 THEN initial ELSE Apply(steps[i], w[i - 1])]
<1>1. w = [i \in 0..n |-> IF i = 0 THEN initial ELSE Apply(steps[i], w[i - 1])]
  OBVIOUS
<1>2. Passing(steps) = w
  BY DEF Passing
<1> HIDE DEF w, n
<1>3. n \in Nat
  BY DEF n
<1>4. /\ \A k \in 0..n : w[k] = IF k = 0 THEN initial ELSE Apply(steps[k], w[k - 1])
      /\ \A k \in 0..n : g[k] = IF k = 0 THEN initial ELSE Apply(steps[k], g[k - 1])
  BY <1>1, Zenon DEF n
<1> DEFINE S == {k \in 0..n : w[k] = g[k]}
<1>5. 0 \in S
  BY <1>3, <1>4
<1>6. ASSUME NEW k \in 0..(n - 1), k \in S PROVE k + 1 \in S
  <2>1. k + 1 \in 0..n /\ k + 1 # 0 /\ (k + 1) - 1 = k
    BY <1>3
  <2>2. w[k + 1] = Apply(steps[k + 1], w[k]) /\ g[k + 1] = Apply(steps[k + 1], g[k])
    BY <1>4, <2>1
  <2> QED
    BY <1>6, <2>1, <2>2
<1> HIDE DEF S
<1>7. \A k \in 0..n : k \in S
  BY <1>3, <1>5, <1>6, UpTo
<1> QED
  BY <1>2, <1>7 DEF S, n

IsPassed(steps, n, g) ==
    g = [i \in 0..n |-> IF i = 0 THEN initial ELSE Apply(steps[i], g[i - 1])]

LEMMA PassedExists ==
    ASSUME NEW steps, NEW n \in Nat
    PROVE  \E g : IsPassed(steps, n, g)
<1> DEFINE S == {m \in Nat : \E g : IsPassed(steps, m, g)}
<1>1. 0 \in S
  <2>1. IsPassed(steps, 0, [i \in 0..0 |-> initial])
    BY DEF IsPassed
  <2> QED
    BY <2>1
<1>2. ASSUME NEW m \in S PROVE m + 1 \in S
  <2>1. PICK g : IsPassed(steps, m, g)
    OBVIOUS
  <2> DEFINE h == [i \in 0..(m + 1) |-> IF i = m + 1 THEN Apply(steps[m + 1], g[m]) ELSE g[i]]
  <2>2. IsPassed(steps, m + 1, h)
    BY <2>1 DEF IsPassed
  <2> HIDE DEF h
  <2> QED
    BY <2>2
<1> HIDE DEF S
<1>3. S = Nat
  BY <1>1, <1>2, NatSet DEF S
<1> QED
  BY <1>3 DEF S

LEMMA PassingStep ==
    ASSUME NEW steps \in Seq(Action)
    PROVE  /\ Passing(steps)[0] = initial
           /\ \A i \in 1..Len(steps) : Passing(steps)[i] = Apply(steps[i], Passing(steps)[i - 1])
<1> DEFINE n == Len(steps)
<1>1. n \in Nat
  OBVIOUS
<1>2. PICK g : IsPassed(steps, n, g)
  BY <1>1, PassedExists
<1>3. g = [i \in 0..n |-> IF i = 0 THEN initial ELSE Apply(steps[i], g[i - 1])]
  BY <1>2 DEF IsPassed
<1>4. \A i \in 0..n : g[i] = IF i = 0 THEN initial ELSE Apply(steps[i], g[i - 1])
  BY <1>3, Zenon
<1>5. \A i \in 0..n : Passing(steps)[i] = g[i]
  BY <1>1, <1>3, PassingIs
<1> HIDE DEF n
<1>6. 0 \in 0..n /\ \A i \in 1..n : i \in 0..n /\ i # 0 /\ i - 1 \in 0..n
  BY <1>1
<1> QED
  BY <1>4, <1>5, <1>6 DEF n

(* More may be spent. *)
LEMMA NearMore ==
    ASSUME NEW v, NEW c \in Nat, NEW d \in Nat, c <= d, PricedGraph, Near(v, c)
    PROVE  Near(v, d)
<1>1. PICK r : Simple(r) /\ r[Len(r)] = v /\ RouteCost(r) <= c
  BY DEF Near
<1>2. RouteCost(r) \in Nat
  BY <1>1, WeightsType
<1>3. RouteCost(r) <= d
  BY <1>1, <1>2
<1> QED
  BY <1>1, <1>3 DEF Near

-----------------------------------------------------------------------------
(* The cheapest plans.                                                     *)

LEMMA PlansType ==
    Plans \subseteq State \X Nat /\ GoalPlans \subseteq Plans
<1> DEFINE N == Cardinality(State)
<1>1. N \in Nat
  BY FiniteStates
<1>2. PICK g \in [0..N -> SUBSET (State \X Nat)] :
          /\ g[0] = GoalPlans /\ \A k \in 1..N : g[k] = Lengthen(g[k - 1])
          /\ Plans = g[N]
  BY PlansChain
<1> HIDE DEF N
<1> DEFINE S == {k \in 0..N : GoalPlans \subseteq g[k]}
<1>3. 0 \in S
  BY <1>1, <1>2
<1>4. ASSUME NEW k \in 0..(N - 1), k \in S PROVE k + 1 \in S
  <2>1. k + 1 \in 1..N /\ k + 1 \in 0..N /\ (k + 1) - 1 = k
    BY <1>1
  <2>2. g[k + 1] = Lengthen(g[k])
    BY <1>2, <2>1
  <2> QED
    BY <1>4, <2>1, <2>2, LengthenIs
<1> HIDE DEF S
<1>5. N \in 0..N /\ \A k \in 0..N : k \in S
  BY <1>1, <1>3, <1>4, UpTo
<1> QED
  BY <1>2, <1>5 DEF S

(* The least of a set of costs, if it is known to be in it. *)
LEMMA LeastCost ==
    ASSUME NEW s, NEW c \in Nat, <<s, c>> \in Plans, \A x \in Plans : x[1] = s => c <= x[2]
    PROVE  Min(CostsFrom(s)) = c
<1>1. CostsFrom(s) \subseteq Nat
  BY PlansType DEF CostsFrom
<1>2. c \in CostsFrom(s) /\ \A d \in CostsFrom(s) : c <= d
  BY DEF CostsFrom
<1> HIDE DEF CostsFrom
<1>3. \A d \in CostsFrom(s) : (\A e \in CostsFrom(s) : d <= e) => d = c
  BY <1>1, <1>2
<1>4. \E d \in CostsFrom(s) : \A e \in CostsFrom(s) : d <= e
  BY <1>2
<1> QED
  BY <1>3, <1>4 DEF Min

LEMMA CostType ==
    ASSUME NEW steps \in Seq(Priced)
    PROVE  CostOf(steps) \in Nat
<1> DEFINE h == [i \in DOMAIN steps |-> Library[steps[i]].cost]
           n == Len(steps)
<1>1. n \in Nat /\ DOMAIN steps = 1..n /\ \A i \in 1..n : steps[i] \in Priced
  OBVIOUS
<1>2. \A i \in 1..n : h[i] \in Nat
  BY <1>1, PricedCost
<1>3. n \in 0..n
  BY <1>1
<1> HIDE DEF h, n
<1>4. Total(h, n) \in Nat
  BY <1>1, <1>2, <1>3, TotalType
<1> QED
  BY <1>4 DEF CostOf, h, n

(* However many steps one takes, they lead along edges of the graph, so    *)
(* that where they lead to the goal, a goal state has been found.          *)
LEMMA StepsStay ==
    ASSUME ExactGraph, NEW steps \in Seq(Action), ReachesGoal(steps)
    PROVE  /\ \A i \in 0..Len(steps) : Passing(steps)[i] \in discovered
           /\ Passing(steps)[Len(steps)] \in goalStates
<1> DEFINE n == Len(steps)
           S == {k \in 0..n : Passing(steps)[k] \in discovered}
<1>1. n \in Nat /\ \A i \in 1..n : steps[i] \in Action
  OBVIOUS
<1>2. /\ Passing(steps)[0] = initial
      /\ \A i \in 1..n : Passing(steps)[i] = Apply(steps[i], Passing(steps)[i - 1])
  BY <1>1, PassingStep
<1>3. /\ \A i \in 1..n : Applicable(steps[i], Passing(steps)[i - 1])
      /\ SatisfiedBy(Passing(steps)[n])
  BY <1>1 DEF ReachesGoal
<1> HIDE DEF n
<1>4. 0 \in S
  BY <1>1, <1>2 DEF ExactGraph
<1>5. ASSUME NEW k \in 0..(n - 1), k \in S PROVE k + 1 \in S
  <2>1. k + 1 \in 0..n /\ k + 1 \in 1..n /\ (k + 1) - 1 = k
    BY <1>1
  <2>2. /\ steps[k + 1] \in Action /\ Applicable(steps[k + 1], Passing(steps)[k])
        /\ Passing(steps)[k + 1] = Apply(steps[k + 1], Passing(steps)[k])
    BY <1>1, <1>2, <1>3, <2>1
  <2> QED
    BY <1>5, <2>1, <2>2 DEF ExactGraph
<1> HIDE DEF S
<1>6. n \in 0..n /\ \A k \in 0..n : k \in S
  BY <1>1, <1>4, <1>5, UpTo
<1> QED
  BY <1>3, <1>6 DEF S, n, ExactGraph

(* Where each step has a price, some route is no dearer. *)
LEMMA StepsAreBounded ==
    ASSUME PricedGraph, NEW steps \in Seq(Priced), ReachesGoal(steps)
    PROVE  \E t \in goalStates : CostOf(steps) \in Nat /\ Near(t, CostOf(steps))
<1> DEFINE n == Len(steps)
           h == [i \in DOMAIN steps |-> Library[steps[i]].cost]
<1>1. n \in Nat /\ DOMAIN steps = 1..n /\ \A i \in 1..n : steps[i] \in Priced
  OBVIOUS
<1>2. \A i \in 1..n : h[i] = Library[steps[i]].cost /\ h[i] \in Nat
  BY <1>1, PricedCost
<1>3. CostOf(steps) = Total(h, n)
  BY DEF CostOf
<1>4. steps \in Seq(Action)
  BY DEF Priced
<1>5. /\ Passing(steps)[0] = initial
      /\ \A i \in 1..n : Passing(steps)[i] = Apply(steps[i], Passing(steps)[i - 1])
      /\ \A i \in 1..n : Applicable(steps[i], Passing(steps)[i - 1])
  BY <1>1, <1>4, PassingStep DEF ReachesGoal
<1>6. /\ \A i \in 0..n : Passing(steps)[i] \in discovered
      /\ Passing(steps)[n] \in goalStates
  BY <1>4, StepsStay DEF PricedGraph
<1> HIDE DEF h, n
<1>7. \A m \in 0..n : Total(h, m) \in Nat
  BY <1>1, <1>2, TotalType
<1> DEFINE s(k) == Passing(steps)[k]
           S == {k \in 0..n : Near(s(k), Total(h, k))}
<1>8. 0 \in S
  <2>1. Near(initial, 0) /\ Total(h, 0) = 0 /\ 0 \in 0..n
    BY <1>1, NearStart, TotalStep
  <2> QED
    BY <1>5, <2>1
<1>9. ASSUME NEW k \in 0..(n - 1), k \in S PROVE k + 1 \in S
  <2> DEFINE e == <<s(k), s(k + 1)>>
             a == steps[k + 1]
  <2>1. k \in 0..n /\ k \in Nat /\ k + 1 \in 0..n /\ k + 1 \in 1..n /\ (k + 1) - 1 = k
    BY <1>1
  <2>2. a \in Priced /\ a \in Action /\ Applicable(a, s(k)) /\ Apply(a, s(k)) = s(k + 1)
    BY <1>1, <1>5, <2>1, PricedCost
  <2>3. s(k) \in discovered /\ Near(s(k), Total(h, k)) /\ Total(h, k) \in Nat
    BY <1>6, <1>7, <1>9, <2>1
  <2>4. Total(h, k + 1) = Total(h, k) + Library[a].cost /\ Library[a].cost \in Nat
    BY <1>2, <2>1, TotalStep
  <2> HIDE DEF s, a
  <2>5. e \in DOMAIN edges /\ edges[e].cost <= Library[a].cost
    BY <2>2, <2>3, NoDearer DEF PricedGraph, ExactGraph
  <2>6. e[1] = s(k) /\ e[2] = s(k + 1)
    OBVIOUS
  <2> HIDE DEF e
  <2>7. edges[e].cost \in Nat
    BY <2>5, EdgeCost
  <2>8. Near(s(k + 1), Total(h, k) + edges[e].cost)
    BY <2>3, <2>5, <2>6, NearStep
  <2>9. Near(s(k + 1), Total(h, k + 1))
    BY <2>3, <2>4, <2>5, <2>7, <2>8, NearMore
  <2> QED
    BY <2>1, <2>9
<1> HIDE DEF S, s
<1>10. n \in 0..n /\ \A k \in 0..n : k \in S
  BY <1>1, <1>8, <1>9, UpTo
<1> QED
  BY <1>3, <1>6, <1>7, <1>10 DEF S, s

(* What makes p the answer: p leads to the goal, and no other steps with a *)
(* price, as many as they may be, lead there for less.                     *)
IsCheapest(p) ==
    /\ ReachesGoal(p.steps)
    /\ \A i \in DOMAIN p.steps : p.steps[i] \in Priced
    /\ p.cost = CostOf(p.steps)
    /\ p.cost = Min(CostsFrom(initial))
    /\ \A steps \in Seq(Priced) : ReachesGoal(steps) => p.cost <= CostOf(steps)

Unreachable == \A steps \in Seq(Action) : ~ReachesGoal(steps)

(* The plan made of the names on a cheapest route. *)
PlanOf(r) == [kind  |-> "plan",
              steps |-> [i \in 1..(Len(r) - 1) |-> edges[<<r[i], r[i + 1]>>].name],
              cost  |-> RouteCost(r)]

LEMMA LeastRoute ==
    ASSUME PricedGraph, NEW r \in CheapestRoutes, NEW t \in goalStates, NEW c \in Nat, Near(t, c)
    PROVE  RouteCost(r) <= c
<1>1. \A q : q \in Routes <=> Simple(q)
  BY RoutesAreSimple DEF PricedGraph, ExactGraph
<1>2. PICK q : Simple(q) /\ q[Len(q)] = t /\ RouteCost(q) <= c
  BY DEF Near
<1>3. q \in GoalRoutes /\ r \in GoalRoutes /\ Simple(r)
  BY <1>1, <1>2 DEF GoalRoutes, CheapestRoutes
<1>4. RouteCost(r) <= RouteCost(q) /\ RouteCost(q) \in Nat /\ RouteCost(r) \in Nat
  BY <1>2, <1>3, WeightsType DEF CheapestRoutes
<1> QED
  BY <1>2, <1>4

LEMMA CheapestIsLeast ==
    ASSUME PricedGraph, NEW r \in CheapestRoutes
    PROVE  /\ Simple(r) /\ r[Len(r)] \in goalStates
           /\ RouteCost(r) \in Nat
           /\ <<initial, RouteCost(r)>> \in Plans
           /\ \A x \in Plans : x[1] = initial => RouteCost(r) <= x[2]
<1>1. \A q : q \in Routes <=> Simple(q)
  BY RoutesAreSimple DEF PricedGraph, ExactGraph
<1>2. Simple(r) /\ r[Len(r)] \in goalStates
  BY <1>1 DEF CheapestRoutes, GoalRoutes
<1>3. /\ RouteCost(r) \in Nat /\ Len(r) - 1 \in Nat /\ Len(r) \in Nat \ {0}
      /\ r[1] = initial
  BY <1>2, WeightsType, SimpleFacts DEF Simple
<1>4. <<initial, RouteCost(r)>> \in Plans
  <2> DEFINE n == Len(r) - 1
  <2>1. n \in 0..n /\ Len(r) - n = 1 /\ Len(r) - 1 - n = 0
    BY <1>3
  <2>2. <<r[Len(r) - n], RouteCost(r) - Total(Weights(r), Len(r) - 1 - n)>> \in Plans
    BY <1>2, <2>1, RestsArePlans
  <2>3. Total(Weights(r), 0) = 0
    BY TotalStep
  <2>4. \A c \in Nat : c - 0 = c
    OBVIOUS
  <2> HIDE DEF n
  <2> QED
    BY <1>3, <2>1, <2>2, <2>3, <2>4
<1>5. ASSUME NEW x \in Plans, x[1] = initial PROVE RouteCost(r) <= x[2]
  <2>1. initial \in discovered /\ Near(initial, 0)
    BY NearStart DEF PricedGraph, ExactGraph
  <2>2. PICK t \in goalStates : Near(t, 0 + x[2])
    BY <1>5, <2>1, PlansAreBounded DEF Bounded
  <2>3. x[2] \in Nat /\ 0 + x[2] = x[2]
    BY PlansType
  <2> QED
    BY <2>2, <2>3, LeastRoute
<1> QED
  BY <1>2, <1>3, <1>4, <1>5

LEMMA CheapestPlanGoes ==
    ASSUME PricedGraph, NEW r \in CheapestRoutes, RouteCost(r) <= MaxCost
    PROVE  /\ PlanOf(r) \in Answer
           /\ IsCheapest(PlanOf(r))
<1> DEFINE n == Len(r) - 1
           steps == [i \in 1..n |-> edges[<<r[i], r[i + 1]>>].name]
           p == PlanOf(r)
<1>1. /\ Simple(r) /\ r[Len(r)] \in goalStates /\ RouteCost(r) \in Nat
      /\ <<initial, RouteCost(r)>> \in Plans
      /\ \A x \in Plans : x[1] = initial => RouteCost(r) <= x[2]
  BY CheapestIsLeast
<1>2. p = [kind |-> "plan", steps |-> steps, cost |-> RouteCost(r)]
  BY DEF PlanOf
<1>3. /\ n \in Nat /\ Len(r) = n + 1 /\ r[1] = initial
      /\ \A i \in 1..n : /\ Weights(r)[i] = edges[<<r[i], r[i + 1]>>].cost
                         /\ <<r[i], r[i + 1]>> \in DOMAIN edges
      /\ RouteCost(r) = Total(Weights(r), n)
  <2>1. n \in Nat /\ Len(r) \in Nat
    BY <1>1, WeightsType, SimpleFacts
  <2> QED
    BY <1>1, <2>1, WeightsType DEF Simple
<1> HIDE DEF n
<1>4. ASSUME NEW i \in 1..n
      PROVE  /\ steps[i] \in Priced /\ Applicable(steps[i], r[i])
             /\ Apply(steps[i], r[i]) = r[i + 1] /\ Weights(r)[i] = Library[steps[i]].cost
  <2> DEFINE e == <<r[i], r[i + 1]>>
  <2>1. e \in DOMAIN edges /\ steps[i] = edges[e].name /\ Weights(r)[i] = edges[e].cost
        /\ e[1] = r[i] /\ e[2] = r[i + 1]
    BY <1>3
  <2> HIDE DEF e
  <2> QED
    BY <2>1 DEF PricedGraph, ExactGraph, Accepted, Priced
<1>5. /\ steps \in Seq(Action) /\ Len(steps) = n /\ DOMAIN steps = 1..n
      /\ \A i \in DOMAIN steps : steps[i] \in Priced
  <2>1. steps \in [1..n -> Action] /\ \A i \in 1..n : steps[i] \in Priced
    BY <1>4 DEF Priced
  <2> HIDE DEF steps
  <2> QED
    BY <1>3, <2>1
<1> HIDE DEF steps
<1>6. PlanOf(r) \in Answer
  BY <1>1, <1>2, <1>5, LibraryAssumption DEF Answer, Payable
<1> DEFINE g == [i \in 0..n |-> r[i + 1]]
<1>7. g = [i \in 0..Len(steps) |-> IF i = 0 THEN initial ELSE Apply(steps[i], g[i - 1])]
  <2>1. ASSUME NEW i \in 0..n
        PROVE  r[i + 1] = IF i = 0 THEN initial ELSE Apply(steps[i], g[i - 1])
    <3>1. CASE i = 0
      BY <1>3, <3>1
    <3>2. CASE i # 0
      <4>1. i \in 1..n /\ i - 1 \in 0..n /\ i - 1 + 1 = i
        BY <1>3, <3>2
      <4> QED
        BY <1>4, <3>2, <4>1
    <3> QED
      BY <3>1, <3>2
  <2>2. g = [i \in 0..n |-> IF i = 0 THEN initial ELSE Apply(steps[i], g[i - 1])]
    BY <2>1
  <2> HIDE DEF g
  <2> QED
    BY <1>5, <2>2
<1>8. \A i \in 0..n : Passing(steps)[i] = r[i + 1]
  <2>1. \A i \in 0..n : g[i] = r[i + 1]
    OBVIOUS
  <2> HIDE DEF g
  <2>2. \A i \in 0..Len(steps) : Passing(steps)[i] = g[i]
    BY <1>3, <1>5, <1>7, PassingIs
  <2> QED
    BY <1>5, <2>1, <2>2
<1>9. \A i \in DOMAIN steps : Applicable(steps[i], Passing(steps)[i - 1])
  <2>1. \A i \in 1..n : i - 1 \in 0..n /\ i - 1 + 1 = i
    BY <1>3
  <2> QED
    BY <1>4, <1>5, <1>8, <2>1
<1>10. SatisfiedBy(Passing(steps)[Len(steps)])
  <2>1. n \in 0..n
    BY <1>3
  <2>2. Passing(steps)[Len(steps)] = r[Len(r)]
    BY <1>3, <1>5, <1>8, <2>1
  <2> QED
    BY <1>1, <2>2 DEF PricedGraph, ExactGraph
<1>11. RouteCost(r) = Total([i \in DOMAIN steps |-> Library[steps[i]].cost], Len(steps))
  <2> DEFINE h == [i \in DOMAIN steps |-> Library[steps[i]].cost]
  <2>1. \A i \in 1..n : Weights(r)[i] = h[i]
    BY <1>4, <1>5
  <2> HIDE DEF h
  <2>2. Total(Weights(r), n) = Total(h, n)
    BY <1>3, <2>1, TotalSame
  <2> QED
    BY <1>3, <1>5, <2>2 DEF h
<1>12. RouteCost(r) = Min(CostsFrom(initial))
  BY <1>1, LeastCost
<1>13. ASSUME NEW others \in Seq(Priced), ReachesGoal(others)
       PROVE  RouteCost(r) <= CostOf(others)
  <2>1. PICK t \in goalStates : CostOf(others) \in Nat /\ Near(t, CostOf(others))
    BY <1>13, StepsAreBounded
  <2> QED
    BY <2>1, LeastRoute
<1>14. p.steps = steps /\ p.cost = RouteCost(r)
  BY <1>2
<1> HIDE DEF p
<1>15. ReachesGoal(steps) /\ RouteCost(r) = CostOf(steps)
  BY <1>9, <1>10, <1>11 DEF ReachesGoal, CostOf
<1>16. IsCheapest(p)
  BY <1>5, <1>12, <1>13, <1>14, <1>15 DEF IsCheapest
<1> QED
  BY <1>6, <1>16 DEF p

(* The plan that is found without a search. *)
LEMMA EmptyPlanGoes ==
    ASSUME initial \in State, SatisfiedBy(initial)
    PROVE  LET p == [kind |-> "plan", steps |-> <<>>, cost |-> 0]
           IN  p \in Answer /\ IsCheapest(p)
<1> DEFINE p == [kind |-> "plan", steps |-> <<>>, cost |-> 0]
           g == [i \in 0..0 |-> initial]
<1>1. p \in Answer /\ p.steps = <<>> /\ p.cost = 0
  BY LibraryAssumption DEF Answer, Payable
<1>2. Len(<<>>) = 0 /\ DOMAIN <<>> = {} /\ 0 \in 0..0
  OBVIOUS
<1> HIDE DEF p
<1>3. Passing(<<>>)[0] = initial
  <2>1. g = [i \in 0..0 |-> IF i = 0 THEN initial ELSE Apply(<<>>[i], g[i - 1])]
    OBVIOUS
  <2>2. g[0] = initial
    OBVIOUS
  <2> HIDE DEF g
  <2>3. \A i \in 0..Len(<<>>) : Passing(<<>>)[i] = g[i]
    BY <1>2, <2>1, PassingIs
  <2> QED
    BY <1>2, <2>2, <2>3
<1>4. Min(CostsFrom(initial)) = 0
  <2>1. <<initial, 0>> \in Plans
    BY PlansType DEF GoalPlans
  <2>2. \A x \in Plans : 0 <= x[2]
    BY PlansType
  <2> QED
    BY <2>1, <2>2, LeastCost
<1>5. \A f : Total(f, 0) = 0
  BY TotalStep
<1>6. ReachesGoal(<<>>) /\ CostOf(<<>>) = 0
  BY <1>2, <1>3, <1>5 DEF ReachesGoal, CostOf
<1>7. ASSUME NEW steps \in Seq(Priced) PROVE 0 <= CostOf(steps)
  BY CostType
<1>8. IsCheapest(p)
  BY <1>1, <1>2, <1>4, <1>6, <1>7 DEF IsCheapest
<1> QED
  BY <1>1, <1>8 DEF p

-----------------------------------------------------------------------------
(* The answer.                                                             *)

(* A satisfied goal is recognised before the search; what the answer is,   *)
(* it is once and for all.                                                 *)
AnswerOK ==
    /\ call = "plan" /\ phase \in {"exploring", "explored"} => ~SatisfiedBy(initial)
    /\ answer \in Option(Answer)
    /\ \A p \in answer : p.kind = "plan" => IsCheapest(p)
    /\ \A a \in answer : a.kind = "none" => Unreachable
    /\ AnswerIsAllowed

(* What the problem allows where the search has come to its end. *)
LEMMA WhatIsAllowed ==
    ASSUME initial \in State, ~SatisfiedBy(initial)
    PROVE  PlanResults[initial] =
              IF Cardinality(Reachable(initial)) > MaxStates THEN {NoSteps("error")}
              ELSE IF ~GoalInReach(initial) THEN {NoSteps("none")}
              ELSE IF GraphFails(initial) THEN {NoSteps("error")}
              ELSE {Starting(a) : a \in FirstSteps(initial)}
  BY DEF PlanResults

(* What an exploration that is over says of the planning problem. *)
LEMMA ExploredProblem ==
    ASSUME Inv, Explored, ~truncated, call = "plan"
    PROVE  /\ ~(Cardinality(Reachable(initial)) > MaxStates)
           /\ GoalInReach(initial) <=> goalStates # {}
           /\ Accepted <=> ~Refused(initial)
<1>1. ~(Cardinality(Reachable(initial)) > MaxStates)
  BY InvCap DEF CapIsExact
<1>2. /\ discovered = Reachable(initial)
      /\ DOMAIN edges = {e \in discovered \X discovered : Connecting(e[1], e[2]) # {}}
      /\ \A e \in DOMAIN edges : \E i \in Connecting(e[1], e[2]) :
            /\ IsBest(i, Connecting(e[1], e[2]))
            /\ edges[e] = [cost |-> CostAt(i), name |-> Actions[i]]
  BY InvExact DEF ExplorationIsExact
<1>3. goalStates = {s \in discovered : SatisfiedBy(s)}
  BY DEF Inv, GraphIsConsistent, Satisfying
<1>4. GoalInReach(initial) <=> goalStates # {}
  BY <1>2, <1>3 DEF GoalInReach
<1>5. \A i \in DOMAIN Actions : Actions[i] \in Action /\ i \in Nat
  BY ActionsAssumption, ElementOfSeq, LenProperties
<1>6. ASSUME ~Accepted PROVE Refused(initial)
  <2>1. PICK e \in DOMAIN edges : edges[e].cost \notin Payable
    BY <1>6 DEF Accepted
  <2>2. e[1] \in Reachable(initial)
    BY <1>2, <2>1
  <2>3. PICK i \in Connecting(e[1], e[2]) :
            IsBest(i, Connecting(e[1], e[2])) /\ CostAt(i) \notin Payable
    <3>1. PICK i \in Connecting(e[1], e[2]) :
              /\ IsBest(i, Connecting(e[1], e[2]))
              /\ edges[e] = [cost |-> CostAt(i), name |-> Actions[i]]
      BY <1>2, <2>1
    <3>2. CostAt(i) \notin Payable
      BY <2>1, <3>1
    <3> QED
      BY <3>1, <3>2
  <2>4. e[2] \in Successors(e[1])
    BY <1>5, <2>3 DEF Connecting, Successors
  <2> QED
    BY <2>2, <2>3, <2>4 DEF Refused
<1>7. ASSUME Refused(initial) PROVE ~Accepted
  <2>0. PICK t \in Reachable(initial) : \E u \in Successors(t) : \E i \in Connecting(t, u) :
            IsBest(i, Connecting(t, u)) /\ CostAt(i) \notin Payable
    BY <1>7 DEF Refused
  <2>9. PICK u \in Successors(t) : \E i \in Connecting(t, u) :
            IsBest(i, Connecting(t, u)) /\ CostAt(i) \notin Payable
    BY <2>0
  <2>1. PICK i \in Connecting(t, u) : IsBest(i, Connecting(t, u)) /\ CostAt(i) \notin Payable
    BY <2>9
  <2>2. u \in discovered
    <3>1. initial \in State /\ \E a \in Action : Applicable(a, t) /\ u = Apply(a, t)
      BY <2>1 DEF Inv, ExplorationOK, Successors
    <3> QED
      BY <1>2, <2>1, <3>1, ReachableClosed
  <2> DEFINE e == <<t, u>>
  <2>3. e \in DOMAIN edges /\ e[1] = t /\ e[2] = u
    BY <1>2, <2>1, <2>2
  <2> HIDE DEF e
  <2>4. PICK j \in Connecting(t, u) :
            IsBest(j, Connecting(t, u)) /\ edges[e].cost = CostAt(j)
    <3>1. PICK j \in Connecting(e[1], e[2]) :
              /\ IsBest(j, Connecting(e[1], e[2]))
              /\ edges[e] = [cost |-> CostAt(j), name |-> Actions[j]]
      BY <1>2, <2>3
    <3>2. edges[e].cost = CostAt(j)
      BY <3>1
    <3> QED
      BY <2>3, <3>1, <3>2
  <2>5. Connecting(t, u) \in SUBSET Nat
    BY <1>5 DEF Connecting
  <2>6. i = j
    BY <2>1, <2>4, <2>5, BestIsOne
  <2> QED
    BY <2>1, <2>3, <2>4, <2>6 DEF Accepted
<1> QED
  BY <1>1, <1>4, <1>6, <1>7

(* Where grafo accepts the edges, it fails exactly if a cheapest route     *)
(* costs too much.                                                         *)
LEMMA OverflowIsOfAllPlans ==
    ASSUME PricedGraph, NEW r \in CheapestRoutes
    PROVE  Min(CostsFrom(initial)) = RouteCost(r)
  BY CheapestIsLeast, LeastCost

LEMMA FirstIsAllowed ==
    ASSUME PricedGraph, ~SatisfiedBy(initial), NEW r \in CheapestRoutes,
           ~(Cardinality(Reachable(initial)) > MaxStates),
           GoalInReach(initial), ~GraphFails(initial)
    PROVE  ResultOf(PlanOf(r)) \in PlanResults[initial]
<1> DEFINE p == PlanOf(r)
           n == Len(r) - 1
           e == <<r[1], r[1 + 1]>>
           a == edges[e].name
           c == edges[e].cost
<1>1. /\ Simple(r) /\ r[Len(r)] \in goalStates /\ RouteCost(r) \in Nat
      /\ <<initial, RouteCost(r)>> \in Plans
      /\ \A x \in Plans : x[1] = initial => RouteCost(r) <= x[2]
  BY CheapestIsLeast
<1>2. n \in Nat \ {0} /\ Len(r) = n + 1 /\ r[1] = initial /\ initial \in State
  <2>1. Len(r) \in Nat \ {0} /\ r[1] = initial
    BY <1>1, SimpleFacts DEF Simple
  <2>2. r[Len(r)] # initial /\ initial \in State
    BY <1>1 DEF PricedGraph, ExactGraph
  <2>3. Len(r) # 1
    BY <2>1, <2>2
  <2> QED
    BY <2>1, <2>2, <2>3
<1>3. 1 \in 1..n /\ 1 + 1 = 2 /\ Len(r) - 1 = n
  BY <1>2
<1>4. e \in DOMAIN edges /\ e[1] = initial /\ e[2] = r[2]
  BY <1>1, <1>2, <1>3 DEF Simple
<1>5. /\ a \in Action /\ Applicable(a, initial) /\ Apply(a, initial) = r[2]
      /\ Library[a].cost = c /\ c \in Nat /\ a \in Priced
  <2>1. c \in Nat
    BY <1>4, EdgeCost
  <2> HIDE DEF e
  <2> QED
    BY <1>4, <2>1 DEF PricedGraph, ExactGraph, Accepted, Priced
<1>6. ResultOf(p) = Starting(a)
  <2> DEFINE steps == [i \in 1..n |-> edges[<<r[i], r[i + 1]>>].name]
  <2>1. p.kind = "plan" /\ p.steps = steps
    BY <1>3 DEF PlanOf
  <2>2. steps[1] = a
    BY <1>3
  <2>3. 1 \in DOMAIN steps /\ DOMAIN <<>> = {}
    BY <1>3
  <2> HIDE DEF steps, p
  <2> QED
    BY <2>1, <2>2, <2>3 DEF ResultOf
<1>7. <<r[2], RouteCost(r) - c>> \in Plans
  <2> HIDE DEF n, e
  <2>1. n - 1 \in 0..(Len(r) - 1) /\ Len(r) - (n - 1) = 2 /\ Len(r) - 1 - (n - 1) = 1
    BY <1>2, <1>3
  <2>2. <<r[2], RouteCost(r) - Total(Weights(r), 1)>> \in Plans
    <3> DEFINE j == n - 1
    <3>1. <<r[Len(r) - j], RouteCost(r) - Total(Weights(r), Len(r) - 1 - j)>> \in Plans
      BY <1>1, <2>1, RestsArePlans
    <3> QED
      BY <2>1, <3>1
  <2>3. Total(Weights(r), 1) = c
    <3>1. Total(Weights(r), 0) = 0 /\ Total(Weights(r), 0 + 1) = Total(Weights(r), 0) + Weights(r)[0 + 1]
      BY TotalStep
    <3>2. Weights(r)[1] = c
      BY <1>1, <1>3, WeightsType DEF e
    <3> HIDE DEF c
    <3> QED
      BY <1>5, <3>1, <3>2
  <2> QED
    BY <2>2, <2>3
<1> HIDE DEF p, n, e, a, c
<1>8. Min(CostsFrom(initial)) = RouteCost(r)
  BY <1>1, LeastCost
<1>9. RouteCost(r) - c \in CostsFrom(r[2])
  BY <1>7 DEF CostsFrom
<1>10. a \in FirstSteps(initial)
  BY <1>5, <1>8, <1>9 DEF FirstSteps
<1>11. PlanResults[initial] = {Starting(b) : b \in FirstSteps(initial)}
  BY <1>2, <1>10, WhatIsAllowed
<1> QED
  BY <1>6, <1>10, <1>11 DEF p

LEMMA AnswerInit == Init => AnswerOK
<1> SUFFICES ASSUME Init PROVE AnswerOK
  OBVIOUS
<1>1. answer = {} /\ phase = "called"
  BY DEF Init
<1> QED
  BY <1>1 DEF AnswerOK, Option, AnswerIsAllowed

(* Nothing is answered yet. *)
LEMMA NoAnswerYet ==
    ASSUME answer' = {},
           (call = "plan" /\ phase \in {"exploring", "explored"} => ~SatisfiedBy(initial))'
    PROVE  AnswerOK'
  BY DEF AnswerOK, Option, AnswerIsAllowed

LEMMA ReachesGoalKept ==
    ASSUME initial' = initial, NEW steps
    PROVE  ReachesGoal(steps)' <=> ReachesGoal(steps)
<1>1. Passing(steps)' = Passing(steps)
  BY DEF Passing
<1> QED
  BY <1>1 DEF ReachesGoal, SatisfiedBy, Applicable

LEMMA AnswerKept ==
    ASSUME AnswerOK, UNCHANGED vars
    PROVE  AnswerOK'
<1>1. UNCHANGED <<call, initial, phase, answer>>
  BY DEF vars
<1>2. AnswerIsAllowed'
  <2>1. AnswerIsAllowed
    BY DEF AnswerOK
  <2> QED
    BY <1>1, <2>1 DEF AnswerIsAllowed
<1>5. ASSUME NEW steps PROVE ReachesGoal(steps)' <=> ReachesGoal(steps)
  BY <1>1, ReachesGoalKept
<1>6. (\A a \in answer : a.kind = "none" => Unreachable)'
  <2>1. Unreachable' <=> Unreachable
    BY <1>5 DEF Unreachable
  <2> QED
    BY <1>1, <2>1 DEF AnswerOK
<1>3. (\A p \in answer : p.kind = "plan" => IsCheapest(p))'
  <2>1. ASSUME NEW p, IsCheapest(p) PROVE IsCheapest(p)'
    BY <1>1, <1>5, <2>1 DEF IsCheapest, CostOf
  <2>2. \A p \in answer : p.kind = "plan" => IsCheapest(p)
    BY DEF AnswerOK
  <2> QED
    BY <1>1, <2>1, <2>2
<1>4. (call = "plan" /\ phase \in {"exploring", "explored"} => ~SatisfiedBy(initial))'
  BY <1>1 DEF AnswerOK, SatisfiedBy
<1> QED
  BY <1>1, <1>2, <1>6, <1>3, <1>4 DEF AnswerOK

LEMMA ExploreAnswer ==
    ASSUME SearchInv, AnswerOK, Explore
    PROVE  AnswerOK'
<1>1. answer = {} /\ answer' = answer /\ UNCHANGED <<call, initial>>
  BY DEF Explore, Begin, Truncate, Pop, Popping, Skip, Follow, Expanded, Exhausted, SearchInv,
     AnswerInv, Inv, PhaseOK, Trying
<1>2. call = "plan" /\ phase' \in {"exploring", "explored"} => ~SatisfiedBy(initial)
  BY DEF Explore, Begin, Truncate, Pop, Popping, Skip, Follow, Expanded, Exhausted, SearchInv,
     AnswerOK, Inv, PhaseOK, Trying
<1> QED
  BY <1>1, <1>2, NoAnswerYet DEF SatisfiedBy

(* An answer to the caller of plan that is what it should be. *)
LEMMA AnswerGiven ==
    ASSUME NEW a \in Answer, Returns(a), a.kind = "plan" => IsCheapest(a),
           a.kind = "none" => Unreachable,
           call = "plan" => ResultOf(a) \in PlanResults[initial]
    PROVE  AnswerOK'
<1>1. answer' = {a} /\ UNCHANGED <<call, initial>> /\ phase' = "answered"
  BY DEF Returns
<1>2. answer' \in Option(Answer) /\ \A steps : ReachesGoal(steps)' <=> ReachesGoal(steps)
  BY <1>1, ReachesGoalKept DEF Option
<1>3. (\A p \in answer : p.kind = "plan" => IsCheapest(p))'
  <2>1. ASSUME NEW p, IsCheapest(p) PROVE IsCheapest(p)'
    BY <1>1, <1>2, <2>1 DEF IsCheapest, CostOf
  <2> QED
    BY <1>1, <2>1
<1>4. (\A x \in answer : x.kind = "none" => Unreachable)'
  BY <1>1, <1>2 DEF Unreachable
<1>5. AnswerIsAllowed'
  BY <1>1 DEF AnswerIsAllowed
<1> QED
  BY <1>1, <1>2, <1>3, <1>4, <1>5 DEF AnswerOK

LEMMA RespondAnswer ==
    ASSUME SearchInv, AnswerOK, Respond
    PROVE  AnswerOK'
<1>1. Inv /\ initial \in State /\ (phase = "explored" => Explored)
  BY DEF SearchInv, AnswerInv, Inv, ExplorationOK, Explored
<1>2. CASE AnswerAtOnce
  <2> DEFINE p == [kind |-> "plan", steps |-> <<>>, cost |-> 0]
  <2>1. Returns(p) /\ SatisfiedBy(initial) /\ call = "plan"
    BY <1>2 DEF AnswerAtOnce
  <2>2. p \in Answer /\ IsCheapest(p) /\ p.kind # "none"
    BY <1>1, <2>1, EmptyPlanGoes
  <2>3. ResultOf(p) = NoSteps("empty")
    BY DEF ResultOf
  <2>4. PlanResults[initial] = {NoSteps("empty")}
    BY <1>1, <2>1 DEF PlanResults
  <2> HIDE DEF p
  <2> QED
    BY <2>1, <2>2, <2>3, <2>4, AnswerGiven
<1>3. CASE AnswerGraph
  <2> DEFINE a == [kind |-> "graph"]
  <2>1. Returns(a) /\ call # "plan" /\ a \in Answer /\ a.kind = "graph"
    BY <1>3 DEF AnswerGraph, Answer
  <2> HIDE DEF a
  <2> QED
    BY <2>1, AnswerGiven
<1>4. CASE AnswerTooLarge
  <2> DEFINE a == [kind |-> "error", error |-> "StateSpaceLimitExceeded"]
  <2>1. Returns(a) /\ a \in Answer /\ a.kind = "error" /\ ResultOf(a) = NoSteps("error")
    BY <1>4 DEF AnswerTooLarge, Answer, PlannerError, ResultOf
  <2>2. Cardinality(Reachable(initial)) > MaxStates
    BY <1>1, <1>4, InvCap DEF AnswerTooLarge, CapIsExact
  <2>3. ~SatisfiedBy(initial)
    BY <1>4 DEF AnswerTooLarge, AnswerOK
  <2> HIDE DEF a
  <2>4. ResultOf(a) \in PlanResults[initial]
    BY <1>1, <2>1, <2>2, <2>3, WhatIsAllowed
  <2> QED
    BY <2>1, <2>4, AnswerGiven
<1>5. ASSUME phase = "explored", call = "plan", ~truncated
      PROVE  /\ ExactGraph /\ ~SatisfiedBy(initial)
             /\ ~(Cardinality(Reachable(initial)) > MaxStates)
             /\ GoalInReach(initial) <=> goalStates # {}
             /\ Accepted <=> ~Refused(initial)
  <2>1. ExactGraph
    BY <1>1, <1>5, GraphIsExact
  <2> QED
    BY <1>1, <1>5, <2>1, ExploredProblem DEF AnswerOK
<1>6. CASE AnswerGraphError
  <2> DEFINE a == [kind |-> "error", error |-> "Graph"]
  <2>1. Returns(a) /\ a \in Answer /\ a.kind = "error" /\ ResultOf(a) = NoSteps("error")
    BY <1>6 DEF AnswerGraphError, Answer, PlannerError, ResultOf
  <2> HIDE DEF a
  <2>2. GraphFails(initial)
    <3>1. CASE Accepted
      <4>1. PICK r \in CheapestRoutes : RouteCost(r) > MaxCost
        BY <1>6, <3>1 DEF AnswerGraphError
      <4>2. PricedGraph
        BY <1>5, <1>6, <3>1 DEF AnswerGraphError, PricedGraph
      <4>3. Min(CostsFrom(initial)) > MaxCost
        BY <4>1, <4>2, OverflowIsOfAllPlans
      <4> QED
        BY <1>5, <1>6, <4>3 DEF AnswerGraphError, GraphFails
    <3>2. CASE ~Accepted
      BY <1>5, <1>6, <3>2 DEF AnswerGraphError, GraphFails
    <3> QED
      BY <3>1, <3>2
  <2>3. ResultOf(a) \in PlanResults[initial]
    BY <1>1, <1>5, <1>6, <2>1, <2>2, WhatIsAllowed DEF AnswerGraphError
  <2> QED
    BY <2>1, <2>3, AnswerGiven
<1>7. CASE AnswerNone
  <2> DEFINE a == [kind |-> "none"]
  <2>1. Returns(a) /\ a \in Answer /\ a.kind # "plan" /\ ResultOf(a) = NoSteps("none")
    BY <1>7 DEF AnswerNone, Answer, ResultOf
  <2> HIDE DEF a
  <2>2. ResultOf(a) \in PlanResults[initial]
    BY <1>1, <1>5, <1>7, <2>1, WhatIsAllowed DEF AnswerNone
  <2>3. Unreachable
    BY <1>5, <1>7, StepsStay DEF AnswerNone, Unreachable
  <2> QED
    BY <2>1, <2>2, <2>3, AnswerGiven
<1>8. CASE AnswerPlan
  <2>1. PICK r \in CheapestRoutes : RouteCost(r) <= MaxCost /\ Returns(PlanOf(r))
    BY <1>8 DEF AnswerPlan, PlanOf
  <2>2. PricedGraph /\ ~SatisfiedBy(initial) /\ ~(Cardinality(Reachable(initial)) > MaxStates)
    BY <1>5, <1>8 DEF AnswerPlan, PricedGraph
  <2>3. PlanOf(r) \in Answer /\ IsCheapest(PlanOf(r)) /\ PlanOf(r).kind = "plan"
    BY <2>1, <2>2, CheapestPlanGoes DEF PlanOf
  <2>4. GoalInReach(initial) /\ ~GraphFails(initial)
    <3>1. goalStates # {}
      BY <2>1 DEF CheapestRoutes, GoalRoutes
    <3>2. RouteCost(r) \in Nat /\ Min(CostsFrom(initial)) = RouteCost(r)
      BY <2>2, CheapestIsLeast, OverflowIsOfAllPlans
    <3>3. ~(Min(CostsFrom(initial)) > MaxCost)
      BY <2>1, <3>2, LibraryAssumption
    <3> QED
      BY <1>5, <1>8, <3>1, <3>3 DEF AnswerPlan, GraphFails
  <2>5. ResultOf(PlanOf(r)) \in PlanResults[initial]
    BY <2>2, <2>4, FirstIsAllowed
  <2> QED
    BY <2>1, <2>3, <2>5, AnswerGiven
<1> QED
  BY <1>2, <1>3, <1>4, <1>6, <1>7, <1>8 DEF Respond

LEMMA AnswerStep ==
    ASSUME SearchInv, AnswerOK, [Next]_vars
    PROVE  AnswerOK'
  BY ExploreAnswer, RespondAnswer, AnswerKept DEF Next, Done

(* Before the call nothing is answered, whatever the command does. *)
LEMMA CommandAnswer ==
    ASSUME CommandInv, AnswerOK, [CommandNext]_processVars
    PROVE  AnswerOK'
<1>1. SearchInv
  BY DEF CommandInv
<1>2. CASE PlannerSteps
  BY <1>1, <1>2, AnswerStep DEF PlannerSteps
<1>3. CASE RunSensor \/ Simulate
  <2>1. phase = "called" /\ UNCHANGED <<phase, answer>>
    BY <1>3 DEF RunSensor, Simulate, Due, Loads, CommandInv, StageOK
  <2>2. answer' = {} /\ phase' = "called"
    BY <1>1, <2>1 DEF SearchInv, AnswerInv
  <2> QED
    BY <2>2, NoAnswerYet
<1>4. CASE UNCHANGED vars
  BY <1>4, AnswerKept
<1>5. \/ PlannerSteps \/ RunSensor \/ Simulate \/ UNCHANGED vars
  BY DEF CommandNext, CannotRead, Refuses, PrintDryRun, StartSensing, SensorCannotRun,
     StartPlanning, PrintOutcome, PrintError, PrintReport, LibraryReturns, AfterExit, processVars
<1> QED
  BY <1>2, <1>3, <1>4, <1>5

(* What a call of the planner answers agrees at every step with what the   *)
(* problem allows, whoever calls it.                                       *)
THEOREM AnswersAreRight == CommandSpec => [](CommandInv /\ AnswerOK)
<1>1. CommandInit => CommandInv /\ AnswerOK
  BY CommandInvInit, AnswerInit DEF CommandInit
<1>2. CommandInv /\ AnswerOK /\ [CommandNext]_processVars => (CommandInv /\ AnswerOK)'
  BY CommandInvStep, CommandAnswer
<1> QED
  BY <1>1, <1>2, PTL DEF CommandSpec

(* The variables keep to their types, the answer included (planner.rs).    *)
THEOREM PlannerTypes == CommandSpec => []TypeOK
<1>1. CommandInv /\ AnswerOK => TypeOK
  BY DEF CommandInv, SearchInv, Inv, AnswerOK, TypeOK
<1> QED
  BY <1>1, AnswersAreRight, PTL

(* Every plan can be executed, leads to the goal, costs what its steps     *)
(* cost, and that is the least cost the planning problem allows            *)
(* (planner.rs, plan).                                                     *)
THEOREM PlansAreCheapest == CommandSpec => []PlanIsCheapest
<1>1. AnswerOK => PlanIsCheapest
  BY DEF AnswerOK, PlanIsCheapest, IsCheapest
<1> QED
  BY <1>1, AnswersAreRight, PTL

(* No steps of any number, with states visited as often as one likes and   *)
(* each at a price, lead to the goal for less than the plan that is        *)
(* returned; and if none is returned, then none lead there, whatever they  *)
(* cost (planner.rs, plan).                                                *)
NothingIsCheaper ==
    /\ \A p \in {q \in answer : q.kind = "plan"} : \A steps \in Seq(Priced) :
          ReachesGoal(steps) => p.cost <= CostOf(steps)
    /\ [kind |-> "none"] \in answer => \A steps \in Seq(Action) : ~ReachesGoal(steps)

THEOREM PlansHaveNoRivals == CommandSpec => []NothingIsCheaper
<1>1. AnswerOK => NothingIsCheaper
  BY DEF AnswerOK, NothingIsCheaper, IsCheapest, Unreachable
<1> QED
  BY <1>1, AnswersAreRight, PTL

(* The search answers what Goap says the planner may answer, which is what *)
(* the runtime is built on (planner.rs, plan).                             *)
THEOREM AnswersAreAllowed == CommandSpec => []AnswerIsAllowed
<1>1. AnswerOK => AnswerIsAllowed
  BY DEF AnswerOK
<1> QED
  BY <1>1, AnswersAreRight, PTL

-----------------------------------------------------------------------------
(* The exit codes.                                                         *)

(* Why plan fails. *)
LEMMA ErrorsMean ==
    ASSUME CommandInv, AnswerOK, call = "plan", phase = "answered",
           NEW a \in answer, a.kind = "error"
    PROVE  PlanFails(a.error)
<1>1. /\ Inv /\ Explored /\ initial \in State
      /\ truncated <=> a.error = "StateSpaceLimitExceeded"
  BY DEF CommandInv, SearchInv, AnswerInv, Inv, ExplorationOK, Explored
<1>2. a \in Answer /\ ResultOf(a) = NoSteps("error") /\ ResultOf(a) \in PlanResults[initial]
  BY DEF AnswerOK, AnswerIsAllowed, Option, ResultOf
<1>3. a.error \in PlannerError
  BY <1>2 DEF Answer
<1>4. ~SatisfiedBy(initial)
  <2>1. NoSteps("error") # NoSteps("empty")
    <3>1. NoSteps("error").kind = "error" /\ NoSteps("empty").kind = "empty"
      BY DEF NoSteps
    <3> QED
      BY <3>1
  <2>2. SatisfiedBy(initial) => PlanResults[initial] = {NoSteps("empty")}
    BY <1>1 DEF PlanResults
  <2> QED
    BY <1>2, <2>1, <2>2
<1>5. truncated <=> Cardinality(Reachable(initial)) > MaxStates
  BY <1>1, InvCap DEF CapIsExact
<1>6. CASE truncated
  BY <1>1, <1>4, <1>5, <1>6 DEF PlanFails
<1>7. CASE ~truncated
  <2>1. a.error = "Graph"
    BY <1>1, <1>3, <1>7 DEF PlannerError
  <2>2. /\ Cardinality(Reachable(initial)) \in Nat
        /\ Cardinality(Reachable(initial)) <= MaxStates
    BY <1>1, <1>5, <1>7, FiniteStates, ReachableClosed, LibraryAssumption
  <2>3. GraphFails(initial)
    <3>1. ASSUME ~GraphFails(initial)
          PROVE  \A r \in PlanResults[initial] : r.kind # "error"
      BY <1>1, <1>4, <1>5, <1>7, <3>1, WhatIsAllowed DEF NoSteps, Starting
    <3> QED
      BY <1>2, <3>1 DEF NoSteps
  <2> QED
    BY <1>4, <2>1, <2>2, <2>3 DEF PlanFails
<1> QED
  BY <1>6, <1>7

(* A plan excludes that plan might have failed. *)
LEMMA PlansMean ==
    ASSUME CommandInv, AnswerOK, call = "plan", phase = "answered",
           NEW a \in answer, a.kind = "plan"
    PROVE  GoalInReach(initial) /\ \A e \in PlannerError : ~PlanFails(e)
<1>1. Inv /\ initial \in State
  BY DEF CommandInv, SearchInv, Inv, ExplorationOK
<1>2. GoalInReach(initial)
  <2>1. SatisfiedBy(initial) \/ goalStates # {}
    BY DEF CommandInv, SearchInv, AnswerInv
  <2>2. goalStates = {s \in discovered : SatisfiedBy(s)} /\ discovered \subseteq Reachable(initial)
    BY DEF CommandInv, SearchInv, Inv, GraphIsConsistent, Satisfying
  <2> QED
    BY <1>1, <2>1, <2>2, ReachableClosed DEF GoalInReach
<1>3. ASSUME ~SatisfiedBy(initial)
      PROVE  ~(Cardinality(Reachable(initial)) > MaxStates) /\ ~GraphFails(initial)
  <2>1. ResultOf(a) \in PlanResults[initial] /\ ResultOf(a).kind # "error"
    BY DEF AnswerOK, AnswerIsAllowed, ResultOf, NoSteps, Starting
  <2> QED
    BY <1>1, <1>2, <1>3, <2>1, WhatIsAllowed DEF NoSteps
<1> QED
  BY <1>2, <1>3 DEF PlanFails, PlannerError

(* The exit code of a run: a plan, no plan, or why plan has failed. *)
LEMMA RunCodeIsTrue ==
    ASSUME CommandInv, AnswerOK, NEW code \in exit, command.name = "run"
    PROVE  RunCodeMeans(code)
<1>1. code \in {0, 1, 2} /\ call = "plan" /\ initial \in State
  BY DEF CommandInv, ExitOK, StageOK, SearchInv, Inv, ExplorationOK
<1>2. CASE phase # "answered"
  <2>1. code = 2
    BY <1>1, <1>2 DEF CommandInv, ExitOK
  <2> QED
    BY <1>2, <2>1 DEF RunCodeMeans
<1>3. CASE phase = "answered"
  <2>1. PICK a \in answer : code = IF a.kind = "error" THEN 2 ELSE OutcomeCode(a)
    BY <1>3 DEF CommandInv, ExitOK
  <2>2. a.kind \in {"plan", "none", "error"}
    BY <1>1 DEF CommandInv, SearchInv, AnswerInv
  <2>3. CASE a.kind = "plan"
    <3>1. code = 0
      BY <2>1, <2>3 DEF OutcomeCode
    <3> QED
      BY <1>1, <1>3, <2>3, <3>1, PlansMean DEF RunCodeMeans
  <2>4. CASE a.kind = "none"
    <3>1. code = 1
      BY <2>1, <2>4 DEF OutcomeCode
    <3>2. /\ discovered = Reachable(initial)
          /\ goalStates = {s \in discovered : SatisfiedBy(s)} /\ goalStates = {}
      BY <1>1, <1>3, <2>4, ClosedWhenExplored
         DEF Explored, CommandInv, SearchInv, AnswerInv, Inv, GraphIsConsistent, Satisfying
    <3>3. ~GoalInReach(initial)
      BY <3>2 DEF GoalInReach
    <3> QED
      BY <3>1, <3>3 DEF RunCodeMeans
  <2>5. CASE a.kind = "error"
    <3>1. code = 2
      BY <2>1, <2>5
    <3> QED
      BY <1>1, <1>3, <2>5, <3>1, ErrorsMean DEF RunCodeMeans
  <2> QED
    BY <2>2, <2>3, <2>4, <2>5
<1> QED
  BY <1>2, <1>3

(* The exit codes mean what scripts take them for: 1 never hides a plan    *)
(* that the search missed, 2 after the sensors is the cap or grafo, which  *)
(* refuses a cost or overflows, and a clean inspection of a complete graph *)
(* excludes getting stuck (main.rs).                                       *)
THEOREM ExitCodesMean == CommandSpec => []ExitCodeMeans
<1>1. ASSUME CommandInv, NEW code \in exit, NEW r \in Inspections
      PROVE  InspectCodeMeans(code, r)
  <2> SUFFICES ASSUME code = 0, ~r.graph.truncated,
                      NEW w \in Reachable(r.initial), ~SatisfiedBy(w)
               PROVE  Successors(w) # {}
    BY DEF InspectCodeMeans
  <2>1. /\ Inv /\ Explored /\ call = "explore_for_goal" /\ ~truncated
        /\ w \in Reachable(initial) /\ IsClean
    BY <1>1, InspectionFacts
  <2>2. w \notin DeadEnds
    BY <2>1 DEF IsClean
  <2> QED
    BY <2>1, <2>2, DeadEndsAreStuck
<1>2. ASSUME CommandInv, NEW code \in exit
      PROVE  code # 2 /\ command.name \in {"run", "inspect"} => phase = "answered"
  BY <1>2 DEF CommandInv, ExitOK
<1>3. CommandInv /\ AnswerOK => ExitCodeMeans
  BY <1>1, <1>2, RunCodeIsTrue DEF ExitCodeMeans
<1> QED
  BY <1>3, AnswersAreRight, PTL

=============================================================================
