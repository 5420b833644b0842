----------------------------- MODULE PathProofs -----------------------------
(***************************************************************************)
(* A graph is built from valid input and from no other, its rows are       *)
(* exactly the edges given, the search with predecessors behaves like the  *)
(* search for the cost, and the paths it returns are cheapest: theorems    *)
(* about PathSearch, for every input, every set of queries, every size and *)
(* every threshold of the parallel check.                                  *)
(***************************************************************************)
EXTENDS PathSearch, Induction, SequenceTheorems, FiniteSetTheorems, TLAPS

Label == {input.nodes[i] : i \in DOMAIN input.nodes}

(* The labels taken so far are the first of the input, none twice, and the *)
(* index is their inverse; later stages have taken all of them.            *)
LabelsOK ==
    /\ input \in Input
    /\ stage \in {"labels", "counted", "placing", "built", "failed"}
    /\ ids \in Seq(Label) /\ Len(ids) <= Len(input.nodes)
    /\ \A i \in 1..Len(ids) : ids[i] = input.nodes[i]
    /\ DOMAIN index = {ids[i] : i \in 1..Len(ids)}
    /\ \A i \in 1..Len(ids) : index[ids[i]] = i
    /\ index \in [DOMAIN index -> 1..Len(ids)]

(* A stage after the labels is reached from valid input only.              *)
StageIsEarned ==
    /\ stage \in {"counted", "placing", "built"} => Valid(input)
    /\ stage = "failed" => ~Valid(input)

GraphInv == LabelsOK /\ StageIsEarned

-----------------------------------------------------------------------------
LEMMA InputFacts ==
    ASSUME input \in Input
    PROVE  /\ input.nodes \in Seq(Label) /\ Len(input.nodes) \in Nat
           /\ DOMAIN input.nodes = 1..Len(input.nodes)
           /\ Len(input.edges) \in Nat /\ DOMAIN input.edges = 1..Len(input.edges)
           /\ \A i \in DOMAIN input.edges : input.edges[i].weight \in Int
<1>1. /\ input.nodes \in Seq(Label)
      /\ input.edges \in Seq({input.edges[i] : i \in DOMAIN input.edges})
      /\ \A i \in DOMAIN input.edges : input.edges[i].weight \in -1..MaxCost
  BY InputAssumption DEF Label
<1>2. -1..MaxCost \subseteq Int
  OBVIOUS
<1> QED
  BY <1>1, <1>2, LenProperties

(* The index tells whether a label has been taken, and no label is taken   *)
(* twice.                                                                  *)
LEMMA IndexFacts ==
    ASSUME LabelsOK
    PROVE  /\ Len(ids) \in Nat
           /\ \A i, j \in 1..Len(ids) : input.nodes[i] = input.nodes[j] => i = j
           /\ \A l : l \in DOMAIN index <=> \E i \in 1..Len(ids) : input.nodes[i] = l
<1>1. Len(ids) \in Nat
  BY LenProperties DEF LabelsOK
<1> QED
  BY <1>1 DEF LabelsOK

LEMMA AddNodeKeeps ==
    ASSUME GraphInv, AddNode
    PROVE  GraphInv'
<1> DEFINE n == Len(ids)
<1>1. /\ stage = "labels" /\ n < Len(input.nodes) /\ NextLabel \notin DOMAIN index
      /\ ids' = Append(ids, NextLabel)
      /\ index' = [l \in DOMAIN index \cup {NextLabel} |->
                      IF l = NextLabel THEN n + 1 ELSE index[l]]
      /\ UNCHANGED <<input, stage>>
  BY DEF AddNode
<1>2. n \in Nat /\ input \in Input /\ ids \in Seq(Label)
  BY IndexFacts DEF GraphInv, LabelsOK
<1>3. n + 1 \in DOMAIN input.nodes /\ NextLabel \in Label
  BY <1>1, <1>2, InputFacts DEF NextLabel, Label
<1>4. /\ ids' \in Seq(Label) /\ Len(ids') = n + 1
      /\ \A i \in 1..n : ids'[i] = ids[i]
      /\ ids'[n + 1] = NextLabel
  BY <1>1, <1>2, <1>3, AppendProperties, LenProperties
<1>5. 1..(n + 1) = (1..n) \cup {n + 1}
  BY <1>2
<1>6. NextLabel = input.nodes[n + 1]
  BY DEF NextLabel
<1>7. /\ \A i \in 1..n : ids[i] = input.nodes[i] /\ index[ids[i]] = i
      /\ DOMAIN index = {ids[i] : i \in 1..n} /\ index \in [DOMAIN index -> 1..n]
  BY DEF GraphInv, LabelsOK
<1> HIDE DEF n
<1>8. DOMAIN index' = {ids'[i] : i \in 1..(n + 1)}
  <2>1. DOMAIN index' = {ids[i] : i \in 1..n} \cup {ids'[n + 1]}
    BY <1>1, <1>4, <1>7
  <2>2. {ids[i] : i \in 1..n} = {ids'[i] : i \in 1..n}
    BY <1>4
  <2>3. {ids'[i] : i \in 1..(n + 1)} = {ids'[i] : i \in 1..n} \cup {ids'[n + 1]}
    BY <1>5
  <2> QED
    BY <2>1, <2>2, <2>3
<1>9. ASSUME NEW i \in 1..(n + 1) PROVE ids'[i] = input.nodes[i] /\ index'[ids'[i]] = i
  <2>1. CASE i = n + 1
    BY <1>1, <1>4, <1>6, <2>1
  <2>2. CASE i \in 1..n
    <3>1. ids'[i] = ids[i] /\ ids[i] \in DOMAIN index
      BY <1>4, <1>7, <2>2
    <3> QED
      BY <1>1, <1>7, <2>2, <3>1
  <2> QED
    BY <1>5, <2>1, <2>2
<1>10. n + 1 <= Len(input.nodes)
  BY <1>1, <1>2, InputFacts
<1>11. Label' = Label
  BY <1>1 DEF Label
<1>12. index' \in [DOMAIN index' -> 1..(n + 1)]
  BY <1>1, <1>5, <1>7, <1>2
<1>13. LabelsOK'
  BY <1>1, <1>2, <1>4, <1>8, <1>9, <1>10, <1>11, <1>12 DEF LabelsOK
<1> QED
  BY <1>1, <1>13 DEF GraphInv, StageIsEarned

(* What is refused is invalid. *)
LEMMA RefusalsKeep ==
    ASSUME GraphInv, RefuseSize \/ RefuseDuplicate \/ RefuseEdge
    PROVE  GraphInv'
<1>1. /\ stage' = "failed" /\ UNCHANGED <<input, ids, index>>
  BY DEF RefuseSize, RefuseDuplicate, RefuseEdge, Fail, built
<1>2. LabelsOK /\ input \in Input
  BY DEF GraphInv, LabelsOK
<1>3. LabelsOK'
  BY <1>1, <1>2 DEF LabelsOK, Label
<1>4. ASSUME RefuseSize PROVE ~Valid(input)
  BY <1>2, <1>4, InputFacts, BoundsAssumption DEF RefuseSize, TooLarge, Valid
<1>5. ASSUME RefuseDuplicate PROVE ~Valid(input)
  <2> DEFINE n == Len(ids)
  <2>1. n \in Nat /\ n < Len(input.nodes) /\ input.nodes[n + 1] \in DOMAIN index
    BY <1>2, <1>5, IndexFacts DEF RefuseDuplicate, NextLabel
  <2>2. PICK i \in 1..n : input.nodes[i] = input.nodes[n + 1]
    BY <1>2, <2>1, IndexFacts
  <2>3. i \in DOMAIN input.nodes /\ n + 1 \in DOMAIN input.nodes /\ i # n + 1
    BY <1>2, <2>1, InputFacts
  <2> QED
    BY <2>2, <2>3 DEF Valid
<1>6. ASSUME RefuseEdge PROVE ~Valid(input)
  <2>1. PICK i \in DOMAIN input.edges : Faults(input.edges[i]) # {}
    BY <1>6 DEF RefuseEdge, Faulty
  <2>2. Len(ids) = Len(input.nodes)
    BY <1>6 DEF RefuseEdge
  <2>3. ASSUME NEW l, l \notin DOMAIN index
        PROVE  ~\E j \in DOMAIN input.nodes : input.nodes[j] = l
    BY <1>2, <2>2, <2>3, IndexFacts, InputFacts
  <2>4. \/ input.edges[i].from \notin DOMAIN index
        \/ input.edges[i].to \notin DOMAIN index
        \/ input.edges[i].weight < 0
    BY <2>1 DEF Faults
  <2>5. input.edges[i].weight \in Int
    BY <1>2, InputFacts
  <2> QED
    BY <2>3, <2>4, <2>5 DEF Valid
<1>7. ~Valid(input)
  BY <1>4, <1>5, <1>6
<1> QED
  BY <1>1, <1>3, <1>7 DEF GraphInv, StageIsEarned, Valid

(* What passes the checks is valid. *)
LEMMA CountEdgesKeeps ==
    ASSUME GraphInv, CountEdges
    PROVE  GraphInv'
<1>1. /\ stage' = "counted" /\ UNCHANGED <<input, ids, index>>
      /\ ~TooLarge /\ Len(ids) = Len(input.nodes) /\ Faulty = {}
  BY DEF CountEdges
<1>2. LabelsOK /\ input \in Input
  BY DEF GraphInv, LabelsOK
<1>3. LabelsOK'
  BY <1>1, <1>2 DEF LabelsOK, Label
<1>4. Len(input.nodes) <= MaxCount /\ Len(input.edges) <= MaxCount
  BY <1>1, <1>2, InputFacts, BoundsAssumption DEF TooLarge
<1>5. \A i, j \in DOMAIN input.nodes : input.nodes[i] = input.nodes[j] => i = j
  BY <1>1, <1>2, IndexFacts, InputFacts
<1>6. ASSUME NEW i \in DOMAIN input.edges
      PROVE  /\ \E j \in DOMAIN input.nodes : input.nodes[j] = input.edges[i].from
             /\ \E j \in DOMAIN input.nodes : input.nodes[j] = input.edges[i].to
             /\ input.edges[i].weight >= 0
  <2>1. Faults(input.edges[i]) = {}
    BY <1>1 DEF Faulty
  <2>2. /\ input.edges[i].from \in DOMAIN index /\ input.edges[i].to \in DOMAIN index
        /\ ~(input.edges[i].weight < 0)
    BY <2>1 DEF Faults
  <2>3. input.edges[i].weight \in Int
    BY <1>2, InputFacts
  <2> QED
    BY <1>1, <1>2, <2>2, <2>3, IndexFacts, InputFacts
<1>7. Valid(input)
  BY <1>4, <1>5, <1>6 DEF Valid
<1> QED
  BY <1>1, <1>3, <1>7 DEF GraphInv, StageIsEarned, Valid

LEMMA GraphInvInit == Init => GraphInv
<1> SUFFICES ASSUME Init PROVE GraphInv
  OBVIOUS
<1>1. /\ input \in Input /\ stage = "labels" /\ ids = <<>> /\ DOMAIN index = {}
      /\ index \in [DOMAIN index -> {}]
  BY DEF Init, CsrInit
<1>2. ids \in Seq(Label) /\ Len(ids) = 0 /\ 1..Len(ids) = {}
  BY <1>1
<1>3. Len(input.nodes) \in Nat
  BY <1>1, InputFacts
<1> QED
  BY <1>1, <1>2, <1>3 DEF GraphInv, LabelsOK, StageIsEarned

(* The other steps leave the labels and their index alone. *)
LEMMA GraphInvStep == GraphInv /\ [Next]_vars => GraphInv'
<1> SUFFICES ASSUME GraphInv, [Next]_vars PROVE GraphInv'
  OBVIOUS
<1>1. CASE SumOffsets \/ PlaceEdge \/ ShiftOffsets
  <2>1. /\ stage \in {"counted", "placing"} /\ stage' \in {"placing", "built"}
        /\ UNCHANGED <<input, ids, index>>
    BY <1>1 DEF SumOffsets, PlaceEdge, ShiftOffsets, built
  <2> QED
    BY <2>1 DEF GraphInv, LabelsOK, StageIsEarned, Label, Valid
<1>2. CASE AskImmediate \/ AskSearch \/ Step \/ UNCHANGED vars
  <2>1. UNCHANGED csrVars
    BY <1>2 DEF AskImmediate, AskSearch, Step, PopStale, PopTarget, PopNode, Popped, Exhausted,
       SkipEdge, Relax, Following, Expanded, Retrace, Retraced, vars
  <2> QED
    BY <2>1 DEF csrVars, built, GraphInv, LabelsOK, StageIsEarned, Label, Valid
<1> QED
  BY <1>1, <1>2, AddNodeKeeps, RefusalsKeep, CountEdgesKeeps DEF Next, Construct

(* A graph is built from valid input and from no other: no label is given  *)
(* twice, no edge has an end that is not a node, no weight is negative,    *)
(* and nothing valid is refused (graph.rs, new_with_attrs).                *)
THEOREM ValidInputOnly == Spec => []RefusesExactlyInvalid
<1>1. GraphInv => RefusesExactlyInvalid
  BY DEF GraphInv, StageIsEarned, RefusesExactlyInvalid
<1> QED
  BY <1>1, GraphInvInit, GraphInvStep, PTL DEF Spec

-----------------------------------------------------------------------------
(* The rows.  One array of offsets is a count, a cursor and a result; what *)
(* it holds at each stage is said with the edges given alone.              *)
N == Len(ids)
E == Len(input.edges)
To(i) == index[input.edges[i].to]

(* How many of the first k edges leave the node u, and how many of all     *)
(* edges leave a node before it.                                           *)
Count(u, k) == Cardinality({i \in 1..k : From(i) = u})
Start(u)    == Cardinality({i \in 1..E : From(i) < u})

(* What the row of u should be when k edges have their place. *)
Arcs(u, k) == ArcsFrom(input, u)[k]

(* The checks are passed: all nodes are known and all edges are good. *)
Checked ==
    /\ LabelsOK
    /\ Len(ids) = Len(input.nodes)
    /\ \A i \in 1..E : From(i) \in 1..N /\ To(i) \in 1..N /\ input.edges[i].weight \in 0..MaxCost

(* The first positions of the row of u hold those of its first k edges. *)
Holds(u, k) ==
    \A i \in 1..Count(u, k) : /\ targets[Start(u) + i] = Arcs(u, k)[i].to
                              /\ weights[Start(u) + i] = Arcs(u, k)[i].weight

(* Counts, then sums, then cursors, then sums again. *)
RowsOK ==
    /\ stage \in {"labels", "failed"} =>
          placed = 0 /\ offsets = <<>> /\ targets = <<>> /\ weights = <<>>
    /\ stage \in {"counted", "placing", "built"} =>
          /\ Checked
          /\ placed \in 0..E
          /\ DOMAIN offsets = 1..(N + 1)
          /\ targets \in [1..E -> 0..N] /\ weights \in [1..E -> 0..MaxCost]
    /\ stage = "counted" =>
          placed = 0 /\ \A u \in 1..(N + 1) : offsets[u] = Count(u, E)
    /\ stage = "placing" =>
          /\ \A u \in 1..(N + 1) : offsets[u] = Start(u) + Count(u, placed)
          /\ \A u \in 1..N : Holds(u, placed)
    /\ stage = "built" =>
          /\ \A u \in 1..(N + 1) : offsets[u] = Start(u)
          /\ \A u \in 1..N : Holds(u, E)

-----------------------------------------------------------------------------
(* Counting edges. *)

LEMMA CheckedFacts ==
    ASSUME Checked
    PROVE  /\ N \in Nat /\ E \in Nat /\ input \in Input
           /\ DOMAIN input.edges = 1..E /\ DOMAIN input.nodes = 1..N /\ DOMAIN ids = 1..N
           /\ \A i \in 1..E : From(i) \in 1..N /\ To(i) \in 1..N /\ input.edges[i].weight \in 0..MaxCost
<1>1. input \in Input /\ N \in Nat /\ ids \in Seq(Label) /\ Len(ids) = Len(input.nodes)
  BY IndexFacts DEF Checked, LabelsOK, N
<1>2. DOMAIN ids = 1..Len(ids)
  BY <1>1, LenProperties
<1> QED
  BY <1>1, <1>2, InputFacts DEF Checked, N, E

LEMMA CountFacts ==
    ASSUME Checked, NEW u
    PROVE  /\ Count(u, 0) = 0
           /\ \A k \in Nat : Count(u, k) \in Nat
           /\ \A k \in Nat : Count(u, k + 1) = IF From(k + 1) = u THEN Count(u, k) + 1
                                                                 ELSE Count(u, k)
           /\ \A k, l \in Nat : k <= l => Count(u, k) <= Count(u, l)
<1> DEFINE C(k) == {i \in 1..k : From(i) = u}
<1>1. ASSUME NEW k \in Nat PROVE IsFiniteSet(C(k)) /\ Cardinality(C(k)) \in Nat
  <2>1. IsFiniteSet(1..k) /\ C(k) \subseteq 1..k
    BY FS_Interval
  <2> HIDE DEF C
  <2> QED
    BY <2>1, FS_Subset, FS_CardinalityType
<1>2. Cardinality(C(0)) = 0
  <2>1. C(0) = {}
    OBVIOUS
  <2> QED
    BY <2>1, FS_EmptySet
<1>3. ASSUME NEW k \in Nat
      PROVE  Cardinality(C(k + 1)) = IF From(k + 1) = u THEN Cardinality(C(k)) + 1 ELSE Cardinality(C(k))
  <2>1. C(k + 1) = IF From(k + 1) = u THEN C(k) \cup {k + 1} ELSE C(k)
    <3>1. 1..(k + 1) = (1..k) \cup {k + 1}
      OBVIOUS
    <3> QED
      BY <3>1
  <2>2. k + 1 \notin C(k)
    OBVIOUS
  <2> HIDE DEF C
  <2> QED
    BY <1>1, <2>1, <2>2, FS_AddElement
<1>4. ASSUME NEW k \in Nat, NEW l \in Nat, k <= l PROVE Cardinality(C(k)) <= Cardinality(C(l))
  <2>1. C(k) \subseteq C(l)
    BY <1>4
  <2> HIDE DEF C
  <2> QED
    BY <1>1, <2>1, FS_Subset
<1> QED
  BY <1>1, <1>2, <1>3, <1>4 DEF Count

LEMMA StartFacts ==
    ASSUME Checked
    PROVE  /\ Start(1) = 0 /\ Start(N + 1) = E
           /\ \A u \in 1..(N + 1) : Start(u) \in 0..E
           /\ \A u \in 1..N : Start(u + 1) = Start(u) + Count(u, E)
           /\ \A u, v \in 1..(N + 1) : u <= v => Start(u) <= Start(v)
           /\ Count(N + 1, E) = 0
<1> DEFINE B(u) == {i \in 1..E : From(i) < u}
           C(u) == {i \in 1..E : From(i) = u}
<1>1. N \in Nat /\ E \in Nat /\ \A i \in 1..E : From(i) \in 1..N
  BY CheckedFacts
<1>2. \A u : B(u) \subseteq 1..E /\ C(u) \subseteq 1..E
  OBVIOUS
<1>3. /\ B(1) = {} /\ B(N + 1) = 1..E /\ C(N + 1) = {}
      /\ \A u \in 1..N : B(u + 1) = B(u) \cup C(u) /\ B(u) \cap C(u) = {}
      /\ \A u, v \in 1..(N + 1) : u <= v => B(u) \subseteq B(v)
  BY <1>1
<1> HIDE DEF B, C
<1>4. IsFiniteSet(1..E) /\ Cardinality(1..E) = E
  BY <1>1, FS_Interval
<1>5. \A u : /\ IsFiniteSet(B(u)) /\ IsFiniteSet(C(u))
             /\ Cardinality(B(u)) \in Nat /\ Cardinality(B(u)) <= E
  BY <1>1, <1>2, <1>4, FS_Subset, FS_CardinalityType
<1>6. \A u \in 1..N : Cardinality(B(u + 1)) = Cardinality(B(u)) + Cardinality(C(u))
  <2>1. ASSUME NEW u \in 1..N
        PROVE  Cardinality(B(u + 1)) = Cardinality(B(u)) + Cardinality(C(u))
    <3>1. Cardinality(B(u) \cup C(u))
             = Cardinality(B(u)) + Cardinality(C(u)) - Cardinality(B(u) \cap C(u))
      BY <1>5, FS_Union
    <3>2. Cardinality(B(u) \cap C(u)) = 0
      BY <1>3, FS_EmptySet
    <3>3. Cardinality(B(u)) \in Nat /\ Cardinality(C(u)) \in Nat
      BY <1>5, FS_CardinalityType
    <3>4. B(u + 1) = B(u) \cup C(u)
      BY <1>3
    <3> DEFINE b == Cardinality(B(u))
               c == Cardinality(C(u))
               d == Cardinality(B(u + 1))
    <3>5. b \in Nat /\ c \in Nat /\ d = b + c - 0
      BY <3>1, <3>2, <3>3, <3>4
    <3> HIDE DEF b, c, d
    <3>6. d = b + c
      BY <3>5
    <3> QED
      BY <3>6 DEF b, c, d
  <2> QED
    BY <2>1
<1>7. \A u, v \in 1..(N + 1) : u <= v => Cardinality(B(u)) <= Cardinality(B(v))
  BY <1>3, <1>5, FS_Subset
<1>8. /\ Cardinality(B(1)) = 0 /\ Cardinality(B(N + 1)) = E /\ Cardinality(C(N + 1)) = 0
      /\ \A u \in 1..(N + 1) : Cardinality(B(u)) \in 0..E
  BY <1>1, <1>3, <1>4, <1>5, FS_EmptySet
<1> QED
  BY <1>6, <1>7, <1>8 DEF Start, Count, B, C

-----------------------------------------------------------------------------
(* The rows that are intended. *)

Arc(i) == [to |-> To(i), weight |-> input.edges[i].weight]

LEMMA IndexIsNodeOf ==
    ASSUME Checked
    PROVE  index = NodeOf(input)
<1>1. /\ N \in Nat /\ DOMAIN input.nodes = 1..N
      /\ \A i \in 1..N : ids[i] = input.nodes[i] /\ index[ids[i]] = i
      /\ DOMAIN index = {ids[i] : i \in 1..N}
      /\ \A i, j \in 1..N : input.nodes[i] = input.nodes[j] => i = j
  BY CheckedFacts, IndexFacts DEF Checked, LabelsOK, N
<1>2. DOMAIN index = {input.nodes[i] : i \in DOMAIN input.nodes}
  BY <1>1
<1>3. ASSUME NEW l \in DOMAIN index
      PROVE  index[l] = CHOOSE i \in DOMAIN input.nodes : input.nodes[i] = l
  <2>1. PICK i \in 1..N : input.nodes[i] = l
    BY <1>1
  <2>2. \A j \in 1..N : input.nodes[j] = l => j = i
    BY <1>1, <2>1
  <2> QED
    BY <1>1, <2>1, <2>2
<1>4. index = [l \in DOMAIN index |-> index[l]]
  BY DEF Checked, LabelsOK
<1> QED
  BY <1>2, <1>3, <1>4 DEF NodeOf

-----------------------------------------------------------------------------
(* The recursion of ArcsFrom, one edge at a time. *)
Extended(n, s, u, k) ==
    IF NodeOf(n)[n.edges[k].from] = u
    THEN Append(s, [to |-> NodeOf(n)[n.edges[k].to], weight |-> n.edges[k].weight])
    ELSE s

AreArcs(n, u, m, g) ==
    g = [k \in 0..m |-> IF k = 0 THEN <<>> ELSE Extended(n, g[k - 1], u, k)]

LEMMA ArcsExist ==
    ASSUME NEW n, NEW u, NEW l \in Nat
    PROVE  \E g : AreArcs(n, u, l, g)
<1> DEFINE S == {m \in Nat : \E g : AreArcs(n, u, m, g)}
<1>1. 0 \in S
  <2>1. AreArcs(n, u, 0, [k \in 0..0 |-> <<>>])
    BY DEF AreArcs
  <2> QED
    BY <2>1
<1>2. ASSUME NEW m \in S PROVE m + 1 \in S
  <2>1. PICK g : AreArcs(n, u, m, g)
    OBVIOUS
  <2> DEFINE h == [k \in 0..(m + 1) |->
                      IF k = m + 1 THEN Extended(n, g[m], u, m + 1) ELSE g[k]]
  <2>2. AreArcs(n, u, m + 1, h)
    BY <2>1 DEF AreArcs
  <2> HIDE DEF h
  <2> QED
    BY <2>2
<1> HIDE DEF S
<1>3. S = Nat
  BY <1>1, <1>2, NatSet DEF S
<1> QED
  BY <1>3 DEF S

LEMMA ArcsUnfold ==
    ASSUME NEW n, Len(n.edges) \in Nat, NEW u
    PROVE  /\ ArcsFrom(n, u)[0] = <<>>
           /\ \A k \in 0..(Len(n.edges) - 1) :
                 ArcsFrom(n, u)[k + 1] = Extended(n, ArcsFrom(n, u)[k], u, k + 1)
<1> DEFINE m == Len(n.edges)
           w == CHOOSE w : w = [k \in 0..m |-> IF k = 0 THEN <<>> ELSE Extended(n, w[k - 1], u, k)]
<1>1. w = [k \in 0..m |-> IF k = 0 THEN <<>> ELSE Extended(n, w[k - 1], u, k)]
  <2> HIDE DEF m
  <2>1. \E g : AreArcs(n, u, m, g)
    BY ArcsExist DEF m
  <2> QED
    BY <2>1 DEF AreArcs
<1>2. ArcsFrom(n, u) = w
  BY DEF ArcsFrom, Extended
<1> HIDE DEF w, m
<1>3. \A k \in 0..m : w[k] = IF k = 0 THEN <<>> ELSE Extended(n, w[k - 1], u, k)
  BY <1>1, Zenon
<1>4. m \in Nat
  BY DEF m
<1>5. w[0] = <<>>
  <2>1. 0 \in 0..m
    BY <1>4
  <2> QED
    BY <1>3, <2>1
<1>6. ASSUME NEW k \in 0..(m - 1)
      PROVE  w[k + 1] = Extended(n, w[k], u, k + 1)
  <2>1. k + 1 \in 0..m /\ k + 1 # 0 /\ (k + 1) - 1 = k
    BY <1>4
  <2> QED
    BY <1>3, <2>1
<1> QED
  BY <1>2, <1>5, <1>6 DEF m

ArcType == [to : 1..N, weight : 0..MaxCost]

LEMMA ArcsFacts ==
    ASSUME Checked, NEW u
    PROVE  /\ Arcs(u, 0) = <<>>
           /\ \A k \in 0..(E - 1) :
                 Arcs(u, k + 1) = IF From(k + 1) = u THEN Append(Arcs(u, k), Arc(k + 1))
                                                     ELSE Arcs(u, k)
           /\ \A k \in 0..E : Arcs(u, k) \in Seq(ArcType) /\ Len(Arcs(u, k)) = Count(u, k)
<1>1. E \in Nat /\ index = NodeOf(input)
  BY CheckedFacts, IndexIsNodeOf
<1>6. Arcs(u, 0) = <<>>
  BY <1>1, ArcsUnfold DEF Arcs, E
<1>7. ASSUME NEW k \in 0..(E - 1)
      PROVE  Arcs(u, k + 1) = IF From(k + 1) = u THEN Append(Arcs(u, k), Arc(k + 1)) ELSE Arcs(u, k)
  <2>1. Arcs(u, k + 1) = Extended(input, Arcs(u, k), u, k + 1)
    BY <1>1, ArcsUnfold DEF Arcs, E
  <2> QED
    BY <1>1, <2>1 DEF From, Arc, To, Extended
<1> DEFINE S == {k \in 0..E : Arcs(u, k) \in Seq(ArcType) /\ Len(Arcs(u, k)) = Count(u, k)}
<1>8. 0 \in S
  <2>1. Count(u, 0) = 0 /\ 0 \in 0..E
    BY <1>1, CountFacts
  <2>2. <<>> \in Seq(ArcType) /\ Len(<<>>) = 0
    OBVIOUS
  <2> QED
    BY <1>6, <2>1, <2>2
<1>9. ASSUME NEW k \in 0..(E - 1), k \in S PROVE k + 1 \in S
  <2>1. k + 1 \in 0..E /\ k + 1 \in 1..E /\ k \in Nat
    BY <1>1
  <2>2. Arc(k + 1) \in ArcType
    BY <2>1, CheckedFacts DEF Arc, ArcType
  <2>3. Count(u, k + 1) = IF From(k + 1) = u THEN Count(u, k) + 1 ELSE Count(u, k)
    BY <2>1, CountFacts
  <2>4. Arcs(u, k + 1) \in Seq(ArcType) /\ Len(Arcs(u, k + 1)) = Count(u, k + 1)
    <3>1. Arcs(u, k) \in Seq(ArcType) /\ Len(Arcs(u, k)) = Count(u, k)
      BY <1>9
    <3>2. /\ Append(Arcs(u, k), Arc(k + 1)) \in Seq(ArcType)
          /\ Len(Append(Arcs(u, k), Arc(k + 1))) = Len(Arcs(u, k)) + 1
      BY <2>2, <3>1, AppendProperties
    <3> HIDE DEF S
    <3> QED
      BY <1>7, <2>3, <3>1, <3>2
  <2> QED
    BY <2>1, <2>4
<1> HIDE DEF S
<1>10. \A k \in 0..E : k \in S
  BY <1>1, <1>8, <1>9, UpTo
<1> QED
  BY <1>6, <1>7, <1>10 DEF S

-----------------------------------------------------------------------------
(* The steps. *)

LEMMA RowsCounted ==
    ASSUME GraphInv, GraphInv', RowsOK, CountEdges
    PROVE  RowsOK'
<1>1. /\ stage = "labels" /\ stage' = "counted" /\ UNCHANGED <<input, ids, index, placed>>
      /\ Len(ids) = Len(input.nodes) /\ placed = 0 /\ Faulty = {}
      /\ offsets' = [u \in 1..(N + 1) |-> Cardinality({i \in DOMAIN input.edges : From(i) = u})]
      /\ targets' = [i \in DOMAIN input.edges |-> 0]
      /\ weights' = [i \in DOMAIN input.edges |-> 0]
  BY DEF CountEdges, RowsOK, N
<1>2. LabelsOK /\ input \in Input
  BY DEF GraphInv, LabelsOK
<1>3. /\ E \in Nat /\ DOMAIN input.edges = 1..E /\ N \in Nat
      /\ \A i \in 1..E : input.edges[i].weight \in -1..MaxCost
  BY <1>2, InputFacts, IndexFacts, InputAssumption DEF N, E
<1>4. Checked
  <2>1. ASSUME NEW i \in 1..E
        PROVE  From(i) \in 1..N /\ To(i) \in 1..N /\ input.edges[i].weight \in 0..MaxCost
    <3>1. Faults(input.edges[i]) = {} /\ input.edges[i].weight \in -1..MaxCost
      BY <1>1, <1>3 DEF Faulty
    <3>2. /\ input.edges[i].from \in DOMAIN index /\ input.edges[i].to \in DOMAIN index
          /\ ~(input.edges[i].weight < 0)
      BY <3>1 DEF Faults
    <3>3. index \in [DOMAIN index -> 1..N]
      BY <1>2 DEF LabelsOK, N
    <3> QED
      BY <3>1, <3>2, <3>3, BoundsAssumption DEF From, To
  <2> QED
    BY <1>1, <1>2, <2>1 DEF Checked
<1>5. Checked' /\ E' = E /\ N' = N /\ \A u, k : Count(u, k)' = Count(u, k)
  BY <1>1, <1>4 DEF Checked, LabelsOK, Label, E, N, From, To, Count
<1>6. /\ DOMAIN offsets' = 1..(N + 1)
      /\ \A u \in 1..(N + 1) : offsets'[u] = Count(u, E)
  BY <1>1, <1>3 DEF Count
<1>7. targets' \in [1..E -> 0..N] /\ weights' \in [1..E -> 0..MaxCost] /\ 0 \in 0..E
  BY <1>1, <1>3, BoundsAssumption
<1> HIDE DEF N, E
<1> QED
  BY <1>1, <1>5, <1>6, <1>7 DEF RowsOK

LEMMA RowsSummed ==
    ASSUME GraphInv, RowsOK, SumOffsets
    PROVE  RowsOK'
<1> DEFINE D == 1..(N + 1)
           w == CHOOSE w : w = [u \in DOMAIN offsets |-> IF u = 1 THEN 0 ELSE w[u - 1] + offsets[u - 1]]
           g == [u \in D |-> Start(u)]
<1>1. /\ stage = "counted" /\ stage' = "placing" /\ offsets' = w
      /\ UNCHANGED <<input, ids, index, placed, targets, weights>>
  BY DEF SumOffsets
<1>2. /\ Checked /\ DOMAIN offsets = D /\ placed = 0
      /\ targets \in [1..E -> 0..N] /\ weights \in [1..E -> 0..MaxCost]
      /\ \A u \in D : offsets[u] = Count(u, E)
  BY <1>1 DEF RowsOK
<1>3. N \in Nat /\ E \in Nat
  BY <1>2, CheckedFacts
<1>4. g = [u \in DOMAIN offsets |-> IF u = 1 THEN 0 ELSE g[u - 1] + offsets[u - 1]]
  <2>1. ASSUME NEW u \in D
        PROVE  Start(u) = IF u = 1 THEN 0 ELSE g[u - 1] + offsets[u - 1]
    <3>1. CASE u = 1
      BY <1>2, <3>1, StartFacts
    <3>2. CASE u # 1
      <4>1. u - 1 \in 1..N /\ u - 1 \in D /\ u - 1 + 1 = u
        BY <1>3, <3>2
      <4> QED
        BY <1>2, <3>2, <4>1, StartFacts
    <3> QED
      BY <3>1, <3>2
  <2>2. g = [u \in D |-> IF u = 1 THEN 0 ELSE g[u - 1] + offsets[u - 1]]
    BY <2>1
  <2> HIDE DEF g, D
  <2> QED
    BY <1>2, <2>2
<1>5. w = [u \in DOMAIN offsets |-> IF u = 1 THEN 0 ELSE w[u - 1] + offsets[u - 1]]
  BY <1>4
<1> HIDE DEF w
<1>6. DOMAIN w = D
  BY <1>2, <1>5
<1>7. \A u \in D : w[u] = IF u = 1 THEN 0 ELSE w[u - 1] + offsets[u - 1]
  BY <1>2, <1>5, Zenon
<1> DEFINE S == {k \in 0..N : w[k + 1] = Start(k + 1)}
<1>8. 0 \in S
  BY <1>2, <1>3, <1>7, StartFacts
<1>9. ASSUME NEW k \in 0..(N - 1), k \in S PROVE k + 1 \in S
  <2>1. /\ k + 1 \in 0..N /\ k + 1 \in 1..N /\ k + 1 \in D /\ k + 1 + 1 \in D /\ k + 1 + 1 # 1
        /\ k + 1 + 1 - 1 = k + 1
    BY <1>3
  <2>2. w[k + 1 + 1] = w[k + 1] + offsets[k + 1]
    BY <1>7, <2>1
  <2>3. w[k + 1] = Start(k + 1)
    BY <1>9
  <2>4. Start(k + 1 + 1) = Start(k + 1) + Count(k + 1, E) /\ offsets[k + 1] = Count(k + 1, E)
    BY <1>2, <2>1, StartFacts
  <2> QED
    BY <2>1, <2>2, <2>3, <2>4
<1> HIDE DEF S
<1>10. \A k \in 0..N : k \in S
  BY <1>3, <1>8, <1>9, UpTo
<1>11. ASSUME NEW u \in D PROVE w[u] = Start(u) + Count(u, 0)
  <2>1. u - 1 \in 0..N /\ u - 1 + 1 = u /\ u \in 1..(N + 1)
    BY <1>3
  <2>2. w[u] = Start(u)
    BY <1>10, <2>1 DEF S
  <2>3. Count(u, 0) = 0 /\ Start(u) \in Nat
    <3>1. Start(u) \in 0..E
      BY <1>2, <2>1, StartFacts
    <3> QED
      BY <1>2, <1>3, <3>1, CountFacts
  <2> QED
    BY <2>2, <2>3
<1>12. \A u : Holds(u, 0)'
  <2>1. Checked' /\ \A u : Count(u, 0)' = Count(u, 0)
    BY <1>1, <1>2 DEF Checked, LabelsOK, Label, E, N, From, To, Count
  <2> QED
    BY <1>2, <2>1, CountFacts DEF Holds
<1>13. Checked' /\ E' = E /\ N' = N /\ \A u, k : Count(u, k)' = Count(u, k) /\ Start(u)' = Start(u)
  BY <1>1, <1>2 DEF Checked, LabelsOK, Label, E, N, From, To, Count, Start
<1> HIDE DEF g
<1> QED
  BY <1>1, <1>2, <1>3, <1>6, <1>11, <1>12, <1>13 DEF RowsOK

-----------------------------------------------------------------------------
(* Rows do not overlap, and all are within the arrays. *)
LEMMA PositionFacts ==
    ASSUME Checked, NEW u \in 1..N, NEW k \in 0..E
    PROVE  /\ Count(u, k) \in Nat /\ Start(u) \in Nat
           /\ Start(u) + Count(u, k) <= Start(u + 1) /\ Start(u + 1) \in 0..E
           /\ \A v \in 1..N : Start(v) \in Nat /\ (v > u => Start(u + 1) <= Start(v))
<1>1. N \in Nat /\ E \in Nat
  BY CheckedFacts
<1>2. Count(u, k) \in Nat /\ Count(u, E) \in Nat /\ Count(u, k) <= Count(u, E)
  BY <1>1, CountFacts
<1>3. u \in 1..(N + 1) /\ u + 1 \in 1..(N + 1) /\ \A v \in 1..N : v \in 1..(N + 1) /\ (v > u => u + 1 <= v)
  BY <1>1
<1>4. /\ \A v \in 1..(N + 1) : Start(v) \in 0..E
      /\ Start(u + 1) = Start(u) + Count(u, E)
      /\ \A v \in 1..(N + 1) : u + 1 <= v => Start(u + 1) <= Start(v)
  BY <1>3, StartFacts
<1>5. \A v \in 1..(N + 1) : Start(v) \in Nat
  BY <1>1, <1>4
<1> QED
  BY <1>2, <1>3, <1>4, <1>5

LEMMA RowsPlaced ==
    ASSUME RowsOK, PlaceEdge
    PROVE  RowsOK'
<1> DEFINE p == placed + 1
           u == From(p)
           pos == offsets[u] + 1
<1>1. /\ stage = "placing" /\ placed < E /\ placed' = p
      /\ UNCHANGED <<input, stage, ids, index>>
      /\ targets' = [targets EXCEPT ![pos] = To(p)]
      /\ weights' = [weights EXCEPT ![pos] = input.edges[p].weight]
      /\ offsets' = [offsets EXCEPT ![u] = @ + 1]
  BY DEF PlaceEdge, From, To, E
<1>2. /\ Checked /\ placed \in 0..E /\ DOMAIN offsets = 1..(N + 1)
      /\ targets \in [1..E -> 0..N] /\ weights \in [1..E -> 0..MaxCost]
      /\ \A v \in 1..(N + 1) : offsets[v] = Start(v) + Count(v, placed)
      /\ \A v \in 1..N : Holds(v, placed)
  BY <1>1 DEF RowsOK
<1>3. N \in Nat /\ E \in Nat /\ p \in 1..E /\ p \in 0..E /\ placed \in Nat /\ placed \in 0..(E - 1)
  BY <1>1, <1>2, CheckedFacts
<1>4. u \in 1..N /\ To(p) \in 1..N /\ input.edges[p].weight \in 0..MaxCost /\ u \in 1..(N + 1)
  <2>1. From(p) \in 1..N /\ To(p) \in 1..N /\ input.edges[p].weight \in 0..MaxCost
    BY <1>2, <1>3, CheckedFacts
  <2> HIDE DEF p
  <2>2. \A v \in 1..N : v \in 1..(N + 1)
    BY <1>3
  <2> QED
    BY <2>1, <2>2
<1>5. /\ Count(u, p) = Count(u, placed) + 1
      /\ \A v : v # u => Count(v, p) = Count(v, placed)
  BY <1>2, <1>3, CountFacts
<1>6. /\ Arcs(u, p) = Append(Arcs(u, placed), Arc(p))
      /\ \A v : v # u => Arcs(v, p) = Arcs(v, placed)
      /\ Arcs(u, placed) \in Seq(ArcType) /\ Len(Arcs(u, placed)) = Count(u, placed)
  BY <1>2, <1>3, ArcsFacts
<1>7. /\ Count(u, placed) \in Nat /\ Start(u) \in Nat
      /\ pos = Start(u) + Count(u, placed) + 1 /\ pos <= Start(u + 1) /\ pos \in 1..E
  <2>1. /\ Count(u, placed) \in Nat /\ Start(u) \in Nat /\ Start(u + 1) \in 0..E
        /\ Start(u) + Count(u, p) <= Start(u + 1)
    BY <1>2, <1>3, <1>4, PositionFacts
  <2>2. offsets[u] = Start(u) + Count(u, placed)
    BY <1>2, <1>4
  <2> HIDE DEF u, p
  <2> QED
    BY <1>3, <1>5, <2>1, <2>2
<1> HIDE DEF u, pos
<1>8. /\ Checked' /\ E' = E /\ N' = N
      /\ \A v, k : Count(v, k)' = Count(v, k) /\ Start(v)' = Start(v) /\ Arcs(v, k)' = Arcs(v, k)
  BY <1>1, <1>2 DEF Checked, LabelsOK, Label, E, N, From, To, Count, Start, Arcs
<1>9. /\ DOMAIN offsets' = 1..(N + 1)
      /\ \A v \in 1..(N + 1) : offsets'[v] = Start(v) + Count(v, p)
  <2>1. DOMAIN offsets' = 1..(N + 1)
    BY <1>1, <1>2
  <2>2. ASSUME NEW v \in 1..(N + 1) PROVE offsets'[v] = Start(v) + Count(v, p)
    <3>1. CASE v = u
      <4>1. offsets'[u] = offsets[u] + 1
        BY <1>1, <1>2, <1>4
      <4> QED
        BY <1>2, <1>4, <1>5, <1>7, <3>1, <4>1
    <3>2. CASE v # u
      BY <1>1, <1>2, <1>5, <3>2
    <3> QED
      BY <3>1, <3>2
  <2> QED
    BY <2>1, <2>2
<1>10. /\ targets' \in [1..E -> 0..N] /\ weights' \in [1..E -> 0..MaxCost]
       /\ targets'[pos] = To(p) /\ weights'[pos] = input.edges[p].weight
       /\ \A i \in 1..E : i # pos => targets'[i] = targets[i] /\ weights'[i] = weights[i]
  <2>1. To(p) \in 0..N
    BY <1>3, <1>4
  <2> QED
    BY <1>1, <1>2, <1>4, <1>7, <2>1
<1>11. ASSUME NEW v \in 1..N, NEW i \in 1..Count(v, placed)
       PROVE  /\ targets'[Start(v) + i] = Arcs(v, placed)[i].to
              /\ weights'[Start(v) + i] = Arcs(v, placed)[i].weight
  <2> DEFINE here == Start(v) + i
  <2>1. /\ Count(v, placed) \in Nat /\ Start(v) \in Nat /\ Start(v + 1) \in 0..E
        /\ Start(v) + Count(v, placed) <= Start(v + 1)
        /\ v > u => Start(u + 1) <= Start(v)
        /\ v < u => Start(v + 1) <= Start(u)
    BY <1>2, <1>3, <1>4, PositionFacts
  <2>2. here \in 1..E
    BY <1>3, <2>1
  <2>3. here # pos
    <3>1. CASE v = u
      BY <1>7, <2>1, <3>1
    <3>2. CASE v < u
      <4>1. Start(v) \in Nat /\ Start(v + 1) \in Nat /\ Start(u) \in Nat /\ i <= Count(v, placed)
        BY <1>7, <2>1
      <4>2. here <= Start(u)
        BY <2>1, <3>2, <4>1
      <4> QED
        BY <1>7, <4>1, <4>2
    <3>3. CASE v > u
      <4>1. Start(v) \in Nat /\ pos \in Nat /\ pos <= Start(v)
        <5>1. Start(u + 1) \in Nat /\ Start(u + 1) <= Start(v) /\ pos <= Start(u + 1)
          BY <1>2, <1>3, <1>4, <1>7, <2>1, <3>3, PositionFacts
        <5> QED
          BY <1>7, <2>1, <5>1
      <4>2. here > Start(v)
        BY <4>1
      <4> HIDE DEF here
      <4> QED
        BY <2>2, <4>1, <4>2
    <3> QED
      BY <1>3, <1>4, <3>1, <3>2, <3>3
  <2>4. targets[here] = Arcs(v, placed)[i].to /\ weights[here] = Arcs(v, placed)[i].weight
    BY <1>2 DEF Holds
  <2> QED
    BY <1>10, <2>2, <2>3, <2>4
<1>12. ASSUME NEW v \in 1..N, NEW i \in 1..Count(v, p)
       PROVE  /\ targets'[Start(v) + i] = Arcs(v, p)[i].to
              /\ weights'[Start(v) + i] = Arcs(v, p)[i].weight
  <2>1. CASE v # u
    BY <1>5, <1>6, <1>11, <2>1
  <2>2. CASE v = u /\ i \in 1..Count(u, placed)
    <3>1. Arcs(u, p)[i] = Arcs(u, placed)[i]
      BY <1>6, <2>2, AppendProperties
    <3> QED
      BY <1>11, <2>2, <3>1
  <2>3. CASE v = u /\ ~(i \in 1..Count(u, placed))
    <3>1. i = Count(u, placed) + 1
      BY <1>5, <1>7, <2>3
    <3>2. Arc(p) \in ArcType
      BY <1>4 DEF Arc, ArcType
    <3>3. Arcs(u, p)[i] = Arc(p)
      BY <1>6, <3>1, <3>2, AppendProperties
    <3>4. Start(u) + i = pos
      BY <1>7, <3>1
    <3> QED
      BY <1>10, <2>3, <3>3, <3>4 DEF Arc
  <2> QED
    BY <2>1, <2>2, <2>3
<1>13. \A v \in 1..N' : Holds(v, placed)'
  BY <1>1, <1>8, <1>12 DEF Holds
<1> HIDE DEF p
<1> QED
  BY <1>1, <1>3, <1>8, <1>9, <1>10, <1>13 DEF RowsOK

LEMMA RowsShifted ==
    ASSUME RowsOK, ShiftOffsets
    PROVE  RowsOK'
<1>1. /\ stage = "placing" /\ placed = E /\ stage' = "built"
      /\ offsets' = [u \in DOMAIN offsets |-> IF u = 1 THEN 0 ELSE offsets[u - 1]]
      /\ UNCHANGED <<input, ids, index, targets, weights, placed>>
  BY DEF ShiftOffsets, E
<1>2. /\ Checked /\ placed \in 0..E /\ DOMAIN offsets = 1..(N + 1)
      /\ targets \in [1..E -> 0..N] /\ weights \in [1..E -> 0..MaxCost]
      /\ \A v \in 1..(N + 1) : offsets[v] = Start(v) + Count(v, E)
      /\ \A v \in 1..N : Holds(v, E)
  BY <1>1 DEF RowsOK
<1>3. N \in Nat
  BY <1>2, CheckedFacts
<1>4. ASSUME NEW u \in 1..(N + 1) PROVE offsets'[u] = Start(u)
  <2>1. CASE u = 1
    BY <1>1, <1>2, <2>1, StartFacts
  <2>2. CASE u # 1
    <3>1. u - 1 \in 1..N /\ u - 1 \in 1..(N + 1) /\ u - 1 + 1 = u
      BY <1>3, <2>2
    <3>2. Start(u) = Start(u - 1) + Count(u - 1, E)
      <4>1. \A v \in 1..N : Start(v + 1) = Start(v) + Count(v, E)
        BY <1>2, StartFacts
      <4>2. Start(u - 1 + 1) = Start(u - 1) + Count(u - 1, E)
        BY <3>1, <4>1
      <4> QED
        BY <3>1, <4>2
    <3>3. offsets'[u] = offsets[u - 1]
      BY <1>1, <1>2, <2>2
    <3> QED
      BY <1>2, <3>1, <3>2, <3>3
  <2> QED
    BY <2>1, <2>2
<1>5. /\ Checked' /\ E' = E /\ N' = N
      /\ \A v, k : Count(v, k)' = Count(v, k) /\ Start(v)' = Start(v) /\ Arcs(v, k)' = Arcs(v, k)
  BY <1>1, <1>2 DEF Checked, LabelsOK, Label, E, N, From, To, Count, Start, Arcs
<1>6. \A v \in 1..N : Holds(v, E)'
  <2>1. \A v \in 1..N : \A i \in 1..Count(v, E) :
           /\ targets'[Start(v) + i] = Arcs(v, E)[i].to
           /\ weights'[Start(v) + i] = Arcs(v, E)[i].weight
    BY <1>1, <1>2 DEF Holds
  <2> QED
    BY <1>5, <2>1 DEF Holds
<1>7. DOMAIN offsets' = 1..(N + 1)
  BY <1>1, <1>2
<1> QED
  BY <1>1, <1>2, <1>4, <1>5, <1>6, <1>7 DEF RowsOK

(* The other steps leave the rows alone. *)
LEMMA RowsKept ==
    ASSUME RowsOK, UNCHANGED <<input, stage, ids, index, offsets, targets, weights, placed>>
    PROVE  RowsOK'
<1>1. /\ E' = E /\ N' = N /\ (Checked <=> Checked')
      /\ \A v, k : Count(v, k)' = Count(v, k) /\ Start(v)' = Start(v) /\ Arcs(v, k)' = Arcs(v, k)
  BY DEF Checked, LabelsOK, Label, E, N, From, To, Count, Start, Arcs
<1>2. \A v, k : Holds(v, k)' <=> Holds(v, k)
  BY <1>1 DEF Holds
<1> QED
  BY <1>1, <1>2 DEF RowsOK

-----------------------------------------------------------------------------
(* The invariant of the construction. *)
CsrInv == GraphInv /\ RowsOK

LEMMA CsrInvInit == Init => CsrInv
<1>1. Init => RowsOK
  BY DEF Init, CsrInit, RowsOK
<1> QED
  BY <1>1, GraphInvInit DEF CsrInv

LEMMA CsrInvStep == CsrInv /\ [Next]_vars => CsrInv'
<1> SUFFICES ASSUME CsrInv, [Next]_vars PROVE CsrInv'
  OBVIOUS
<1>1. GraphInv' /\ GraphInv /\ RowsOK
  BY GraphInvStep DEF CsrInv
<1>2. CASE CountEdges
  BY <1>1, <1>2, RowsCounted DEF CsrInv
<1>3. CASE SumOffsets
  BY <1>1, <1>3, RowsSummed DEF CsrInv
<1>4. CASE PlaceEdge
  BY <1>1, <1>4, RowsPlaced DEF CsrInv
<1>5. CASE ShiftOffsets
  BY <1>1, <1>5, RowsShifted DEF CsrInv
<1>6. CASE RefuseSize \/ AddNode \/ RefuseDuplicate \/ RefuseEdge
  <2>1. /\ stage = "labels" /\ stage' \in {"labels", "failed"}
        /\ UNCHANGED <<placed, offsets, targets, weights>>
    BY <1>6 DEF RefuseSize, AddNode, RefuseDuplicate, RefuseEdge, Fail, built
  <2>2. RowsOK'
    BY <1>1, <2>1 DEF RowsOK
  <2> QED
    BY <1>1, <2>2 DEF CsrInv
<1>7. CASE AskImmediate \/ AskSearch \/ Step \/ UNCHANGED vars
  <2>1. UNCHANGED csrVars
    BY <1>7 DEF AskImmediate, AskSearch, Step, PopStale, PopTarget, PopNode, Popped, Exhausted,
       SkipEdge, Relax, Following, Expanded, Retrace, Retraced, vars
  <2> QED
    BY <1>1, <2>1, RowsKept DEF csrVars, built, CsrInv
<1> QED
  BY <1>2, <1>3, <1>4, <1>5, <1>6, <1>7 DEF Next, Construct

(* What the searches read: the edges of each node, as they are intended. *)
Out == Intended(input).out

LEMMA BuiltFacts ==
    ASSUME CsrInv, stage = "built"
    PROVE  /\ Checked /\ DOMAIN Out = 1..N /\ DOMAIN ids = 1..N
           /\ Intended(input).index = index
           /\ \A u \in 1..N : Out[u] = Arcs(u, E)
           /\ \A u \in 1..N :
                 /\ Out[u] \in Seq(ArcType) /\ Len(Out[u]) \in Nat
                 /\ offsets[u] \in 0..E /\ offsets[u + 1] = offsets[u] + Len(Out[u])
                 /\ \A i \in 1..Len(Out[u]) : /\ targets[offsets[u] + i] = Out[u][i].to
                                              /\ weights[offsets[u] + i] = Out[u][i].weight
<1>1. /\ Checked
      /\ \A u \in 1..(N + 1) : offsets[u] = Start(u)
      /\ \A u \in 1..N : Holds(u, E)
  BY DEF CsrInv, RowsOK
<1>2. N \in Nat /\ E \in Nat /\ E \in 0..E /\ DOMAIN input.nodes = 1..N /\ DOMAIN ids = 1..N
  BY <1>1, CheckedFacts
<1>3. /\ Intended(input).index = index
      /\ DOMAIN Out = 1..N /\ \A u \in 1..N : Out[u] = Arcs(u, E)
  BY <1>1, <1>2, IndexIsNodeOf DEF Out, Intended, Arcs, E
<1>4. ASSUME NEW u \in 1..N
      PROVE  /\ Out[u] \in Seq(ArcType) /\ Len(Out[u]) \in Nat
             /\ offsets[u] \in 0..E /\ offsets[u + 1] = offsets[u] + Len(Out[u])
             /\ \A i \in 1..Len(Out[u]) : /\ targets[offsets[u] + i] = Out[u][i].to
                                          /\ weights[offsets[u] + i] = Out[u][i].weight
  <2>1. u \in 1..(N + 1) /\ u + 1 \in 1..(N + 1)
    BY <1>2
  <2>2. Out[u] \in Seq(ArcType) /\ Len(Out[u]) = Count(u, E)
    <3>1. Arcs(u, E) \in Seq(ArcType) /\ Len(Arcs(u, E)) = Count(u, E)
      BY <1>1, <1>2, ArcsFacts
    <3> QED
      BY <1>3, <3>1
  <2>3. Start(u + 1) = Start(u) + Count(u, E) /\ Start(u) \in 0..E /\ Count(u, E) \in Nat
    BY <1>1, <1>2, <2>1, StartFacts, CountFacts
  <2> QED
    BY <1>1, <1>3, <2>1, <2>2, <2>3 DEF Holds
<1> QED
  BY <1>1, <1>2, <1>3, <1>4

LEMMA RowsRight == CsrInv => RowsAreExact
<1> SUFFICES ASSUME CsrInv, stage = "built"
             PROVE  /\ index = Intended(input).index
                    /\ [u \in DOMAIN ids |-> Row(u)] = Out
  BY DEF RowsAreExact, Out
<1>1. ASSUME NEW u \in 1..N PROVE Row(u) = Out[u]
  <2>1. /\ Out[u] \in Seq(ArcType) /\ Len(Out[u]) \in Nat
        /\ offsets[u] \in Nat /\ offsets[u + 1] = offsets[u] + Len(Out[u])
        /\ \A i \in 1..Len(Out[u]) : /\ targets[offsets[u] + i] = Out[u][i].to
                                     /\ weights[offsets[u] + i] = Out[u][i].weight
    BY BuiltFacts
  <2>2. offsets[u + 1] - offsets[u] = Len(Out[u])
    BY <2>1
  <2>3. \A i \in 1..Len(Out[u]) :
           Out[u][i] = [to |-> targets[offsets[u] + i], weight |-> weights[offsets[u] + i]]
    <3>1. TAKE i \in 1..Len(Out[u])
    <3>2. Out[u][i] \in ArcType
      BY <2>1, ElementOfSeq
    <3>3. Out[u][i] = [to |-> Out[u][i].to, weight |-> Out[u][i].weight]
      BY <3>2 DEF ArcType
    <3> QED
      BY <2>1, <3>3
  <2>4. Out[u] = [i \in 1..Len(Out[u]) |-> Out[u][i]]
    BY <2>1
  <2> QED
    BY <2>2, <2>3, <2>4 DEF Row
<1>2. Out = [u \in 1..N |-> Out[u]]
  <2>1. Out = [u \in DOMAIN input.nodes |-> ArcsFrom(input, u)[Len(input.edges)]]
    BY DEF Out, Intended
  <2>2. DOMAIN Out = DOMAIN input.nodes
    BY <2>1
  <2>3. DOMAIN Out = 1..N
    BY BuiltFacts
  <2> QED
    BY <2>1, <2>2, <2>3
<1> QED
  BY <1>1, <1>2, BuiltFacts

(* A construction that succeeds yields exactly the edges given, row by row *)
(* in the order given (graph.rs, new_with_attrs).                          *)
THEOREM RowsExact == Spec => []RowsAreExact
  BY CsrInvInit, CsrInvStep, RowsRight, PTL DEF Spec

-----------------------------------------------------------------------------
(* The queries of the search for the cost are queries of a graph, for      *)
(* every valid input.                                                      *)
ArcsOf(n) == [to : DOMAIN n.nodes, weight : 0..MaxCost]

LEMMA NodeOfFacts ==
    ASSUME NEW n, NEW i \in DOMAIN n.nodes
    PROVE  /\ NodeOf(n)[n.nodes[i]] \in DOMAIN n.nodes
           /\ n.nodes[NodeOf(n)[n.nodes[i]]] = n.nodes[i]
<1> DEFINE l == n.nodes[i]
<1>1. l \in {n.nodes[j] : j \in DOMAIN n.nodes}
  OBVIOUS
<1>2. NodeOf(n)[l] = CHOOSE j \in DOMAIN n.nodes : n.nodes[j] = l
  BY <1>1 DEF NodeOf
<1>3. \E j \in DOMAIN n.nodes : n.nodes[j] = l
  OBVIOUS
<1> HIDE DEF l
<1>4. /\ (CHOOSE j \in DOMAIN n.nodes : n.nodes[j] = l) \in DOMAIN n.nodes
      /\ n.nodes[CHOOSE j \in DOMAIN n.nodes : n.nodes[j] = l] = l
  BY <1>3
<1> QED
  BY <1>2, <1>4 DEF l

LEMMA ArcsTyped ==
    ASSUME NEW n \in Input, Valid(n), NEW u
    PROVE  ArcsFrom(n, u)[Len(n.edges)] \in Seq(ArcsOf(n))
<1> DEFINE m == Len(n.edges)
           S == {k \in 0..m : ArcsFrom(n, u)[k] \in Seq(ArcsOf(n))}
<1>1. /\ m \in Nat /\ DOMAIN n.edges = 1..m
      /\ \A i \in 1..m : n.edges[i].weight \in -1..MaxCost
  <2>1. /\ n.edges \in Seq({n.edges[i] : i \in DOMAIN n.edges})
        /\ \A i \in DOMAIN n.edges : n.edges[i].weight \in -1..MaxCost
    BY InputAssumption
  <2> QED
    BY <2>1, LenProperties
<1>2. 0 \in S
  <2>1. ArcsFrom(n, u)[0] = <<>>
    BY <1>1, ArcsUnfold
  <2>2. <<>> \in Seq(ArcsOf(n))
    OBVIOUS
  <2>3. 0 \in 0..m
    BY <1>1
  <2>4. ArcsFrom(n, u)[0] \in Seq(ArcsOf(n))
    BY <2>1, <2>2
  <2> HIDE DEF m
  <2> QED
    BY <2>3, <2>4
<1>3. ASSUME NEW k \in 0..(m - 1), k \in S PROVE k + 1 \in S
  <2>1. k + 1 \in 1..m /\ k + 1 \in 0..m
    BY <1>1
  <2>2. ArcsFrom(n, u)[k + 1] = Extended(n, ArcsFrom(n, u)[k], u, k + 1)
    BY <1>1, ArcsUnfold
  <2>3. [to |-> NodeOf(n)[n.edges[k + 1].to], weight |-> n.edges[k + 1].weight] \in ArcsOf(n)
    <3>1. PICK j \in DOMAIN n.nodes : n.nodes[j] = n.edges[k + 1].to
      BY <1>1, <2>1 DEF Valid
    <3>2. NodeOf(n)[n.edges[k + 1].to] \in DOMAIN n.nodes
      BY <3>1, NodeOfFacts
    <3>3. n.edges[k + 1].weight \in -1..MaxCost /\ n.edges[k + 1].weight >= 0
      BY <1>1, <2>1 DEF Valid
    <3>4. n.edges[k + 1].weight \in 0..MaxCost
      BY <3>3, BoundsAssumption
    <3> QED
      BY <3>2, <3>4 DEF ArcsOf
  <2>4. ArcsFrom(n, u)[k] \in Seq(ArcsOf(n))
    BY <1>3
  <2>5. ArcsFrom(n, u)[k + 1] \in Seq(ArcsOf(n))
    BY <2>2, <2>3, <2>4, AppendProperties DEF Extended
  <2> QED
    BY <2>1, <2>5
<1>4. m \in 0..m
  BY <1>1
<1>5. \A k \in 0..m : k \in S
  <2> HIDE DEF S, m
  <2> QED
    BY <1>1, <1>2, <1>3, UpTo
<1> QED
  BY <1>4, <1>5

(* What the theorems about Dijkstra assume of its queries. *)
LEMMA QueriesAreTyped ==
    /\ MaxCost \in Nat
    /\ \A q \in Queries :
          /\ q.graph.out \in Seq(Seq([to : DOMAIN q.graph.out, weight : 0..MaxCost]))
          /\ q.graph.index \in [DOMAIN q.graph.index -> DOMAIN q.graph.out]
<1> SUFFICES ASSUME NEW q \in Queries
             PROVE  /\ q.graph.out \in Seq(Seq([to : DOMAIN q.graph.out, weight : 0..MaxCost]))
                    /\ q.graph.index \in [DOMAIN q.graph.index -> DOMAIN q.graph.out]
  BY BoundsAssumption
<1>1. PICK n \in Input : Valid(n) /\ q.graph = Intended(n)
  BY DEF Queries, AskedOf
<1>2. /\ q.graph.index = NodeOf(n)
      /\ q.graph.out = [u \in DOMAIN n.nodes |-> ArcsFrom(n, u)[Len(n.edges)]]
  BY <1>1 DEF Intended
<1>3. DOMAIN n.nodes = 1..Len(n.nodes) /\ Len(n.nodes) \in Nat
  <2>1. n.nodes \in Seq({n.nodes[i] : i \in DOMAIN n.nodes})
    BY InputAssumption
  <2> QED
    BY <2>1, LenProperties
<1>4. DOMAIN q.graph.out = DOMAIN n.nodes
  BY <1>2
<1>5. q.graph.out \in Seq(Seq(ArcsOf(n)))
  <2>1. \A u \in 1..Len(n.nodes) : ArcsFrom(n, u)[Len(n.edges)] \in Seq(ArcsOf(n))
    BY <1>1, ArcsTyped
  <2>2. q.graph.out = [u \in 1..Len(n.nodes) |-> ArcsFrom(n, u)[Len(n.edges)]]
    BY <1>2, <1>3
  <2> QED
    BY <1>3, <2>1, <2>2
<1>6. q.graph.index \in [DOMAIN q.graph.index -> DOMAIN n.nodes]
  <2>1. DOMAIN NodeOf(n) = {n.nodes[i] : i \in DOMAIN n.nodes}
    BY DEF NodeOf
  <2>2. \A l \in DOMAIN NodeOf(n) : NodeOf(n)[l] \in DOMAIN n.nodes
    BY <2>1, NodeOfFacts
  <2>3. NodeOf(n) = [l \in DOMAIN NodeOf(n) |-> NodeOf(n)[l]]
    BY DEF NodeOf
  <2> QED
    BY <1>2, <2>2, <2>3
<1> QED
  BY <1>4, <1>5, <1>6 DEF ArcsOf

-----------------------------------------------------------------------------
(* The invariant of the search. *)

Origin(q) == index[q.from]
Goal(q)   == index[q.to]

(* Before the first query. *)
Idle == /\ question = {} /\ phase = "answered" /\ answer = {}
        /\ dist = <<>> /\ prev = <<>> /\ heap = {} /\ at = {} /\ next = 1 /\ path = <<>>

(* The arrays have the sizes and the values they should; while a query is  *)
(* worked on, it is one that needs a search.                               *)
ArraysOK ==
    /\ stage # "built" => Idle
    /\ question = {} \/ \E q \in Question : question = {q}
    /\ \A a, b \in answer : a = b
    /\ phase \in {"searching", "retracing", "answered"}
    /\ dist \in [DOMAIN dist -> -1..Infinite] /\ prev \in [DOMAIN dist -> 0..N]
    /\ DOMAIN dist = {} \/ DOMAIN dist = 1..N
    /\ heap \subseteq (0..Infinite) \X DOMAIN dist
    /\ at = {} \/ \E e \in (0..Infinite) \X DOMAIN dist : at = {e}
    /\ next \in Nat \ {0}
    /\ path \in Seq(1..N)
    /\ phase = "answered" /\ answer = {} => question = {}
    /\ phase # "answered" =>
          /\ answer = {} /\ DOMAIN dist = 1..N
          /\ \E q \in question : Known(q) /\ Admitted(q) /\ q.from # q.to

(* A node is done when it is discovered and its entry has been popped. *)
Done(u) == dist[u] >= 0 /\ <<dist[u], u>> \notin heap

(* What its neighbour is reached at along the i-th edge of p. *)
Reaches(p, i) == Plus(dist[p], Out[p][i].weight)

(* The first n edges of p have been followed: each accepted end is at      *)
(* least as near as the edge brings it.                                    *)
Nearer(q, p, n) ==
    \A i \in 1..n : Out[p][i].to \in Accepted(q) =>
                       dist[Out[p][i].to] >= 0 /\ dist[Out[p][i].to] <= Reaches(p, i)

(* A discovered node other than the source is reached over its             *)
(* predecessor, at its distance.                                           *)
Parent(q, u) ==
    IF u = Origin(q) THEN prev[u] = 0 /\ dist[u] = 0
    ELSE /\ prev[u] # 0 /\ dist[prev[u]] >= 0
         /\ \E i \in 1..Len(Out[prev[u]]) : Out[prev[u]][i].to = u /\ dist[u] = Reaches(prev[u], i)

Found == {u \in DOMAIN dist : dist[u] >= 0}

(* Whoever follows predecessors leaves every set of discovered nodes. *)
NoCycle == \A S \in SUBSET Found : S # {} => \E u \in S : prev[u] \notin S

(* The discovered nodes are accepted and form a tree below the source. *)
TreeOK(q) ==
    /\ dist[Origin(q)] = 0
    /\ Found \subseteq Accepted(q)
    /\ \A u \in Found : Parent(q, u)
    /\ NoCycle

(* While searching: a predecessor is always done, which is why no edge of  *)
(* cost zero closes a cycle; what is done is never farther than what is    *)
(* still pending.                                                          *)
SearchOK(q) ==
    /\ TreeOK(q)
    /\ \A e \in heap : 0 <= dist[e[2]] /\ dist[e[2]] <= e[1]
    /\ \A e \in at : dist[e[2]] = e[1] /\ e \notin heap /\ Nearer(q, e[2], next - 1)
    /\ \A u \in Found : prev[u] # 0 => Done(prev[u])
    /\ \A u \in Found : Done(u) =>
          /\ u # Goal(q)
          /\ \A e \in heap \cup at : dist[u] <= e[1]
          /\ (\E e \in at : e[2] = u) \/ Nearer(q, u, Len(Out[u]))

(* While retracing: the path leads to the target, each node the            *)
(* predecessor of the next.                                                *)
PathOK(q) ==
    /\ TreeOK(q)
    /\ \A u \in Found : prev[u] # 0 => Nearer(q, prev[u], Len(Out[prev[u]]))
    /\ path # <<>> /\ path[Len(path)] = Goal(q)
    /\ \A i \in 1..Len(path) : dist[path[i]] \in 0..MaxCost
    /\ \A i \in 1..(Len(path) - 1) : prev[path[i + 1]] = path[i]

SearchInv == phase = "searching" => \A q \in question : SearchOK(q)
PathInv   == phase = "retracing" => \A q \in question : PathOK(q)

SInv == CsrInv /\ ArraysOK /\ SearchInv /\ PathInv

-----------------------------------------------------------------------------
(* Costs. *)
LEMMA PlusFacts ==
    /\ MaxCost \in Nat /\ Infinite \in Nat /\ ~(Infinite <= MaxCost)
    /\ \A c \in 0..Infinite : c \in Nat /\ (c # Infinite => c \in 0..MaxCost)
    /\ \A c \in 0..Infinite, w \in 0..MaxCost :
          /\ Plus(c, w) \in 0..Infinite /\ c <= Plus(c, w)
          /\ Plus(c, w) <= MaxCost => Plus(c, w) = c + w /\ c \in 0..MaxCost
    /\ \A c, d \in 0..Infinite, w \in 0..MaxCost : c <= d => Plus(c, w) <= Plus(d, w)
BY BoundsAssumption DEF Plus, Infinite

(* The graph as the searches use it. *)
LEMMA ReadFacts ==
    ASSUME CsrInv, stage = "built"
    PROVE  /\ N \in Nat /\ DOMAIN ids = 1..N /\ input \in Input
           /\ index \in [DOMAIN index -> 1..N]
           /\ \A l \in DOMAIN index : ids[index[l]] = l
           /\ \A i \in 1..N : ids[i] \in DOMAIN index /\ index[ids[i]] = i /\ ids[i] = input.nodes[i]
           /\ \A p \in 1..N :
                 /\ Len(Out[p]) \in Nat
                 /\ \A i \in 1..Len(Out[p]) :
                       Out[p][i].to \in 1..N /\ Out[p][i].weight \in 0..MaxCost
<1>1. Checked /\ DOMAIN ids = 1..N
      /\ \A p \in 1..N : Out[p] \in Seq(ArcType) /\ Len(Out[p]) \in Nat
  BY BuiltFacts
<1>2. /\ N \in Nat /\ input \in Input /\ index \in [DOMAIN index -> 1..N]
      /\ \A i \in 1..N : ids[i] = input.nodes[i] /\ index[ids[i]] = i
      /\ DOMAIN index = {ids[i] : i \in 1..N}
  BY <1>1, CheckedFacts DEF Checked, LabelsOK, N
<1>3. \A l \in DOMAIN index : ids[index[l]] = l
  BY <1>2
<1>4. ASSUME NEW p \in 1..N, NEW i \in 1..Len(Out[p])
      PROVE  Out[p][i].to \in 1..N /\ Out[p][i].weight \in 0..MaxCost
  <2>1. Out[p][i] \in ArcType
    BY <1>1, ElementOfSeq
  <2> QED
    BY <2>1 DEF ArcType
<1> QED
  BY <1>1, <1>2, <1>3, <1>4

LEMMA IdleIsOK == Idle => ArraysOK /\ SearchInv /\ PathInv
<1> SUFFICES ASSUME Idle PROVE ArraysOK /\ SearchInv /\ PathInv
  OBVIOUS
<1>1. DOMAIN dist = {} /\ dist = <<>> /\ prev = <<>> /\ path \in Seq(1..N)
  BY DEF Idle
<1>2. dist \in [DOMAIN dist -> -1..Infinite] /\ prev \in [DOMAIN dist -> 0..N]
  BY <1>1
<1> QED
  BY <1>1, <1>2 DEF ArraysOK, SearchInv, PathInv, Idle

LEMMA SInvInit == Init => SInv
<1>1. Init => Idle
  BY DEF Init, Idle
<1> QED
  BY <1>1, CsrInvInit, IdleIsOK DEF SInv, Init, CsrInit

(* Nothing is searched before the graph is built. *)
LEMMA ConstructKeeps ==
    ASSUME SInv, Construct, UNCHANGED searchVars
    PROVE  SInv'
<1>1. stage # "built"
  BY DEF Construct, RefuseSize, AddNode, RefuseDuplicate, RefuseEdge, CountEdges, SumOffsets,
         PlaceEdge, ShiftOffsets
<1>2. Idle /\ Idle'
  BY <1>1 DEF SInv, ArraysOK, Idle, searchVars
<1>3. CsrInv'
  BY CsrInvStep DEF SInv, Next
<1>4. (ArraysOK /\ SearchInv /\ PathInv)'
  BY <1>2, IdleIsOK, PTL
<1> QED
  BY <1>3, <1>4 DEF SInv

-----------------------------------------------------------------------------
(* What the steps of a search leave alone. *)
LEMMA SameGraph ==
    ASSUME UNCHANGED csrVars
    PROVE  /\ stage' = stage /\ N' = N /\ Out' = Out
           /\ \A q : /\ Origin(q)' = Origin(q) /\ Goal(q)' = Goal(q)
                     /\ Accepted(q)' = Accepted(q) /\ Known(q)' = Known(q)
BY DEF csrVars, built, N, Out, Origin, Goal, Accepted, Known

LEMMA CsrKept ==
    ASSUME CsrInv, [Next]_vars
    PROVE  CsrInv'
BY CsrInvStep

(* While a query is worked on. *)
LEMMA AtWork ==
    ASSUME SInv, phase # "answered"
    PROVE  \E q \in Question :
              /\ question = {q} /\ stage = "built" /\ answer = {}
              /\ Known(q) /\ Admitted(q) /\ Origin(q) # Goal(q)
              /\ Origin(q) \in 1..N /\ Goal(q) \in 1..N
              /\ ids[Origin(q)] = q.from /\ ids[Goal(q)] = q.to
              /\ Accepted(q) \subseteq 1..N /\ Origin(q) \in Accepted(q) /\ Goal(q) \in Accepted(q)
              /\ \A u \in Accepted(q) : ids[u] \in q.accepted
              /\ phase = "searching" => SearchOK(q)
              /\ phase = "retracing" => PathOK(q)
<1>1. PICK q \in Question : question = {q} /\ Known(q) /\ Admitted(q) /\ q.from # q.to
  BY DEF SInv, ArraysOK
<1>2. stage = "built" /\ answer = {} /\ CsrInv
  BY DEF SInv, ArraysOK, Idle
<1>3. /\ Origin(q) \in 1..N /\ Goal(q) \in 1..N
      /\ ids[Origin(q)] = q.from /\ ids[Goal(q)] = q.to /\ DOMAIN ids = 1..N
  BY <1>1, <1>2, ReadFacts DEF Known, Origin, Goal
<1>4. Origin(q) # Goal(q)
  BY <1>1, <1>3
<1>5. Accepted(q) \subseteq 1..N /\ Origin(q) \in Accepted(q) /\ Goal(q) \in Accepted(q)
  BY <1>1, <1>3 DEF Accepted, Admitted
<1>6. \A u \in Accepted(q) : ids[u] \in q.accepted
  BY DEF Accepted
<1> QED
  BY <1>1, <1>2, <1>3, <1>4, <1>5, <1>6 DEF SInv, SearchInv, PathInv

(* The arrays at work. *)
LEMMA WorkTypes ==
    ASSUME SInv, phase # "answered"
    PROVE  /\ N \in Nat /\ DOMAIN dist = 1..N /\ DOMAIN prev = 1..N
           /\ dist \in [1..N -> -1..Infinite] /\ prev \in [1..N -> 0..N]
           /\ \A u \in 1..N : dist[u] \in Int /\ (dist[u] >= 0 => dist[u] \in 0..Infinite)
           /\ heap \subseteq (0..Infinite) \X (1..N)
           /\ \A e \in heap \cup at : e[1] \in 0..Infinite /\ e[1] \in Nat /\ e[2] \in 1..N /\ e = <<e[1], e[2]>>
           /\ \A e \in at : at = {e}
           /\ next \in Nat \ {0} /\ path \in Seq(1..N)
           /\ Found = {u \in 1..N : dist[u] >= 0}
<1>1. N \in Nat /\ Infinite \in Nat
  BY ReadFacts, PlusFacts DEF SInv, ArraysOK, Idle
<1>2. /\ DOMAIN dist = 1..N
      /\ dist \in [1..N -> -1..Infinite] /\ prev \in [1..N -> 0..N]
      /\ heap \subseteq (0..Infinite) \X (1..N)
      /\ at = {} \/ \E e \in (0..Infinite) \X (1..N) : at = {e}
      /\ next \in Nat \ {0} /\ path \in Seq(1..N)
  BY DEF SInv, ArraysOK
<1>3. \A u \in 1..N : dist[u] \in Int /\ (dist[u] >= 0 => dist[u] \in 0..Infinite)
  BY <1>1, <1>2
<1>4. /\ \A e \in heap \cup at : e[1] \in 0..Infinite /\ e[1] \in Nat /\ e[2] \in 1..N /\ e = <<e[1], e[2]>>
      /\ \A e \in at : at = {e}
  <2>1. \A e \in heap \cup at : e \in (0..Infinite) \X (1..N)
    BY <1>2
  <2>2. \A c \in 0..Infinite : c \in Nat
    BY <1>1
  <2>3. \A e \in at : at = {e}
    BY <1>2
  <2> QED
    BY <2>1, <2>2, <2>3
<1> QED
  BY <1>1, <1>2, <1>3, <1>4 DEF Found

(* Predecessors are discovered nodes. *)
LEMMA ParentFound ==
    ASSUME SInv, phase # "answered", NEW q, TreeOK(q), NEW u \in Found, prev[u] # 0
    PROVE  prev[u] \in Found /\ prev[u] \in 1..N /\ u \in 1..N /\ u # Origin(q)
<1>1. u \in 1..N /\ prev[u] \in 0..N /\ N \in Nat
  BY WorkTypes
<1>2. prev[u] \in 1..N
  BY <1>1
<1>3. dist[prev[u]] >= 0 /\ u # Origin(q)
  BY DEF TreeOK, Parent
<1> QED
  BY <1>1, <1>2, <1>3, WorkTypes

(* One lemma for the types after any step of a search. *)
LEMMA ArraysStep ==
    ASSUME SInv, [Next]_vars, UNCHANGED csrVars, UNCHANGED question, phase # "answered",
           dist' \in [1..N -> -1..Infinite], prev' \in [1..N -> 0..N],
           heap' \subseteq (0..Infinite) \X (1..N),
           at' = {} \/ \E e \in (0..Infinite) \X (1..N) : at' = {e},
           next' \in Nat \ {0}, path' \in Seq(1..N),
           \/ phase' \in {"searching", "retracing"} /\ answer' = {}
           \/ phase' = "answered" /\ \E a : answer' = {a}
    PROVE  CsrInv' /\ ArraysOK'
<1>1. CsrInv'
  BY CsrKept DEF SInv
<1>2. stage' = "built" /\ N' = N /\ \A q : Known(q)' = Known(q)
  BY SameGraph, AtWork
<1>3. PICK q \in Question : question = {q} /\ Known(q) /\ Admitted(q) /\ q.from # q.to
  BY DEF SInv, ArraysOK
<1>4. question' = {q} /\ DOMAIN dist' = 1..N /\ question' # {}
  BY <1>3
<1>5. /\ stage' # "built" => Idle'
      /\ question' = {} \/ \E r \in Question : question' = {r}
      /\ \A a, b \in answer' : a = b
      /\ phase' \in {"searching", "retracing", "answered"}
      /\ ~(phase' = "answered" /\ answer' = {})
  BY <1>2, <1>4
<1>6. phase' # "answered" =>
         /\ answer' = {} /\ DOMAIN dist' = 1..N'
         /\ \E r \in question' : Known(r)' /\ Admitted(r)' /\ r.from # r.to
  BY <1>2, <1>3, <1>4 DEF Admitted
<1> QED
  BY <1>1, <1>2, <1>4, <1>5, <1>6 DEF ArraysOK

(* The steps keep the invariant. *)
LEMMA StaleKeeps ==
    ASSUME SInv, PopStale
    PROVE  SInv'
<1>1. PICK e \in heap : Popped(e) /\ e[1] > dist[e[2]]
  BY DEF PopStale
<1>2. /\ phase = "searching" /\ at = {} /\ heap' = heap \ {e}
      /\ UNCHANGED csrVars /\ UNCHANGED <<question, dist, prev, phase, at, next, path, answer>>
  BY <1>1 DEF PopStale, Popped
<1>3. PICK q \in Question : question = {q} /\ SearchOK(q)
  BY <1>2, AtWork
<1>4. Out' = Out /\ N' = N /\ Origin(q)' = Origin(q) /\ Goal(q)' = Goal(q)
      /\ Accepted(q)' = Accepted(q) /\ Known(q)' = Known(q) /\ stage' = stage
  BY <1>2, SameGraph
<1>5. \A u \in Found : Done(u)' <=> Done(u)
  <2>1. \A u \in 1..N : dist[u] \in Int
    BY <1>2, WorkTypes
  <2>2. \A u : <<dist[u], u>> = e => ~(e[1] > dist[e[2]]) \/ u \notin 1..N
    BY <2>1
  <2> QED
    BY <1>1, <1>2, <2>2, WorkTypes DEF Done
<1>6. SearchOK(q)'
  <2>1. TreeOK(q)' /\ Found' = Found
    BY <1>2, <1>3, <1>4 DEF SearchOK, TreeOK, Found, NoCycle, Parent, Reaches
  <2>2. \A p, n : Nearer(q, p, n)' <=> Nearer(q, p, n)
    BY <1>2, <1>4 DEF Nearer, Reaches
  <2>3. \A u \in Found : prev[u] # 0 => prev[u] \in Found
    BY <1>2, <1>3, ParentFound DEF SearchOK
  <2>4. heap' \subseteq heap /\ at' = {} /\ at = {}
    BY <1>2
  <2> QED
    BY <1>2, <1>3, <1>4, <1>5, <2>1, <2>2, <2>3, <2>4 DEF SearchOK
<1>7. CsrInv' /\ ArraysOK'
  <2>1. /\ dist \in [1..N -> -1..Infinite] /\ prev \in [1..N -> 0..N]
        /\ heap' \subseteq (0..Infinite) \X (1..N)
        /\ next \in Nat \ {0} /\ path \in Seq(1..N) /\ answer = {}
    BY <1>2, WorkTypes, AtWork
  <2> QED
    BY <1>2, <2>1, ArraysStep DEF Next, Step
<1> QED
  BY <1>2, <1>3, <1>6, <1>7 DEF SInv, SearchInv, PathInv

(* Steps that leave distances and predecessors alone keep the tree. *)
LEMMA TreeKept ==
    ASSUME UNCHANGED csrVars, UNCHANGED <<dist, prev>>, NEW q, TreeOK(q)
    PROVE  /\ TreeOK(q)' /\ Found' = Found
           /\ \A p, n : Nearer(q, p, n)' <=> Nearer(q, p, n)
<1>1. Out' = Out /\ N' = N /\ Origin(q)' = Origin(q) /\ Accepted(q)' = Accepted(q)
  BY SameGraph
<1>2. TreeOK(q)' /\ Found' = Found
  BY <1>1 DEF TreeOK, Found, NoCycle, Parent, Reaches
<1>3. \A p, n : Nearer(q, p, n)' <=> Nearer(q, p, n)
  BY <1>1 DEF Nearer, Reaches
<1> QED
  BY <1>2, <1>3

LEMMA NodeKeeps ==
    ASSUME SInv, PopNode
    PROVE  SInv'
<1>1. PICK q \in question, e \in heap :
         /\ Popped(e) /\ e[1] <= dist[e[2]] /\ e[2] # Goal(q)
         /\ at' = {e} /\ next' = 1
  BY DEF PopNode, Goal
<1>2. /\ phase = "searching" /\ at = {} /\ heap' = heap \ {e}
      /\ \A f \in heap : e[1] < f[1] \/ (e[1] = f[1] /\ e[2] >= f[2])
      /\ UNCHANGED csrVars /\ UNCHANGED <<question, dist, prev, phase, path, answer>>
  BY <1>1 DEF PopNode, Popped
<1>3. question = {q} /\ SearchOK(q) /\ answer = {}
  BY <1>2, AtWork
<1>4. TreeOK(q) /\ TreeOK(q)' /\ Found' = Found /\ Goal(q)' = Goal(q) /\ Out' = Out
      /\ \A p, n : Nearer(q, p, n)' <=> Nearer(q, p, n)
  BY <1>2, <1>3, TreeKept, SameGraph DEF SearchOK
<1>5. /\ e[2] \in Found /\ e[1] = dist[e[2]] /\ e = <<dist[e[2]], e[2]>>
      /\ dist[e[2]] \in Int
  <2>1. 0 <= dist[e[2]] /\ dist[e[2]] <= e[1]
    BY <1>1, <1>3 DEF SearchOK
  <2>2. e[1] \in Nat /\ e[2] \in 1..N /\ e = <<e[1], e[2]>> /\ dist[e[2]] \in Int
    BY <1>1, <1>2, WorkTypes
  <2> QED
    BY <1>1, <1>2, <2>1, <2>2, WorkTypes
<1>6. \A u \in Found : Done(u)' <=> Done(u) \/ u = e[2]
  BY <1>2, <1>5, WorkTypes DEF Done
<1>7. SearchOK(q)'
  <2>1. \A f \in heap' : 0 <= dist'[f[2]] /\ dist'[f[2]] <= f[1]
    BY <1>2, <1>3 DEF SearchOK
  <2>2. \A f \in at' : dist'[f[2]] = f[1] /\ f \notin heap' /\ Nearer(q, f[2], next - 1)'
    BY <1>1, <1>2, <1>5 DEF Nearer
  <2>3. \A u \in Found' : prev'[u] # 0 => Done(prev[u])'
    <3>1. TAKE u \in Found'
    <3>2. HAVE prev'[u] # 0
    <3>3. prev[u] \in Found /\ Done(prev[u])
      BY <1>2, <1>3, <1>4, <3>2, ParentFound DEF SearchOK
    <3> QED
      BY <1>2, <1>6, <3>3 DEF Done
  <2>4. ASSUME NEW u \in Found, Done(u)'
        PROVE  /\ u # Goal(q)
               /\ \A f \in heap' \cup at' : dist[u] <= f[1]
               /\ (\E f \in at' : f[2] = u) \/ Nearer(q, u, Len(Out[u]))
    <3>1. CASE u = e[2]
      <4>1. \A f \in heap : f[1] \in Nat
        BY <1>2, WorkTypes
      <4>2. \A f \in heap : dist[u] <= f[1]
        BY <1>2, <1>5, <3>1, <4>1
      <4> QED
        BY <1>1, <1>2, <1>5, <3>1, <4>2
    <3>2. CASE u # e[2]
      <4>1. Done(u)
        BY <1>6, <2>4, <3>2
      <4>2. \A f \in heap : dist[u] <= f[1]
        BY <1>3, <4>1 DEF SearchOK
      <4>3. u # Goal(q) /\ Nearer(q, u, Len(Out[u]))
        BY <1>2, <1>3, <4>1 DEF SearchOK
      <4> QED
        BY <1>1, <1>2, <4>2, <4>3
    <3> QED
      BY <3>1, <3>2
  <2> QED
    BY <1>2, <1>4, <2>1, <2>2, <2>3, <2>4 DEF SearchOK
<1>8. CsrInv' /\ ArraysOK'
  <2>1. /\ dist \in [1..N -> -1..Infinite] /\ prev \in [1..N -> 0..N]
        /\ heap' \subseteq (0..Infinite) \X (1..N)
        /\ e \in (0..Infinite) \X (1..N) /\ next' \in Nat \ {0} /\ path \in Seq(1..N)
    BY <1>1, <1>2, WorkTypes
  <2> QED
    BY <1>1, <1>2, <1>3, <2>1, ArraysStep DEF Next, Step
<1> QED
  BY <1>2, <1>3, <1>7, <1>8 DEF SInv, SearchInv, PathInv

(* The edge that is followed. *)
LEMMA EdgeFollowed ==
    ASSUME SInv, NEW e \in at, Following(e)
    PROVE  /\ phase = "searching" /\ at = {e} /\ next \in 1..Len(Out[e[2]]) /\ next \in Nat
           /\ Neighbour(e) = Out[e[2]][next].to /\ Neighbour(e) \in 1..N
           /\ Reached(e) = Reaches(e[2], next) /\ Reached(e) \in 0..Infinite /\ e[1] <= Reached(e)
           /\ e[2] \in 1..N /\ e[1] = dist[e[2]] /\ e[2] \in Found /\ Done(e[2])
<1>1. /\ phase = "searching" /\ at = {e}
      /\ offsets[e[2]] + next <= offsets[e[2] + 1]
  BY DEF Following
<1>2. /\ stage = "built" /\ CsrInv /\ e[2] \in 1..N /\ e[1] \in 0..Infinite /\ next \in Nat \ {0}
      /\ e = <<e[1], e[2]>>
  BY <1>1, AtWork, WorkTypes DEF SInv
<1>3. PICK q \in question : SearchOK(q)
  BY <1>1, AtWork
<1>4. /\ offsets[e[2]] \in 0..E /\ offsets[e[2] + 1] = offsets[e[2]] + Len(Out[e[2]])
      /\ Len(Out[e[2]]) \in Nat
      /\ \A i \in 1..Len(Out[e[2]]) : /\ targets[offsets[e[2]] + i] = Out[e[2]][i].to
                                      /\ weights[offsets[e[2]] + i] = Out[e[2]][i].weight
  BY <1>2, BuiltFacts
<1>5. next \in 1..Len(Out[e[2]])
  <2>1. offsets[e[2]] \in Int
    BY <1>4
  <2> QED
    BY <1>1, <1>2, <1>4, <2>1
<1>6. Neighbour(e) = Out[e[2]][next].to /\ weights[offsets[e[2]] + next] = Out[e[2]][next].weight
  BY <1>4, <1>5 DEF Neighbour
<1>7. Out[e[2]][next].to \in 1..N /\ Out[e[2]][next].weight \in 0..MaxCost
  BY <1>2, <1>5, ReadFacts
<1>8. dist[e[2]] = e[1] /\ e \notin heap
  BY <1>3 DEF SearchOK
<1>9. Reached(e) = Reaches(e[2], next) /\ Reached(e) \in 0..Infinite /\ e[1] <= Reached(e)
  <2>1. Reached(e) = Plus(e[1], Out[e[2]][next].weight)
    BY <1>6 DEF Reached
  <2>2. Reaches(e[2], next) = Plus(e[1], Out[e[2]][next].weight)
    BY <1>8 DEF Reaches
  <2> QED
    BY <1>2, <1>7, <2>1, <2>2, PlusFacts
<1>10. e[2] \in Found /\ Done(e[2])
  <2>1. dist[e[2]] >= 0
    BY <1>2, <1>8, PlusFacts
  <2>2. e[2] \in Found
    BY <1>1, <1>2, <2>1, WorkTypes
  <2> QED
    BY <1>2, <1>8, <2>1, <2>2 DEF Done
<1> QED
  BY <1>1, <1>2, <1>5, <1>6, <1>7, <1>8, <1>9, <1>10

LEMMA SkipKeeps ==
    ASSUME SInv, SkipEdge
    PROVE  SInv'
<1>1. PICK q \in question, e \in at : Following(e) /\ ~Improves(q, e)
  BY DEF SkipEdge
<1>2. /\ phase = "searching" /\ at = {e} /\ next' = next + 1
      /\ UNCHANGED csrVars /\ UNCHANGED <<question, dist, prev, heap, phase, at, path, answer>>
  BY <1>1 DEF SkipEdge, Following
<1>3. question = {q} /\ SearchOK(q) /\ answer = {}
  BY <1>2, AtWork
<1>4. TreeOK(q) /\ TreeOK(q)' /\ Found' = Found /\ Goal(q)' = Goal(q) /\ Out' = Out
      /\ \A p, n : Nearer(q, p, n)' <=> Nearer(q, p, n)
  BY <1>2, <1>3, TreeKept, SameGraph DEF SearchOK
<1>5. /\ next \in 1..Len(Out[e[2]]) /\ next \in Nat
      /\ Neighbour(e) = Out[e[2]][next].to /\ Neighbour(e) \in 1..N
      /\ Reached(e) = Reaches(e[2], next) /\ Reached(e) \in 0..Infinite
  BY <1>1, EdgeFollowed
<1>6. Nearer(q, e[2], next)
  <2>1. Nearer(q, e[2], next - 1)
    BY <1>2, <1>3 DEF SearchOK
  <2>2. Neighbour(e) \in Accepted(q) =>
           dist[Neighbour(e)] >= 0 /\ dist[Neighbour(e)] <= Reached(e)
    <3>1. dist[Neighbour(e)] \in Int
      BY <1>2, <1>5, WorkTypes
    <3>2. Reached(e) \in Int
      BY <1>5
    <3> QED
      BY <1>1, <3>1, <3>2 DEF Improves
  <2>3. \A i \in 1..next : i \in 1..(next - 1) \/ i = next
    BY <1>5
  <2> QED
    BY <1>5, <2>1, <2>2, <2>3 DEF Nearer
<1>7. SearchOK(q)'
  <2>1. \A u : Done(u)' <=> Done(u)
    BY <1>2 DEF Done
  <2>2. next' - 1 = next
    BY <1>2, <1>5
  <2>3. \A f \in at' : dist'[f[2]] = f[1] /\ f \notin heap' /\ Nearer(q, f[2], next - 1)'
    BY <1>2, <1>3, <1>4, <1>6, <2>2 DEF SearchOK
  <2>4. \A u \in Found' : prev'[u] # 0 => Done(prev[u])'
    BY <1>2, <1>3, <1>4, <2>1 DEF SearchOK, Done
  <2> QED
    BY <1>2, <1>3, <1>4, <2>1, <2>3, <2>4 DEF SearchOK
<1>8. CsrInv' /\ ArraysOK'
  <2>1. /\ dist \in [1..N -> -1..Infinite] /\ prev \in [1..N -> 0..N]
        /\ heap \subseteq (0..Infinite) \X (1..N)
        /\ next \in Nat \ {0} /\ path \in Seq(1..N)
    BY <1>2, WorkTypes
  <2>2. e \in (0..Infinite) \X (1..N)
    BY <1>1, <1>2, WorkTypes
  <2>3. next' \in Nat \ {0}
    BY <1>2, <1>5
  <2> QED
    BY <1>2, <1>3, <2>1, <2>2, <2>3, ArraysStep DEF Next, Step
<1> QED
  BY <1>2, <1>3, <1>7, <1>8 DEF SInv, SearchInv, PathInv

LEMMA ExpandedKeeps ==
    ASSUME SInv, Expanded
    PROVE  SInv'
<1>1. PICK e \in at : offsets[e[2]] + next > offsets[e[2] + 1]
  BY DEF Expanded
<1>2. /\ phase = "searching" /\ at' = {}
      /\ UNCHANGED csrVars /\ UNCHANGED <<question, dist, prev, heap, phase, next, path, answer>>
  BY DEF Expanded
<1>3. PICK q \in Question : question = {q} /\ SearchOK(q) /\ answer = {} /\ stage = "built" /\ CsrInv
  BY <1>2, AtWork DEF SInv
<1>4. TreeOK(q) /\ TreeOK(q)' /\ Found' = Found /\ Goal(q)' = Goal(q) /\ Out' = Out
      /\ \A p, n : Nearer(q, p, n)' <=> Nearer(q, p, n)
  BY <1>2, <1>3, TreeKept, SameGraph DEF SearchOK
<1>5. /\ at = {e} /\ e[2] \in 1..N /\ next \in Nat \ {0}
  BY <1>1, <1>2, WorkTypes
<1>6. Nearer(q, e[2], Len(Out[e[2]]))
  <2>1. /\ offsets[e[2]] \in 0..E /\ offsets[e[2] + 1] = offsets[e[2]] + Len(Out[e[2]])
        /\ Len(Out[e[2]]) \in Nat
    BY <1>3, <1>5, BuiltFacts
  <2>2. offsets[e[2]] \in Int
    BY <2>1
  <2>3. Len(Out[e[2]]) <= next - 1
    BY <1>1, <1>5, <2>1, <2>2
  <2>4. Nearer(q, e[2], next - 1)
    BY <1>3, <1>5 DEF SearchOK
  <2>5. \A i \in 1..Len(Out[e[2]]) : i \in 1..(next - 1)
    BY <1>5, <2>1, <2>3
  <2> QED
    BY <2>4, <2>5 DEF Nearer
<1>7. SearchOK(q)'
  <2>1. \A u : Done(u)' <=> Done(u)
    BY <1>2 DEF Done
  <2>4. \A u \in Found' : prev'[u] # 0 => Done(prev[u])'
    BY <1>2, <1>3, <1>4, <2>1 DEF SearchOK, Done
  <2>5. ASSUME NEW u \in Found, Done(u) PROVE Nearer(q, u, Len(Out[u]))
    BY <1>3, <1>5, <1>6, <2>5 DEF SearchOK
  <2> QED
    BY <1>2, <1>3, <1>4, <2>1, <2>4, <2>5 DEF SearchOK
<1>8. CsrInv' /\ ArraysOK'
  <2>1. /\ dist \in [1..N -> -1..Infinite] /\ prev \in [1..N -> 0..N]
        /\ heap \subseteq (0..Infinite) \X (1..N)
        /\ next \in Nat \ {0} /\ path \in Seq(1..N)
    BY <1>1, <1>2, WorkTypes
  <2> QED
    BY <1>2, <1>3, <2>1, ArraysStep DEF Next, Step
<1> QED
  BY <1>2, <1>3, <1>7, <1>8 DEF SInv, SearchInv, PathInv

(* The node that is improved is not done yet, or its distance would be at  *)
(* most that of the node that is expanded: so it is nobody's predecessor   *)
(* and the tree stays a tree.                                              *)
LEMMA RelaxKeeps ==
    ASSUME SInv, Relax
    PROVE  SInv'
<1>1. PICK q \in question, e \in at :
         /\ Following(e) /\ Improves(q, e)
         /\ dist' = [dist EXCEPT ![Neighbour(e)] = Reached(e)]
         /\ prev' = [prev EXCEPT ![Neighbour(e)] = e[2]]
         /\ heap' = heap \cup {<<Reached(e), Neighbour(e)>>}
  BY DEF Relax
<1>2. /\ phase = "searching" /\ at = {e} /\ next' = next + 1
      /\ UNCHANGED csrVars /\ UNCHANGED <<question, phase, at, path, answer>>
  BY <1>1, EdgeFollowed DEF Following
<1>3. question = {q} /\ SearchOK(q) /\ answer = {} /\ Accepted(q) \subseteq 1..N
  BY <1>2, AtWork
<1>4. PICK v \in 1..N, c \in 0..Infinite, p \in 1..N, m \in Nat :
         /\ m = next
         /\ v = Neighbour(e) /\ c = Reached(e) /\ p = e[2]
         /\ next \in 1..Len(Out[p]) /\ next \in Nat
         /\ v = Out[p][next].to /\ c = Reaches(p, next) /\ c \in Nat /\ e[1] <= c
         /\ e[1] = dist[p] /\ p \in Found /\ Done(p) /\ e[1] \in Nat
  BY <1>1, <1>2, EdgeFollowed, WorkTypes, PlusFacts
<1>5. v \in Accepted(q) /\ (dist[v] < 0 \/ c < dist[v]) /\ dist[v] \in Int
  BY <1>1, <1>2, <1>4, WorkTypes DEF Improves
<1>t. /\ N \in Nat /\ DOMAIN dist = 1..N /\ DOMAIN prev = 1..N
      /\ dist \in [1..N -> -1..Infinite] /\ prev \in [1..N -> 0..N]
      /\ \A u \in 1..N : dist[u] \in Int
      /\ heap \subseteq (0..Infinite) \X (1..N)
      /\ \A f \in heap : f[1] \in Nat /\ f[2] \in 1..N
      /\ path \in Seq(1..N)
      /\ Found = {u \in 1..N : dist[u] >= 0}
  BY <1>2, WorkTypes
<1>6. dist' = [dist EXCEPT ![v] = c] /\ prev' = [prev EXCEPT ![v] = p] /\ heap' = heap \cup {<<c, v>>}
  BY <1>1, <1>4
<1>7. Out' = Out /\ N' = N /\ Origin(q)' = Origin(q) /\ Goal(q)' = Goal(q)
      /\ Accepted(q)' = Accepted(q)
  BY <1>2, SameGraph
<1>8. ~(v \in Found /\ Done(v))
  <2> SUFFICES ASSUME v \in Found, Done(v) PROVE FALSE
    OBVIOUS
  <2>1. dist[v] <= e[1]
    BY <1>2, <1>3 DEF SearchOK
  <2>2. dist[v] >= 0
    BY <1>t
  <2> QED
    BY <1>4, <1>5, <2>1, <2>2
<1>9. v # p /\ v # Origin(q)
  <2>1. v # p
    BY <1>4, <1>8
  <2>2. dist[Origin(q)] = 0
    BY <1>3 DEF SearchOK, TreeOK
  <2> QED
    BY <1>4, <1>5, <2>1, <2>2
<1>10. /\ DOMAIN dist' = 1..N /\ dist'[v] = c /\ prev'[v] = p
       /\ \A u \in 1..N : u # v => dist'[u] = dist[u] /\ prev'[u] = prev[u]
  BY <1>4, <1>6, <1>t
<1>11. Found' = Found \cup {v}
  <2>1. Found' = {u \in 1..N : dist'[u] >= 0}
    BY <1>10 DEF Found
  <2>2. ASSUME NEW u \in 1..N PROVE dist'[u] >= 0 <=> dist[u] >= 0 \/ u = v
    BY <1>4, <1>10
  <2> QED
    BY <1>4, <1>t, <2>1, <2>2
<1>12. \A u \in Found : u # v => (Done(u)' <=> Done(u))
  BY <1>6, <1>10, <1>t DEF Done
<1>13. ~Done(v)'
  BY <1>6, <1>10 DEF Done
<1>14. \A u \in Found : Done(u) => u # v /\ Done(u)'
  BY <1>8, <1>12
<1>15. ASSUME NEW x \in Found, x # v, NEW n \in 0..Len(Out[x]), Nearer(q, x, n)
       PROVE  Nearer(q, x, n)'
  <2>1. SUFFICES ASSUME NEW i \in 1..n, Out[x][i].to \in Accepted(q)
                 PROVE  dist'[Out[x][i].to] >= 0 /\ dist'[Out[x][i].to] <= Reaches(x, i)'
    BY <1>7 DEF Nearer
  <2> DEFINE y == Out[x][i].to
  <2>2. dist[y] >= 0 /\ dist[y] <= Reaches(x, i) /\ y \in 1..N
    BY <1>3, <1>15, <2>1 DEF Nearer
  <2>3. Reaches(x, i)' = Reaches(x, i)
    BY <1>7, <1>10, <1>15, <1>t DEF Reaches
  <2>4. Reaches(x, i) \in Int
    <3>1. x \in 1..N /\ dist[x] \in 0..Infinite
      BY <1>2, <1>t, WorkTypes
    <3>2. Len(Out[x]) \in Nat /\ stage = "built" /\ CsrInv
      BY <1>2, <3>1, AtWork, ReadFacts DEF SInv
    <3>3. i \in 1..Len(Out[x])
      BY <3>2
    <3>4. Out[x][i].weight \in 0..MaxCost
      BY <3>1, <3>2, <3>3, ReadFacts
    <3>5. Reaches(x, i) \in 0..Infinite
      BY <3>1, <3>4, PlusFacts DEF Reaches
    <3> QED
      BY <3>5, PlusFacts
  <2> HIDE DEF y
  <2>5. CASE y = v
    <3>1. dist[v] >= 0 /\ dist[v] <= Reaches(x, i)
      BY <2>2, <2>5 DEF y
    <3>2. c >= 0 /\ c < dist[v]
      BY <1>4, <1>5, <3>1
    <3>3. c <= Reaches(x, i)
      <4> DEFINE r == Reaches(x, i)
                 d == dist[v]
      <4>1. c \in Int /\ d \in Int /\ r \in Int /\ c < d /\ d <= r
        BY <1>4, <1>5, <2>4, <3>1, <3>2
      <4> HIDE DEF r, d
      <4>2. c <= r
        BY <4>1
      <4> QED
        BY <4>2 DEF r
    <3> QED
      BY <1>10, <2>3, <2>5, <3>2, <3>3 DEF y
  <2>6. CASE y # v
    BY <1>10, <2>2, <2>3, <2>6 DEF y
  <2> QED
    BY <2>5, <2>6
<1>16. \A u \in Found : prev[u] # 0 => prev[u] \in Found /\ Done(prev[u]) /\ prev[u] # v
  <2>1. ASSUME NEW u \in Found, prev[u] # 0 PROVE prev[u] \in Found /\ Done(prev[u])
    BY <1>2, <1>3, <2>1, ParentFound DEF SearchOK
  <2> QED
    BY <1>14, <2>1
<1>17. ASSUME NEW u \in Found' PROVE Parent(q, u)'
  <2>1. CASE u = v
    <3>1. prev'[u] = p /\ p # 0 /\ dist'[p] = dist[p] /\ dist[p] >= 0 /\ u # Origin(q)
      <4>1. p # 0
        BY <1>4
      <4> QED
        BY <1>4, <1>9, <1>10, <1>t, <2>1, <4>1
    <3>2. Out[p][next].to = u /\ dist'[u] = Reaches(p, next) /\ next \in 1..Len(Out[p])
      BY <1>4, <1>10, <2>1
    <3>3. Reaches(p, next) = Plus(dist'[p], Out'[p][next].weight)
      BY <1>7, <3>1 DEF Reaches
    <3> QED
      BY <1>7, <3>1, <3>2, <3>3 DEF Parent, Reaches
  <2>2. CASE u # v
    <3>1. u \in Found /\ u \in 1..N /\ dist'[u] = dist[u] /\ prev'[u] = prev[u] /\ Parent(q, u)
      BY <1>3, <1>10, <1>11, <1>t, <2>2 DEF SearchOK, TreeOK
    <3>2. CASE u = Origin(q)
      BY <1>7, <3>1, <3>2 DEF Parent
    <3>3. CASE u # Origin(q)
      <4>1. prev[u] # 0 /\ dist[prev[u]] >= 0
        BY <3>1, <3>3 DEF Parent
      <4>2. prev[u] \in 1..N /\ dist'[prev[u]] = dist[prev[u]]
        BY <1>10, <1>16, <1>t, <3>1, <4>1
      <4>3. PICK i \in 1..Len(Out[prev[u]]) :
               Out[prev[u]][i].to = u /\ dist[u] = Reaches(prev[u], i)
        BY <3>1, <3>3 DEF Parent
      <4>4. dist'[u] = Plus(dist'[prev'[u]], Out'[prev'[u]][i].weight)
        BY <1>7, <3>1, <4>2, <4>3 DEF Reaches
      <4> QED
        BY <1>7, <3>1, <3>3, <4>1, <4>2, <4>3, <4>4 DEF Parent, Reaches
    <3> QED
      BY <3>2, <3>3
  <2> QED
    BY <2>1, <2>2
<1>18. NoCycle'
  <2> SUFFICES ASSUME NEW S \in SUBSET Found', S # {}, \A u \in S : prev'[u] \in S
               PROVE  FALSE
    BY DEF NoCycle
  <2> DEFINE D == {u \in S : u \in Found /\ Done(u)}
  <2>1. \A R \in SUBSET Found : R # {} => \E u \in R : prev[u] \notin R
    BY <1>3 DEF SearchOK, TreeOK, NoCycle
  <2>2. CASE v \notin S
    <3>1. S \in SUBSET Found /\ \A u \in S : prev'[u] = prev[u]
      BY <1>10, <1>11, <1>t, <2>2
    <3> QED
      BY <2>1, <3>1
  <2>3. CASE v \in S
    <3>1. p \in D
      BY <1>4, <1>10, <2>3
    <3>2. PICK u \in D : prev[u] \notin D
      BY <2>1, <3>1
    <3>3. u \in Found /\ Done(u) /\ u # v /\ u \in 1..N /\ prev'[u] = prev[u]
      BY <1>10, <1>14, <1>t, <3>2
    <3>4. prev[u] \in S /\ prev[u] # 0
      <4>1. u \in S /\ prev'[u] \in S
        BY <3>2
      <4>2. \A x \in S : x \in 1..N
        BY <1>11, <1>t
      <4>3. \A x \in 1..N : x # 0
        OBVIOUS
      <4> HIDE DEF D
      <4> QED
        BY <3>3, <4>1, <4>2, <4>3
    <3> QED
      BY <1>16, <3>2, <3>3, <3>4
  <2> QED
    BY <2>2, <2>3
<1>19. TreeOK(q)'
  <2>1. dist'[Origin(q)] = 0
    <3>1. dist[Origin(q)] = 0 /\ Origin(q) \in 1..N
      BY <1>2, <1>3, AtWork DEF SearchOK, TreeOK
    <3> QED
      BY <1>9, <1>10, <3>1
  <2>2. Found' \subseteq Accepted(q)
    BY <1>3, <1>5, <1>11 DEF SearchOK, TreeOK
  <2> QED
    BY <1>7, <1>17, <1>18, <2>1, <2>2 DEF TreeOK
<1>20. SearchOK(q)'
  <2>1. ASSUME NEW f \in heap' PROVE 0 <= dist'[f[2]] /\ dist'[f[2]] <= f[1]
    <3>1. CASE f = <<c, v>>
      BY <1>4, <1>10, <3>1
    <3>2. CASE f \in heap
      <4>1. 0 <= dist[f[2]] /\ dist[f[2]] <= f[1] /\ f[1] \in Nat /\ f[2] \in 1..N
        BY <1>3, <1>t, <3>2 DEF SearchOK
      <4>2. CASE f[2] = v
        BY <1>4, <1>5, <1>10, <4>1, <4>2
      <4>3. CASE f[2] # v
        BY <1>10, <4>1, <4>3
      <4> QED
        BY <4>2, <4>3
    <3> QED
      BY <1>6, <3>1, <3>2
  <2>2. dist'[p] = e[1] /\ e \notin heap' /\ Nearer(q, p, m)'
    <3>1. dist'[p] = e[1]
      BY <1>4, <1>9, <1>10
    <3>2. e \notin heap'
      <4>1. e \notin heap
        BY <1>2, <1>3 DEF SearchOK
      <4>2. e # <<c, v>>
        BY <1>4, <1>9
      <4> QED
        BY <1>6, <4>1, <4>2
    <3>3. PICK n \in Nat : n = m - 1
      BY <1>4
    <3>4. n \in 0..Len(Out[p]) /\ Nearer(q, p, n)
      <4>1. Len(Out[p]) \in Nat
        BY <1>2, AtWork, ReadFacts DEF SInv
      <4>2. Nearer(q, p, n)
        BY <1>2, <1>3, <1>4, <3>3 DEF SearchOK
      <4> QED
        BY <1>4, <3>3, <4>1, <4>2
    <3>5. Nearer(q, p, n)'
      BY <1>4, <1>9, <1>15, <3>4
    <3>6. Out[p][m].to = v /\ dist'[v] >= 0 /\ dist'[v] <= Reaches(p, m)'
      BY <1>4, <1>7, <1>9, <1>10 DEF Reaches
    <3>7. \A i \in 1..m : i \in 1..n \/ i = m
      BY <1>4, <3>3
    <3> QED
      BY <1>4, <1>7, <3>1, <3>2, <3>5, <3>6, <3>7 DEF Nearer
  <2>3. ASSUME NEW u \in Found', prev'[u] # 0 PROVE Done(prev[u])'
    <3>1. CASE u = v
      <4>1. Done(p)' /\ prev'[u] = p
        BY <1>4, <1>10, <1>14, <3>1
      <4> QED
        BY <1>4, <1>10, <4>1 DEF Done
    <3>2. CASE u # v
      <4>1. u \in Found /\ prev'[u] = prev[u]
        BY <1>10, <1>11, <1>t, <3>2
      <4>2. PICK x \in Found : x = prev[u] /\ Done(x)
        BY <1>16, <2>3, <4>1
      <4>3. Done(x)'
        BY <1>14, <4>2
      <4> QED
        BY <4>1, <4>2, <4>3 DEF Done
    <3> QED
      BY <3>1, <3>2
  <2>4. ASSUME NEW u \in Found', Done(u)'
        PROVE  /\ u # Goal(q)
               /\ \A f \in heap' \cup at' : dist'[u] <= f[1]
               /\ (\E f \in at' : f[2] = u) \/ Nearer(q, u, Len(Out[u]))'
    <3>1. u \in Found /\ u # v /\ Done(u) /\ u \in 1..N /\ dist'[u] = dist[u]
      BY <1>10, <1>11, <1>12, <1>13, <1>t, <2>4
    <3>2. u # Goal(q) /\ \A f \in heap \cup at : dist[u] <= f[1]
      BY <1>3, <3>1 DEF SearchOK
    <3>3. dist[u] <= c
      <4>1. dist[u] <= e[1] /\ dist[u] \in Int
        BY <1>2, <1>t, <3>1, <3>2
      <4> QED
        BY <1>4, <4>1
    <3>4. \A f \in heap' \cup at' : dist'[u] <= f[1]
      BY <1>2, <1>6, <3>1, <3>2, <3>3
    <3>5. u = p \/ Nearer(q, u, Len(Out[u]))
      BY <1>2, <1>3, <1>4, <3>1 DEF SearchOK
    <3>6. Len(Out[u]) \in 0..Len(Out[u])
      BY <1>2, <3>1, AtWork, ReadFacts DEF SInv
    <3>7. u = p \/ Nearer(q, u, Len(Out[u]))'
      <4> DEFINE l == Len(Out[u])
      <4>1. l' = l
        BY <1>7
      <4>2. l \in 0..Len(Out[u]) /\ (u = p \/ Nearer(q, u, l))
        BY <3>5, <3>6
      <4> HIDE DEF l
      <4>3. u = p \/ Nearer(q, u, l)'
        BY <1>7, <1>15, <3>1, <4>1, <4>2 DEF Nearer
      <4> QED
        BY <1>7, <4>1, <4>3 DEF l, Nearer
    <3> QED
      BY <1>2, <1>4, <3>2, <3>4, <3>7
  <2>5. next' - 1 = m
    BY <1>2, <1>4
  <2>6. \A f \in at' : dist'[f[2]] = f[1] /\ f \notin heap' /\ Nearer(q, f[2], next - 1)'
    BY <1>2, <1>4, <2>2, <2>5 DEF Nearer
  <2> QED
    BY <1>7, <1>19, <2>1, <2>3, <2>4, <2>6 DEF SearchOK
<1>21. CsrInv' /\ ArraysOK'
  <2>1. /\ dist' \in [1..N -> -1..Infinite] /\ prev' \in [1..N -> 0..N]
        /\ heap' \subseteq (0..Infinite) \X (1..N)
        /\ at' = {e} /\ e \in (0..Infinite) \X (1..N) /\ next' \in Nat \ {0}
    <3>1. c \in -1..Infinite /\ p \in 0..N
      <4>1. 0..Infinite \subseteq -1..Infinite /\ 1..N \subseteq 0..N
        OBVIOUS
      <4> QED
        BY <1>4, <4>1
    <3>2. e \in (0..Infinite) \X (1..N)
      BY <1>1, <1>2, WorkTypes
    <3>3. dist' \in [1..N -> -1..Infinite] /\ prev' \in [1..N -> 0..N]
      BY <1>4, <1>6, <1>t, <3>1
    <3>4. heap' \subseteq (0..Infinite) \X (1..N)
      <4>1. <<c, v>> \in (0..Infinite) \X (1..N)
        BY <1>4
      <4>2. heap' = heap \cup {<<c, v>>} /\ heap \subseteq (0..Infinite) \X (1..N)
        BY <1>6, <1>t
      <4> QED
        BY <4>1, <4>2
    <3>5. next' \in Nat \ {0}
      BY <1>2, <1>4
    <3> QED
      BY <1>2, <3>2, <3>3, <3>4, <3>5
  <2> QED
    BY <1>2, <1>3, <1>t, <2>1, ArraysStep DEF Next, Step
<1> QED
  BY <1>2, <1>3, <1>20, <1>21 DEF SInv, SearchInv, PathInv

(* The target is popped at its distance, and the answer depends on it. *)
LEMMA TargetKeeps ==
    ASSUME SInv, PopTarget
    PROVE  /\ SInv'
           /\ \E q \in question, e \in heap :
                 /\ question = {q} /\ e[2] = Goal(q) /\ e[1] = dist[Goal(q)] /\ e[1] \in 0..Infinite
                 /\ IF e[1] = Infinite
                    THEN phase' = "answered" /\ answer' = {[kind |-> "overflow"]}
                    ELSE phase' = "retracing" /\ path' = <<Goal(q)>> /\ answer' = answer
<1>1. PICK q \in question, e \in heap :
         /\ Popped(e) /\ e[1] <= dist[e[2]] /\ e[2] = Goal(q) /\ Conclude(q)
  BY DEF PopTarget, Goal
<1>2. /\ phase = "searching" /\ at = {}
      /\ UNCHANGED csrVars /\ UNCHANGED <<question, dist, prev, at, next>>
  BY <1>1 DEF PopTarget, Popped
<1>3. question = {q} /\ SearchOK(q) /\ answer = {} /\ Goal(q) \in 1..N
  BY <1>2, AtWork
<1>4. TreeOK(q) /\ TreeOK(q)' /\ Found' = Found /\ Goal(q)' = Goal(q) /\ Out' = Out /\ N' = N
      /\ \A p, n : Nearer(q, p, n)' <=> Nearer(q, p, n)
  BY <1>2, <1>3, TreeKept, SameGraph DEF SearchOK
<1>5. dist[Goal(q)] = e[1] /\ e[1] \in 0..Infinite /\ dist[Goal(q)] # -1
  <2>1. 0 <= dist[e[2]] /\ dist[e[2]] <= e[1]
    BY <1>1, <1>3 DEF SearchOK
  <2>2. e[1] \in 0..Infinite /\ e[1] \in Nat /\ dist[Goal(q)] \in Int
    BY <1>1, <1>2, <1>3, WorkTypes
  <2> QED
    BY <1>1, <2>1, <2>2
<1>6. IF e[1] = Infinite
      THEN phase' = "answered" /\ answer' = {[kind |-> "overflow"]} /\ path' = path
      ELSE phase' = "retracing" /\ path' = <<Goal(q)>> /\ answer' = answer
  BY <1>1, <1>5 DEF Conclude, Answer, Goal
<1>7. CsrInv' /\ ArraysOK'
  <2>1. /\ dist \in [1..N -> -1..Infinite] /\ prev \in [1..N -> 0..N]
        /\ heap \subseteq (0..Infinite) \X (1..N)
        /\ next \in Nat \ {0} /\ path \in Seq(1..N)
    BY <1>2, WorkTypes
  <2>2. path' \in Seq(1..N)
    <3>1. <<Goal(q)>> \in Seq(1..N)
      BY <1>3
    <3> QED
      BY <1>6, <2>1, <3>1
  <2>3. heap' \subseteq (0..Infinite) \X (1..N)
    BY <1>1, <2>1 DEF Popped
  <2> QED
    BY <1>2, <1>3, <1>6, <2>1, <2>2, <2>3, ArraysStep DEF Next, Step
<1>8. ASSUME phase' = "retracing" PROVE PathOK(q)'
  <2>1. path' = <<Goal(q)>> /\ e[1] # Infinite
    BY <1>6, <1>8
  <2>2. dist'[Goal(q)] \in 0..MaxCost
    BY <1>2, <1>5, <2>1, PlusFacts
  <2>3. \A u \in Found' : prev'[u] # 0 => Nearer(q, prev[u], Len(Out[prev[u]]))'
    <3>1. ASSUME NEW u \in Found, prev[u] # 0
          PROVE  Nearer(q, prev[u], Len(Out[prev[u]]))
      <4>1. prev[u] \in Found /\ Done(prev[u])
        BY <1>2, <1>3, <1>4, <3>1, ParentFound DEF SearchOK
      <4> QED
        BY <1>2, <1>3, <4>1 DEF SearchOK
    <3> QED
      BY <1>2, <1>4, <3>1 DEF Nearer, Reaches
  <2>4. /\ path' # <<>> /\ Len(path') = 1 /\ path'[1] = Goal(q)
    BY <2>1
  <2> QED
    BY <1>4, <2>2, <2>3, <2>4 DEF PathOK
<1>9. SInv'
  BY <1>2, <1>3, <1>6, <1>7, <1>8 DEF SInv, SearchInv, PathInv
<1> QED
  BY <1>1, <1>3, <1>5, <1>6, <1>9

(* When the heap is empty all that was discovered is done, and the target  *)
(* is not: it was not discovered.                                          *)
LEMMA ExhaustedKeeps ==
    ASSUME SInv, Exhausted
    PROVE  /\ SInv' /\ phase' = "answered" /\ answer' = {[kind |-> "none"]}
           /\ UNCHANGED csrVars /\ UNCHANGED <<question, dist, prev, heap, at, next>>
<1>1. PICK q \in question : Conclude(q)
  BY DEF Exhausted
<1>2. /\ phase = "searching" /\ at = {} /\ heap = {}
      /\ UNCHANGED csrVars /\ UNCHANGED <<question, dist, prev, heap, at, next>>
  BY DEF Exhausted
<1>3. question = {q} /\ SearchOK(q) /\ answer = {} /\ Goal(q) \in 1..N
  BY <1>1, <1>2, AtWork
<1>4. dist[Goal(q)] = -1
  <2>1. dist[Goal(q)] \in Int /\ dist[Goal(q)] \in -1..Infinite
    BY <1>2, <1>3, WorkTypes
  <2>2. Goal(q) \notin Found
    BY <1>2, <1>3, WorkTypes DEF SearchOK, Done
  <2>3. ~(dist[Goal(q)] >= 0)
    BY <1>2, <1>3, <2>2, WorkTypes
  <2> QED
    BY <2>1, <2>3, PlusFacts
<1>5. phase' = "answered" /\ answer' = {[kind |-> "none"]} /\ path' = path
  BY <1>1, <1>4 DEF Conclude, Answer, Goal
<1>6. CsrInv' /\ ArraysOK'
  <2>1. /\ dist \in [1..N -> -1..Infinite] /\ prev \in [1..N -> 0..N]
        /\ heap \subseteq (0..Infinite) \X (1..N)
        /\ next \in Nat \ {0} /\ path \in Seq(1..N)
    BY <1>2, WorkTypes
  <2> QED
    BY <1>2, <1>5, <2>1, ArraysStep DEF Next, Step
<1> QED
  BY <1>2, <1>5, <1>6 DEF SInv, SearchInv, PathInv

(* The predecessor of a node at a finite distance is at a finite one. *)
LEMMA RetraceKeeps ==
    ASSUME SInv, Retrace
    PROVE  SInv'
<1>1. /\ phase = "retracing" /\ prev[Head(path)] # 0
      /\ path' = <<prev[Head(path)]>> \o path
      /\ UNCHANGED csrVars
      /\ UNCHANGED <<question, phase, dist, prev, heap, at, next, answer>>
  BY DEF Retrace
<1>2. PICK q \in Question : question = {q} /\ PathOK(q) /\ answer = {}
  BY <1>1, AtWork
<1>3. TreeOK(q) /\ TreeOK(q)' /\ Found' = Found /\ Goal(q)' = Goal(q) /\ Out' = Out /\ N' = N
      /\ \A p, n : Nearer(q, p, n)' <=> Nearer(q, p, n)
  BY <1>1, <1>2, TreeKept, SameGraph DEF PathOK
<1>4. /\ path \in Seq(1..N) /\ path # <<>>
      /\ dist \in [1..N -> -1..Infinite] /\ prev \in [1..N -> 0..N]
      /\ \A u \in 1..N : dist[u] \in Int
  BY <1>1, <1>2, WorkTypes DEF PathOK
<1>5. PICK l \in Nat : l = Len(path) /\ l # 0
  BY <1>4, LenProperties, EmptySeq
<1>6. PICK u \in 1..N : u = path[1] /\ u = Head(path) /\ dist[u] \in 0..MaxCost
  <2>1. 1 \in 1..Len(path)
    BY <1>5
  <2>2. path[1] \in 1..N
    BY <1>4, <2>1, ElementOfSeq
  <2>3. Head(path) = path[1]
    BY <1>4
  <2>4. dist[path[1]] \in 0..MaxCost
    BY <1>2, <2>1 DEF PathOK
  <2> QED
    BY <2>2, <2>3, <2>4
<1>7. u \in Found /\ prev[u] # 0
  BY <1>1, <1>6, WorkTypes
<1>8. PICK p \in 1..N : p = prev[u] /\ p \in Found /\ u # Origin(q)
  BY <1>1, <1>3, <1>7, ParentFound
<1>9. dist[p] \in 0..MaxCost
  <2>1. PICK i \in 1..Len(Out[p]) : dist[u] = Reaches(p, i)
    BY <1>3, <1>7, <1>8 DEF TreeOK, Parent
  <2>2. Out[p][i].weight \in 0..MaxCost
    BY <1>1, AtWork, ReadFacts DEF SInv
  <2>3. dist[p] \in 0..Infinite
    BY <1>1, <1>8, WorkTypes
  <2>4. dist[u] <= MaxCost
    BY <1>6, PlusFacts
  <2> QED
    BY <2>1, <2>2, <2>3, <2>4, PlusFacts DEF Reaches
<1>10. /\ path' \in Seq(1..N) /\ Len(path') = l + 1 /\ path' # <<>>
       /\ path'[1] = p /\ \A i \in 1..l : path'[i + 1] = path[i]
  <2>1. path' = <<p>> \o path
    BY <1>1, <1>6, <1>8
  <2>2. <<p>> \in Seq(1..N) /\ Len(<<p>>) = 1 /\ <<p>>[1] = p
    OBVIOUS
  <2>3. /\ path' \in Seq(1..N) /\ Len(path') = 1 + l
        /\ \A i \in 1..(1 + l) : path'[i] = IF i <= 1 THEN <<p>>[i] ELSE path[i - 1]
    BY <1>4, <1>5, <2>1, <2>2, ConcatProperties
  <2>4. \A i \in 1..l : i + 1 \in 1..(1 + l) /\ ~(i + 1 <= 1) /\ (i + 1) - 1 = i
    BY <1>5
  <2>5. 1 \in 1..(1 + l)
    BY <1>5
  <2>6. path' # <<>>
    BY <1>5, <2>3
  <2>7. \A i \in 1..l : path'[i + 1] = path[i]
    BY <2>3, <2>4
  <2>8. path'[1] = p
    BY <2>2, <2>3, <2>5
  <2> QED
    BY <1>5, <2>3, <2>6, <2>7, <2>8
<1>11. \A i \in 1..(l + 1) : i = 1 \/ \E j \in 1..l : i = j + 1
  <2>1. \A i \in 1..(l + 1) : i = 1 \/ (i - 1 \in 1..l /\ i = (i - 1) + 1)
    BY <1>5
  <2> QED
    BY <2>1
<1>12. PathOK(q)'
  <2>1. path'[l + 1] = Goal(q)
    BY <1>2, <1>5, <1>10 DEF PathOK
  <2>2. \A i \in 1..(l + 1) : dist'[path'[i]] \in 0..MaxCost
    <3>1. TAKE i \in 1..(l + 1)
    <3>2. CASE i = 1
      BY <1>1, <1>9, <1>10, <3>2
    <3>3. ASSUME NEW j \in 1..l, i = j + 1 PROVE dist'[path'[i]] \in 0..MaxCost
      BY <1>1, <1>2, <1>5, <1>10, <3>3 DEF PathOK
    <3> QED
      BY <1>11, <3>2, <3>3
  <2>3. \A i \in 1..l : prev'[path'[i + 1]] = path'[i]
    <3>1. TAKE i \in 1..l
    <3>2. path'[i + 1] = path[i]
      BY <1>10
    <3>3. CASE i = 1
      BY <1>1, <1>6, <1>8, <1>10, <3>2, <3>3
    <3>4. ASSUME NEW j \in 1..l, i = j + 1 PROVE prev'[path'[i + 1]] = path'[i]
      <4>1. j \in 1..(l - 1)
        BY <1>5, <3>4
      <4>2. prev[path[j + 1]] = path[j]
        BY <1>2, <1>5, <4>1 DEF PathOK
      <4>3. path'[i] = path[j]
        BY <1>10, <3>4
      <4> QED
        BY <1>1, <3>2, <3>4, <4>2, <4>3
    <3>5. i \in 1..(l + 1)
      BY <1>5
    <3> QED
      BY <1>11, <3>3, <3>4, <3>5
  <2>4. \A w \in Found' : prev'[w] # 0 => Nearer(q, prev[w], Len(Out[prev[w]]))'
    <3>1. \A w \in Found : prev[w] # 0 => Nearer(q, prev[w], Len(Out[prev[w]]))
      BY <1>2 DEF PathOK
    <3> QED
      BY <1>1, <1>3, <3>1 DEF Nearer, Reaches
  <2>5. Len(path') - 1 = l
    BY <1>5, <1>10
  <2> QED
    BY <1>3, <1>10, <2>1, <2>2, <2>3, <2>4, <2>5 DEF PathOK
<1>13. CsrInv' /\ ArraysOK'
  <2>1. /\ heap \subseteq (0..Infinite) \X (1..N) /\ next \in Nat \ {0}
        /\ at = {} \/ \E e \in (0..Infinite) \X (1..N) : at = {e}
    BY <1>1, WorkTypes DEF SInv, ArraysOK
  <2> QED
    BY <1>1, <1>2, <1>4, <1>10, <2>1, ArraysStep DEF Next, Step
<1> QED
  BY <1>1, <1>2, <1>12, <1>13 DEF SInv, SearchInv, PathInv

LEMMA RetracedKeeps ==
    ASSUME SInv, Retraced
    PROVE  SInv'
<1>1. /\ phase = "retracing" /\ phase' = "answered" /\ \E a : answer' = {a}
      /\ UNCHANGED csrVars /\ UNCHANGED <<question, dist, prev, heap, at, next, path>>
  BY DEF Retraced, Answer
<1>2. CsrInv' /\ ArraysOK'
  <2>1. /\ heap \subseteq (0..Infinite) \X (1..N) /\ next \in Nat \ {0}
        /\ at = {} \/ \E e \in (0..Infinite) \X (1..N) : at = {e}
        /\ dist \in [1..N -> -1..Infinite] /\ prev \in [1..N -> 0..N] /\ path \in Seq(1..N)
    BY <1>1, WorkTypes DEF SInv, ArraysOK
  <2> QED
    BY <1>1, <2>1, ArraysStep DEF Next, Step
<1> QED
  BY <1>1, <1>2 DEF SInv, SearchInv, PathInv

LEMMA SearchBegins ==
    ASSUME SInv, AskSearch
    PROVE  SInv'
<1>1. PICK q \in Question :
         /\ stage = "built" /\ question' = {q}
         /\ Known(q) /\ Admitted(q) /\ q.from # q.to
         /\ phase' = "searching" /\ answer' = {}
         /\ dist' = [u \in DOMAIN ids |-> IF u = Origin(q) THEN 0 ELSE -1]
         /\ prev' = [u \in DOMAIN ids |-> 0]
         /\ heap' = {<<0, Origin(q)>>}
         /\ at' = {} /\ next' = 1 /\ path' = <<>>
         /\ UNCHANGED csrVars
  BY DEF AskSearch, Ask, Origin
<1>2. /\ N \in Nat /\ DOMAIN ids = 1..N
      /\ Origin(q) \in 1..N /\ Goal(q) \in 1..N
      /\ ids[Origin(q)] = q.from /\ ids[Goal(q)] = q.to
  BY <1>1, ReadFacts DEF SInv, Known, Origin, Goal
<1>3. Out' = Out /\ N' = N /\ Origin(q)' = Origin(q) /\ Goal(q)' = Goal(q)
      /\ Accepted(q)' = Accepted(q) /\ Known(q)' = Known(q) /\ stage' = stage
  BY <1>1, SameGraph
<1>4. PICK s \in 1..N : s = Origin(q)
  BY <1>2
<1>5. /\ dist' = [u \in 1..N |-> IF u = s THEN 0 ELSE -1] /\ prev' = [u \in 1..N |-> 0]
      /\ heap' = {<<0, s>>}
  BY <1>1, <1>2, <1>4
<1>6. s \in Accepted(q)
  BY <1>1, <1>2, <1>4 DEF Accepted, Admitted
<1>7. Found' = {s} /\ dist'[s] = 0 /\ prev'[s] = 0
  <2>1. Found' = {u \in 1..N : dist'[u] >= 0}
    BY <1>5 DEF Found
  <2>2. \A u \in 1..N : dist'[u] >= 0 <=> u = s
    BY <1>5
  <2> QED
    BY <1>4, <1>5, <2>1, <2>2
<1>8. TreeOK(q)'
  <2>1. NoCycle'
    <3>1. ASSUME NEW S \in SUBSET Found', S # {} PROVE s \in S /\ prev'[s] \notin S
      <4>1. 0 \notin S
        BY <1>7, <1>4
      <4> QED
        BY <1>7, <3>1, <4>1
    <3> QED
      BY <3>1 DEF NoCycle
  <2>2. \A u \in Found' : Parent(q, u)'
    BY <1>3, <1>4, <1>7 DEF Parent
  <2> QED
    BY <1>3, <1>4, <1>6, <1>7, <2>1, <2>2 DEF TreeOK
<1>9. SearchOK(q)'
  <2>1. \A u \in Found' : prev'[u] = 0 /\ ~Done(u)'
    BY <1>5, <1>7 DEF Done
  <2>2. \A e \in heap' : 0 <= dist'[e[2]] /\ dist'[e[2]] <= e[1]
    BY <1>5, <1>7
  <2> QED
    BY <1>1, <1>8, <2>1, <2>2 DEF SearchOK
<1>10. ArraysOK'
  <2>1. /\ dist' \in [1..N -> -1..Infinite] /\ prev' \in [1..N -> 0..N]
        /\ heap' \subseteq (0..Infinite) \X (1..N)
    <3>1. 0 \in -1..Infinite /\ -1 \in -1..Infinite /\ 0 \in 0..Infinite /\ 0 \in 0..N
      BY <1>2, PlusFacts
    <3> QED
      BY <1>5, <3>1
  <2>2. DOMAIN dist' = 1..N /\ 1 \in Nat \ {0} /\ <<>> \in Seq(1..N)
    BY <1>5
  <2>3. /\ stage' = "built" /\ question' = {q} /\ q \in Question
        /\ \A a, b \in answer' : a = b
        /\ phase' \in {"searching", "retracing", "answered"} /\ phase' # "answered"
        /\ \E r \in question' : Known(r)' /\ Admitted(r)' /\ r.from # r.to
    BY <1>1, <1>3 DEF Admitted
  <2> QED
    BY <1>1, <1>3, <2>1, <2>2, <2>3 DEF ArraysOK
<1>11. CsrInv'
  BY CsrKept DEF SInv, Next
<1> QED
  BY <1>1, <1>9, <1>10, <1>11 DEF SInv, SearchInv, PathInv

LEMMA ImmediateKeeps ==
    ASSUME SInv, AskImmediate
    PROVE  SInv'
<1>1. PICK q \in Question :
         /\ stage = "built" /\ question' = {q}
         /\ phase' = "answered" /\ answer' = {Immediate(q)}
         /\ UNCHANGED <<csrVars, dist, prev, heap, at, next, path>>
  BY DEF AskImmediate, Ask, Answer
<1>2. N' = N /\ stage' = stage
  BY <1>1, SameGraph
<1>3. ArraysOK'
  BY <1>1, <1>2 DEF SInv, ArraysOK
<1>4. CsrInv'
  BY CsrKept DEF SInv, Next
<1> QED
  BY <1>1, <1>3, <1>4 DEF SInv, SearchInv, PathInv

LEMMA SInvStep == SInv /\ [Next]_vars => SInv'
<1> SUFFICES ASSUME SInv, [Next]_vars PROVE SInv'
  OBVIOUS
<1>1. CASE Construct /\ UNCHANGED searchVars
  BY <1>1, ConstructKeeps
<1>2. CASE AskImmediate
  BY <1>2, ImmediateKeeps
<1>3. CASE AskSearch
  BY <1>3, SearchBegins
<1>4. CASE PopStale
  BY <1>4, StaleKeeps
<1>5. CASE PopTarget
  BY <1>5, TargetKeeps
<1>6. CASE PopNode
  BY <1>6, NodeKeeps
<1>7. CASE Exhausted
  BY <1>7, ExhaustedKeeps
<1>8. CASE SkipEdge
  BY <1>8, SkipKeeps
<1>9. CASE Relax
  BY <1>9, RelaxKeeps
<1>10. CASE Expanded
  BY <1>10, ExpandedKeeps
<1>11. CASE Retrace
  BY <1>11, RetraceKeeps
<1>12. CASE Retraced
  BY <1>12, RetracedKeeps
<1>13. CASE UNCHANGED vars
  <2>1. UNCHANGED csrVars /\ UNCHANGED <<question, phase, dist, prev, heap, at, next, path, answer>>
    BY <1>13 DEF vars, searchVars
  <2>2. /\ N' = N /\ stage' = stage /\ Out' = Out
        /\ \A q : /\ Known(q)' = Known(q) /\ Origin(q)' = Origin(q) /\ Goal(q)' = Goal(q)
                  /\ Accepted(q)' = Accepted(q)
    BY <2>1, SameGraph
  <2>3. ArraysOK'
    BY <2>1, <2>2 DEF SInv, ArraysOK, Idle, Admitted
  <2>4. CsrInv'
    BY CsrKept DEF SInv
  <2>5. ASSUME NEW q PROVE /\ TreeOK(q) => TreeOK(q)' /\ Found' = Found
                           /\ (SearchOK(q) => SearchOK(q)') /\ (PathOK(q) => PathOK(q)')
    <3>1. TreeOK(q) => /\ TreeOK(q)' /\ Found' = Found
                       /\ \A p, n : Nearer(q, p, n)' <=> Nearer(q, p, n)
      BY <2>1, TreeKept
    <3>2. \A u : Done(u)' <=> Done(u)
      BY <2>1 DEF Done
    <3>3. PathOK(q) => PathOK(q)'
      BY <2>1, <2>2, <3>1 DEF PathOK, Nearer, Reaches
    <3>4. SearchOK(q) => SearchOK(q)'
      BY <2>1, <2>2, <3>1, <3>2 DEF SearchOK, Done, Nearer, Reaches
    <3> QED
      BY <3>1, <3>3, <3>4
  <2>6. SearchInv' /\ PathInv'
    <3>1. ASSUME NEW q \in question', phase' = "searching" PROVE SearchOK(q)'
      <4>1. SearchOK(q)
        BY <2>1, <3>1 DEF SInv, SearchInv
      <4> QED
        BY <4>1, <2>5
    <3>2. ASSUME NEW q \in question', phase' = "retracing" PROVE PathOK(q)'
      <4>1. PathOK(q)
        BY <2>1, <3>2 DEF SInv, PathInv
      <4> QED
        BY <4>1, <2>5
    <3> QED
      BY <3>1, <3>2 DEF SearchInv, PathInv
  <2> QED
    BY <2>3, <2>4, <2>6 DEF SInv
<1> QED
  BY <1>1, <1>2, <1>3, <1>4, <1>5, <1>6, <1>7, <1>8, <1>9, <1>10, <1>11, <1>12, <1>13
     DEF Next, Step

(* The type invariant that is checked follows. *)
LEMMA SInvTypes == SInv => TypeOK
<1> SUFFICES ASSUME SInv PROVE TypeOK
  OBVIOUS
<1>1. /\ LabelsOK /\ RowsOK /\ ArraysOK
  BY DEF SInv, CsrInv, GraphInv
<1>2. /\ N \in Nat /\ E \in Nat /\ DOMAIN ids = 1..N /\ input \in Input
      /\ index \in [DOMAIN index -> 1..N]
  <2>1. ids \in Seq(Label) /\ input \in Input /\ index \in [DOMAIN index -> 1..N]
    BY <1>1 DEF LabelsOK, N
  <2> QED
    BY <2>1, InputFacts, LenProperties DEF N, E
<1>3. /\ placed \in 0..E
      /\ \A u \in DOMAIN offsets : offsets[u] \in 0..E
      /\ \A i \in DOMAIN targets : targets[i] \in 0..N /\ weights[i] \in 0..MaxCost
  <2>1. CASE stage \in {"labels", "failed"}
    BY <1>1, <1>2, <2>1 DEF RowsOK
  <2>2. CASE stage \in {"counted", "placing", "built"}
    <3>1. /\ Checked /\ placed \in 0..E /\ DOMAIN offsets = 1..(N + 1)
          /\ targets \in [1..E -> 0..N] /\ weights \in [1..E -> 0..MaxCost]
      BY <1>1, <2>2 DEF RowsOK
    <3>2. ASSUME NEW u \in 1..(N + 1), NEW k \in 0..E
          PROVE  Start(u) \in 0..E /\ Count(u, k) \in 0..E /\ Start(u) + Count(u, k) \in 0..E
      <4>1. Count(u, k) \in Nat /\ Count(u, E) \in Nat /\ Count(u, k) <= Count(u, E)
        <5>1. k \in Nat /\ k <= E
          BY <1>2
        <5> QED
          BY <1>2, <3>1, <5>1, CountFacts
      <4>2. Start(u) \in 0..E /\ Start(u) + Count(u, E) <= E
        <5>1. CASE u \in 1..N
          <6>1. u + 1 \in 1..(N + 1)
            BY <1>2, <5>1
          <6>2. Start(u + 1) = Start(u) + Count(u, E) /\ Start(u + 1) \in 0..E /\ Start(u) \in 0..E
            BY <3>1, <5>1, <6>1, StartFacts
          <6> QED
            BY <1>2, <6>2
        <5>2. CASE u = N + 1
          <6>1. Start(u) = E /\ Count(u, E) = 0
            BY <3>1, <5>2, StartFacts
          <6> QED
            BY <1>2, <6>1
        <5> QED
          BY <1>2, <5>1, <5>2
      <4> DEFINE s == Start(u)
                 a == Count(u, k)
                 b == Count(u, E)
      <4>3. a \in Nat /\ b \in Nat /\ a <= b /\ s \in 0..E /\ s + b <= E
        BY <4>1, <4>2
      <4> HIDE DEF s, a, b
      <4>4. s \in 0..E /\ a \in 0..E /\ s + a \in 0..E
        BY <1>2, <4>3
      <4> QED
        BY <4>4 DEF s, a, b
    <3>3. ASSUME NEW u \in 1..(N + 1) PROVE offsets[u] \in 0..E
      <4>1. E \in 0..E
        BY <1>2
      <4>2. \/ offsets[u] = Count(u, E) \/ offsets[u] = Start(u)
            \/ offsets[u] = Start(u) + Count(u, placed)
        BY <1>1, <2>2 DEF RowsOK
      <4> QED
        BY <3>1, <3>2, <4>1, <4>2
    <3> QED
      BY <3>1, <3>3
  <2> QED
    BY <1>1, <2>1, <2>2 DEF LabelsOK
<1>4. /\ phase \in {"searching", "retracing", "answered"}
      /\ \A u \in DOMAIN dist : dist[u] \in -1..Infinite /\ prev[u] \in 0..N
      /\ \A e \in heap \cup at : e \in (0..Infinite) \X DOMAIN dist
      /\ \A i \in DOMAIN path : path[i] \in 1..N
  <2>1. \A i \in DOMAIN path : path[i] \in 1..N
    <3>1. path \in Seq(1..N)
      BY <1>1 DEF ArraysOK
    <3>2. DOMAIN path = 1..Len(path)
      BY <3>1, LenProperties
    <3> QED
      BY <3>1, <3>2, ElementOfSeq
  <2> QED
    BY <1>1, <2>1 DEF ArraysOK
<1> QED
  BY <1>1, <1>2, <1>3, <1>4 DEF TypeOK, LabelsOK, N, E

(* The invariant of the construction and of the search holds, for every    *)
(* input (new_with_attrs, dijkstra_path, reconstruct_path).                *)
THEOREM SInvariance == Spec => []SInv
  BY SInvInit, SInvStep, PTL DEF Spec

(* Distances, predecessors, heap entries and the path retraced are those   *)
(* of nodes of the graph; no index is out of range (dijkstra_path).        *)
THEOREM PathTypes == Spec => []TypeOK
  BY SInvariance, SInvTypes, PTL

-----------------------------------------------------------------------------
(* The refinement of Dijkstra. *)

(* The query that Dijkstra is asked is the one asked here. *)
LEMMA SameQuery ==
    ASSUME CsrInv, stage = "built", NEW q \in Question
    PROVE  /\ AskedOf(input, q) \in Queries
           /\ AskedOf(input, q).graph.out = Out
           /\ AskedOf(input, q).accepted = Accepted(q)
           /\ OneShot!Source(AskedOf(input, q)) = Origin(q)
           /\ OneShot!Target(AskedOf(input, q)) = Goal(q)
           /\ OneShot!Searchable(AskedOf(input, q)) <=> Known(q) /\ Admitted(q) /\ q.from # q.to
           /\ ~OneShot!Searchable(AskedOf(input, q)) =>
                 OneShot!Immediate(AskedOf(input, q)) = CostOnly(Immediate(q))
<1> DEFINE r == AskedOf(input, q)
<1>1. /\ input \in Input /\ DOMAIN ids = 1..N /\ DOMAIN input.nodes = 1..N
      /\ index \in [DOMAIN index -> 1..N]
      /\ \A l \in DOMAIN index : ids[index[l]] = l
      /\ \A i \in 1..N : ids[i] = input.nodes[i]
      /\ Intended(input).index = index
  BY ReadFacts, BuiltFacts, CheckedFacts
<1>2. Valid(input)
  BY DEF CsrInv, GraphInv, StageIsEarned
<1>3. r \in Queries
  BY <1>1, <1>2 DEF Queries
<1>4. /\ r.graph = Intended(input) /\ r.from = q.from /\ r.to = q.to
      /\ r.accepted = {u \in DOMAIN input.nodes : input.nodes[u] \in q.accepted}
  BY DEF AskedOf
<1> HIDE DEF r
<1>5. r.graph.out = Out /\ r.graph.index = index
  BY <1>1, <1>4 DEF Out
<1>6. r.accepted = Accepted(q)
  BY <1>1, <1>4 DEF Accepted
<1>7. /\ OneShot!Source(r) = Origin(q) /\ OneShot!Target(r) = Goal(q)
      /\ OneShot!Known(r) <=> Known(q)
  BY <1>4, <1>5 DEF OneShot!Source, OneShot!Target, Origin, Goal, OneShot!Known, Known
<1>8. Known(q) => /\ Origin(q) \in 1..N /\ Goal(q) \in 1..N
                  /\ ids[Origin(q)] = q.from /\ ids[Goal(q)] = q.to
  BY <1>1 DEF Known, Origin, Goal
<1>9. Known(q) => (OneShot!Admitted(r) <=> Admitted(q))
  BY <1>1, <1>6, <1>7, <1>8 DEF OneShot!Admitted, Admitted, Accepted
<1>10. Known(q) => (Origin(q) = Goal(q) <=> q.from = q.to)
  BY <1>8 DEF Origin, Goal
<1>11. OneShot!Searchable(r) <=> Known(q) /\ Admitted(q) /\ q.from # q.to
  BY <1>7, <1>9, <1>10 DEF OneShot!Searchable
<1>12. OneShot!CostAnswer(0) = [kind |-> "cost", cost |-> 0]
  BY PlusFacts DEF OneShot!CostAnswer, OneShot!Infinite, Infinite
<1>13. ASSUME ~OneShot!Searchable(r)
       PROVE  OneShot!Immediate(r) = CostOnly(Immediate(q))
  <2>1. CASE ~Known(q)
    BY <1>7, <2>1 DEF OneShot!Immediate, OneShot!Unknown, Immediate, CostOnly
  <2>2. CASE Known(q) /\ ~Admitted(q)
    BY <1>7, <1>9, <2>2 DEF OneShot!Immediate, OneShot!None, Immediate, CostOnly
  <2>3. CASE Known(q) /\ Admitted(q)
    BY <1>7, <1>9, <1>12, <2>3 DEF OneShot!Immediate, Immediate, CostOnly
  <2> QED
    BY <2>1, <2>2, <2>3
<1> QED
  BY <1>3, <1>5, <1>6, <1>7, <1>11, <1>13 DEF r

(* The same while the query is worked on. *)
LEMMA SearchSeen ==
    ASSUME SInv, phase = "searching"
    PROVE  \E q \in Question :
              /\ question = {q} /\ Asked = {AskedOf(input, q)} /\ Told = {} /\ answer = {}
              /\ AskedOf(input, q).graph.out = Out
              /\ AskedOf(input, q).accepted = Accepted(q)
              /\ OneShot!Target(AskedOf(input, q)) = Goal(q)
              /\ DOMAIN Seen = Found /\ \A u \in Found : Seen[u] = dist[u]
              /\ \A e \in heap \cup at : e[2] \in Found
<1>1. PICK q \in Question : question = {q} /\ stage = "built" /\ answer = {} /\ SearchOK(q)
  BY AtWork
<1>2. /\ AskedOf(input, q).graph.out = Out
      /\ AskedOf(input, q).accepted = Accepted(q)
      /\ OneShot!Target(AskedOf(input, q)) = Goal(q)
  BY <1>1, SameQuery DEF SInv
<1>3. Asked = {AskedOf(input, q)} /\ Told = {}
  BY <1>1 DEF Asked, Told
<1>4. DOMAIN Seen = Found /\ \A u \in Found : Seen[u] = dist[u]
  BY DEF Seen, Found
<1>5. \A e \in heap \cup at : e[2] \in Found
  <2>1. \A e \in heap \cup at : e[2] \in 1..N /\ e[1] \in Nat
    BY WorkTypes
  <2>2. \A e \in heap : dist[e[2]] >= 0
    BY <1>1, <2>1, WorkTypes DEF SearchOK
  <2>3. \A e \in at : dist[e[2]] >= 0
    BY <1>1, <2>1 DEF SearchOK
  <2> QED
    BY <2>1, <2>2, <2>3, WorkTypes
<1> QED
  BY <1>1, <1>2, <1>3, <1>4, <1>5

LEMMA SeenKept ==
    ASSUME UNCHANGED csrVars, UNCHANGED <<question, dist>>
    PROVE  Asked' = Asked /\ Seen' = Seen
BY DEF Asked, Seen, csrVars

LEMMA ImmediateRefines ==
    ASSUME SInv, AskImmediate
    PROVE  OneShot!AskImmediate
<1>1. PICK q \in Question :
         /\ stage = "built" /\ phase = "answered" /\ question' = {q}
         /\ ~Known(q) \/ ~Admitted(q) \/ q.from = q.to
         /\ phase' = "answered" /\ answer' = {Immediate(q)}
         /\ UNCHANGED <<csrVars, dist, prev, heap, at, next, path>>
  BY DEF AskImmediate, Ask, Answer
<1> DEFINE r == AskedOf(input, q)
<1>2. r \in Queries /\ ~OneShot!Searchable(r) /\ OneShot!Immediate(r) = CostOnly(Immediate(q))
  BY <1>1, SameQuery DEF SInv
<1>3. Asked' = {r} /\ Told' = {CostOnly(Immediate(q))} /\ Seen' = Seen
  BY <1>1 DEF Asked, Told, Seen, csrVars
<1>4. Asked = {} \/ Told # {}
  BY <1>1 DEF SInv, ArraysOK, Asked, Told
<1> HIDE DEF r
<1> QED
  BY <1>1, <1>2, <1>3, <1>4 DEF OneShot!AskImmediate, OneShot!Ask

LEMMA SearchRefines ==
    ASSUME SInv, AskSearch
    PROVE  OneShot!AskSearch
<1>1. PICK q \in Question :
         /\ stage = "built" /\ phase = "answered" /\ question' = {q}
         /\ Known(q) /\ Admitted(q) /\ q.from # q.to
         /\ phase' = "searching" /\ answer' = {}
         /\ dist' = [u \in DOMAIN ids |-> IF u = Origin(q) THEN 0 ELSE -1]
         /\ heap' = {<<0, Origin(q)>>}
         /\ at' = {} /\ next' = 1
         /\ UNCHANGED csrVars
  BY DEF AskSearch, Ask, Origin
<1> DEFINE r == AskedOf(input, q)
<1>2. r \in Queries /\ OneShot!Searchable(r) /\ OneShot!Source(r) = Origin(q)
  BY <1>1, SameQuery DEF SInv
<1>3. Asked' = {r} /\ Told' = {}
  BY <1>1 DEF Asked, Told, csrVars
<1>4. Asked = {} \/ Told # {}
  BY <1>1 DEF SInv, ArraysOK, Asked, Told
<1>5. Seen' = [u \in {Origin(q)} |-> 0]
  <2>1. PICK s : s = Origin(q) /\ s \in DOMAIN ids
    BY <1>1, ReadFacts DEF SInv, Known, Origin
  <2>2. {v \in DOMAIN dist' : dist'[v] >= 0} = {s}
    BY <1>1, <2>1
  <2>3. Seen' = [u \in {s} |-> dist'[u]]
    BY <2>2 DEF Seen
  <2> QED
    BY <1>1, <2>1, <2>3
<1> HIDE DEF r
<1> QED
  BY <1>1, <1>2, <1>3, <1>4, <1>5 DEF OneShot!AskSearch, OneShot!Ask

LEMMA PopRefines ==
    ASSUME SInv, NEW e \in heap, Popped(e)
    PROVE  OneShot!Popped(e) /\ Seen[e[2]] = dist[e[2]] /\ Asked' = Asked /\ Seen' = Seen
<1>1. phase = "searching" /\ UNCHANGED csrVars /\ UNCHANGED <<question, dist>>
  BY DEF Popped
<1>2. Told = {}
  BY <1>1, SearchSeen
<1>3. OneShot!Popped(e)
  BY <1>2 DEF OneShot!Popped, Popped, OneShot!Searching, OneShot!IsTop
<1> QED
  BY <1>1, <1>3, SearchSeen, SeenKept

LEMMA StaleRefines ==
    ASSUME SInv, PopStale
    PROVE  OneShot!PopStale
<1>1. PICK e \in heap : Popped(e) /\ e[1] > dist[e[2]]
  BY DEF PopStale
<1>2. UNCHANGED <<phase, at, next, answer>> /\ phase = "searching"
  BY <1>1 DEF PopStale, Popped
<1>3. OneShot!Popped(e) /\ Seen[e[2]] = dist[e[2]] /\ Asked' = Asked /\ Seen' = Seen
  BY <1>1, PopRefines
<1>4. \E r : r \in Asked
  BY <1>2, SearchSeen
<1>5. Told' = Told
  BY <1>2 DEF Told
<1> QED
  BY <1>1, <1>2, <1>3, <1>4, <1>5 DEF OneShot!PopStale

LEMMA NodeRefines ==
    ASSUME SInv, PopNode
    PROVE  OneShot!PopNode
<1>1. PICK q \in question, e \in heap :
         /\ Popped(e) /\ e[1] <= dist[e[2]] /\ e[2] # Goal(q)
         /\ at' = {e} /\ next' = 1
  BY DEF PopNode, Goal
<1>2. UNCHANGED <<phase, answer>> /\ phase = "searching"
  BY <1>1 DEF PopNode, Popped
<1>3. OneShot!Popped(e) /\ Seen[e[2]] = dist[e[2]] /\ Asked' = Asked /\ Seen' = Seen
  BY <1>1, PopRefines
<1>4. PICK r \in Asked : OneShot!Target(r) = Goal(q)
  BY <1>1, <1>2, SearchSeen
<1>5. Told' = Told
  BY <1>2 DEF Told
<1> QED
  BY <1>1, <1>2, <1>3, <1>4, <1>5 DEF OneShot!PopNode

LEMMA TargetRefines ==
    ASSUME SInv, PopTarget
    PROVE  OneShot!PopTarget
<1>1. PICK q \in question, e \in heap :
         /\ Popped(e) /\ e[1] <= dist[e[2]] /\ e[2] = Goal(q) /\ Conclude(q)
  BY DEF PopTarget, Goal
<1>2. /\ phase = "searching" /\ UNCHANGED <<at, next>>
      /\ UNCHANGED csrVars /\ UNCHANGED <<question, dist>>
  BY <1>1 DEF PopTarget, Popped
<1>3. OneShot!Popped(e) /\ Seen[e[2]] = dist[e[2]] /\ Asked' = Asked /\ Seen' = Seen
  BY <1>1, PopRefines
<1>4. PICK r \in Asked : OneShot!Target(r) = Goal(q) /\ question = {q} /\ answer = {}
  BY <1>1, <1>2, SearchSeen
<1>5. /\ e[1] = dist[Goal(q)] /\ e[1] \in 0..Infinite
      /\ IF e[1] = Infinite
         THEN phase' = "answered" /\ answer' = {[kind |-> "overflow"]}
         ELSE phase' = "retracing" /\ answer' = answer
  <2>1. PICK f \in heap :
          /\ f[2] = Goal(q) /\ f[1] = dist[Goal(q)] /\ f[1] \in 0..Infinite
          /\ IF f[1] = Infinite
             THEN phase' = "answered" /\ answer' = {[kind |-> "overflow"]}
             ELSE phase' = "retracing" /\ answer' = answer
    BY <1>4, TargetKeeps
  <2>2. e[1] \in Nat /\ f[1] \in Nat
    BY <1>2, WorkTypes
  <2>3. \E p \in Question : question = {p} /\ SearchOK(p)
    BY <1>2, AtWork
  <2>4. dist[e[2]] <= e[1]
    BY <2>3 DEF SearchOK
  <2>5. e[1] = f[1]
    BY <1>1, <2>1, <2>2, <2>4
  <2> QED
    BY <2>1, <2>5
<1>6. Told' = {OneShot!CostAnswer(e[1])}
  <2>1. CASE e[1] = Infinite
    BY <1>5, <2>1 DEF Told, CostOnly, OneShot!CostAnswer, OneShot!Infinite, Infinite
  <2>2. CASE e[1] # Infinite
    <3>1. Told' = {[kind |-> "cost", cost |-> e[1]]}
      BY <1>2, <1>4, <1>5, <2>2 DEF Told, Goal, csrVars, built
    <3> QED
      BY <2>2, <3>1 DEF OneShot!CostAnswer, OneShot!Infinite, Infinite
  <2> QED
    BY <2>1, <2>2
<1> QED
  BY <1>1, <1>2, <1>3, <1>4, <1>6 DEF OneShot!PopTarget

LEMMA ExhaustedRefines ==
    ASSUME SInv, Exhausted
    PROVE  OneShot!Exhausted
<1>1. /\ phase = "searching" /\ at = {} /\ heap = {}
      /\ phase' = "answered" /\ answer' = {[kind |-> "none"]}
      /\ UNCHANGED csrVars /\ UNCHANGED <<question, dist, heap, at, next>>
  BY ExhaustedKeeps DEF Exhausted
<1>2. Asked' = Asked /\ Seen' = Seen /\ Asked # {} /\ Told = {}
  BY <1>1, SeenKept, SearchSeen
<1>3. Told' = {OneShot!None}
  BY <1>1 DEF Told, CostOnly, OneShot!None
<1> QED
  BY <1>1, <1>2, <1>3 DEF OneShot!Exhausted, OneShot!Searching

(* The edge that is followed is the next of Dijkstra's. *)
LEMMA EdgeRefines ==
    ASSUME SInv, NEW q \in question, NEW e \in at, Following(e)
    PROVE  /\ question = {q} /\ Asked = {AskedOf(input, q)} /\ Told = {} /\ answer = {}
           /\ AskedOf(input, q).accepted = Accepted(q)
           /\ OneShot!Following(AskedOf(input, q), e)
           /\ OneShot!Edge(AskedOf(input, q), e).to = Neighbour(e)
           /\ OneShot!Reached(AskedOf(input, q), e) = Reached(e)
           /\ OneShot!Improves(Neighbour(e), Reached(e)) <=>
                 dist[Neighbour(e)] < 0 \/ Reached(e) < dist[Neighbour(e)]
           /\ Neighbour(e) \in 1..N /\ Reached(e) \in 0..Infinite
<1> DEFINE r == AskedOf(input, q)
<1>1. /\ phase = "searching" /\ at = {e} /\ next \in 1..Len(Out[e[2]]) /\ next \in Nat
      /\ Neighbour(e) = Out[e[2]][next].to /\ Neighbour(e) \in 1..N
      /\ Reached(e) = Reaches(e[2], next) /\ Reached(e) \in 0..Infinite
      /\ e[2] \in 1..N /\ e[1] = dist[e[2]]
  BY EdgeFollowed
<1>2. /\ question = {q} /\ Asked = {r} /\ Told = {} /\ answer = {}
      /\ r.graph.out = Out /\ r.accepted = Accepted(q)
      /\ DOMAIN Seen = Found /\ \A u \in Found : Seen[u] = dist[u]
  BY <1>1, SearchSeen
<1> HIDE DEF r
<1>3. OneShot!Following(r, e)
  <2>1. Len(Out[e[2]]) \in Nat
    BY <1>1, AtWork, ReadFacts DEF SInv
  <2>2. next <= Len(Out[e[2]])
    BY <1>1, <2>1
  <2> QED
    BY <1>1, <1>2, <2>2 DEF OneShot!Following, OneShot!Searching
<1>4. /\ OneShot!Edge(r, e).to = Neighbour(e)
      /\ OneShot!Reached(r, e) = Reached(e)
  BY <1>1, <1>2 DEF OneShot!Edge, OneShot!Reached, Reaches, OneShot!Plus, Plus,
                    OneShot!Infinite, Infinite
<1>5. OneShot!Improves(Neighbour(e), Reached(e)) <=>
         dist[Neighbour(e)] < 0 \/ Reached(e) < dist[Neighbour(e)]
  <2>1. PICK v \in 1..N : v = Neighbour(e)
    BY <1>1
  <2>2. dist[v] \in Int /\ (v \in Found <=> dist[v] >= 0) /\ Reached(e) \in Nat
    BY <1>1, <2>1, WorkTypes, PlusFacts
  <2>3. v \in Found => (OneShot!Improves(v, Reached(e)) <=> Reached(e) < dist[v])
    BY <1>2 DEF OneShot!Improves
  <2>4. v \notin Found => OneShot!Improves(v, Reached(e))
    BY <1>2 DEF OneShot!Improves
  <2>5. OneShot!Improves(v, Reached(e)) <=> dist[v] < 0 \/ Reached(e) < dist[v]
    BY <2>2, <2>3, <2>4
  <2> QED
    BY <2>1, <2>5
<1> QED
  BY <1>1, <1>2, <1>3, <1>4, <1>5 DEF r

LEMMA SkipRefines ==
    ASSUME SInv, SkipEdge
    PROVE  OneShot!SkipEdge
<1>1. PICK q \in question, e \in at : Following(e) /\ ~Improves(q, e)
  BY DEF SkipEdge
<1>2. /\ next' = next + 1
      /\ UNCHANGED csrVars /\ UNCHANGED <<question, dist, heap, phase, at, answer>>
  BY <1>1 DEF SkipEdge, Following
<1> DEFINE r == AskedOf(input, q)
<1>3. /\ Asked = {r} /\ r.accepted = Accepted(q)
      /\ OneShot!Following(r, e)
      /\ OneShot!Edge(r, e).to = Neighbour(e) /\ OneShot!Reached(r, e) = Reached(e)
      /\ OneShot!Improves(Neighbour(e), Reached(e)) <=>
            dist[Neighbour(e)] < 0 \/ Reached(e) < dist[Neighbour(e)]
  BY <1>1, EdgeRefines
<1>4. Asked' = Asked /\ Seen' = Seen /\ Told' = Told
  <2>1. Told' = Told
    BY <1>2 DEF Told, csrVars, built
  <2> QED
    BY <1>2, <2>1, SeenKept
<1> HIDE DEF r
<1>5. OneShot!Edge(r, e).to \notin r.accepted
      \/ ~OneShot!Improves(OneShot!Edge(r, e).to, OneShot!Reached(r, e))
  BY <1>1, <1>3 DEF Improves
<1> QED
  BY <1>1, <1>2, <1>3, <1>4, <1>5 DEF OneShot!SkipEdge

LEMMA RelaxRefines ==
    ASSUME SInv, Relax
    PROVE  OneShot!Relax
<1>1. PICK q \in question, e \in at :
         /\ Following(e) /\ Improves(q, e)
         /\ dist' = [dist EXCEPT ![Neighbour(e)] = Reached(e)]
         /\ heap' = heap \cup {<<Reached(e), Neighbour(e)>>}
  BY DEF Relax
<1>2. /\ next' = next + 1 /\ phase = "searching"
      /\ UNCHANGED csrVars /\ UNCHANGED <<question, phase, at, answer>>
  BY <1>1 DEF Following
<1> DEFINE r == AskedOf(input, q)
<1>3. /\ Asked = {r} /\ r.accepted = Accepted(q) /\ Told = {} /\ answer = {}
      /\ OneShot!Following(r, e)
      /\ OneShot!Edge(r, e).to = Neighbour(e) /\ OneShot!Reached(r, e) = Reached(e)
      /\ OneShot!Improves(Neighbour(e), Reached(e)) <=>
            dist[Neighbour(e)] < 0 \/ Reached(e) < dist[Neighbour(e)]
      /\ Neighbour(e) \in 1..N /\ Reached(e) \in 0..Infinite
  BY <1>1, EdgeRefines
<1>4. Asked' = Asked /\ Told' = Told
  BY <1>2, <1>3 DEF Asked, Told, csrVars
<1> HIDE DEF r
<1>5. PICK v \in 1..N, c \in 0..Infinite : v = Neighbour(e) /\ c = Reached(e)
  BY <1>3
<1>6. Seen' = [u \in DOMAIN Seen \cup {v} |-> IF u = v THEN c ELSE Seen[u]]
  <2>1. DOMAIN dist = 1..N /\ dist \in [1..N -> -1..Infinite] /\ c \in Nat
    BY <1>2, WorkTypes, PlusFacts
  <2>2. dist' = [dist EXCEPT ![v] = c] /\ DOMAIN Seen = {u \in DOMAIN dist : dist[u] >= 0}
        /\ \A u \in DOMAIN Seen : Seen[u] = dist[u]
    BY <1>1, <1>5 DEF Seen
  <2>3. {u \in DOMAIN dist' : dist'[u] >= 0} = DOMAIN Seen \cup {v}
    BY <2>1, <2>2
  <2>4. \A u \in DOMAIN Seen \cup {v} : dist'[u] = IF u = v THEN c ELSE Seen[u]
    BY <2>1, <2>2
  <2>5. Seen' = [u \in DOMAIN Seen \cup {v} |-> dist'[u]]
    BY <2>3 DEF Seen
  <2> QED
    BY <2>4, <2>5
<1>7. /\ OneShot!Edge(r, e).to = v /\ OneShot!Reached(r, e) = c /\ v \in r.accepted
      /\ OneShot!Improves(v, c) /\ heap' = heap \cup {<<c, v>>}
  BY <1>1, <1>3, <1>5 DEF Improves
<1> QED
  BY <1>1, <1>2, <1>3, <1>4, <1>6, <1>7 DEF OneShot!Relax

LEMMA ExpandedRefines ==
    ASSUME SInv, Expanded
    PROVE  OneShot!Expanded
<1>1. PICK e \in at : offsets[e[2]] + next > offsets[e[2] + 1]
  BY DEF Expanded
<1>2. /\ phase = "searching" /\ at' = {}
      /\ UNCHANGED csrVars /\ UNCHANGED <<question, dist, heap, phase, next, answer>>
  BY DEF Expanded
<1>3. PICK r \in Asked : r.graph.out = Out /\ Told = {}
  BY <1>2, SearchSeen
<1>4. next > Len(Out[e[2]])
  <2>1. e[2] \in 1..N /\ next \in Nat \ {0} /\ stage = "built" /\ CsrInv
    BY <1>1, <1>2, WorkTypes, AtWork DEF SInv
  <2>2. /\ offsets[e[2]] \in 0..E /\ offsets[e[2] + 1] = offsets[e[2]] + Len(Out[e[2]])
        /\ Len(Out[e[2]]) \in Nat
    BY <2>1, BuiltFacts
  <2>3. offsets[e[2]] \in Int
    BY <2>2
  <2> QED
    BY <1>1, <2>1, <2>2, <2>3
<1>5. Asked' = Asked /\ Seen' = Seen /\ Told' = Told
  <2>1. Told' = Told
    BY <1>2 DEF Told, csrVars, built
  <2> QED
    BY <1>2, <2>1, SeenKept
<1> QED
  BY <1>1, <1>2, <1>3, <1>4, <1>5 DEF OneShot!Expanded, OneShot!Searching

(* The rest of the steps are none of Dijkstra's. *)
LEMMA OthersStutter ==
    ASSUME SInv, (Construct /\ UNCHANGED searchVars) \/ Retrace \/ Retraced \/ UNCHANGED vars
    PROVE  UNCHANGED OneShot!vars
<1>1. CASE Construct /\ UNCHANGED searchVars
  <2>1. stage # "built"
    BY <1>1 DEF Construct, RefuseSize, AddNode, RefuseDuplicate, RefuseEdge, CountEdges,
                SumOffsets, PlaceEdge, ShiftOffsets
  <2>2. question = {} /\ phase = "answered"
    BY <2>1 DEF SInv, ArraysOK, Idle
  <2>3. UNCHANGED <<Asked, Seen, Told>>
    BY <1>1, <2>2 DEF Asked, Seen, Told, searchVars
  <2> QED
    BY <1>1, <2>3 DEF OneShot!vars, searchVars
<1>2. CASE Retrace
  <2>1. UNCHANGED csrVars /\ UNCHANGED <<question, phase, dist, heap, at, next, answer>>
    BY <1>2 DEF Retrace
  <2>2. Told' = Told
    BY <2>1 DEF Told, csrVars, built
  <2> QED
    BY <2>1, <2>2, SeenKept DEF OneShot!vars
<1>3. CASE Retraced
  <2>1. /\ phase = "retracing" /\ phase' = "answered"
        /\ UNCHANGED csrVars /\ UNCHANGED <<question, dist, heap, at, next>>
    BY <1>3 DEF Retraced, Answer
  <2>2. PICK q \in question :
          answer' = {[kind |-> "path", cost |-> dist[index[q.to]],
                      labels |-> [i \in DOMAIN path |-> ids[path[i]]]]}
    BY <1>3 DEF Retraced, Answer
  <2>3. question = {q}
    BY <2>1, <2>2, AtWork
  <2>4. Told = {[kind |-> "cost", cost |-> dist[index[q.to]]]}
    BY <2>1, <2>3 DEF Told
  <2>5. Told' = {[kind |-> "cost", cost |-> dist[index[q.to]]]}
    BY <2>1, <2>2 DEF Told, CostOnly
  <2> QED
    BY <2>1, <2>4, <2>5, SeenKept DEF OneShot!vars
<1>4. CASE UNCHANGED vars
  <2>1. UNCHANGED csrVars /\ UNCHANGED <<question, phase, dist, heap, at, next, answer>>
    BY <1>4 DEF vars, searchVars
  <2>2. Told' = Told
    BY <2>1 DEF Told, csrVars, built
  <2> QED
    BY <2>1, <2>2, SeenKept DEF OneShot!vars
<1> QED
  BY <1>1, <1>2, <1>3, <1>4

LEMMA StepRefines == SInv /\ [Next]_vars => [OneShot!Next]_(OneShot!vars)
<1> SUFFICES ASSUME SInv, [Next]_vars
             PROVE  OneShot!Next \/ UNCHANGED OneShot!vars
  OBVIOUS
<1>1. CASE AskImmediate
  BY <1>1, ImmediateRefines DEF OneShot!Next, OneShot!Asking
<1>2. CASE AskSearch
  BY <1>2, SearchRefines DEF OneShot!Next, OneShot!Asking
<1>3. CASE PopStale
  BY <1>3, StaleRefines DEF OneShot!Next, OneShot!Step
<1>4. CASE PopTarget
  BY <1>4, TargetRefines DEF OneShot!Next, OneShot!Step
<1>5. CASE PopNode
  BY <1>5, NodeRefines DEF OneShot!Next, OneShot!Step
<1>6. CASE Exhausted
  BY <1>6, ExhaustedRefines DEF OneShot!Next, OneShot!Step
<1>7. CASE SkipEdge
  BY <1>7, SkipRefines DEF OneShot!Next, OneShot!Step
<1>8. CASE Relax
  BY <1>8, RelaxRefines DEF OneShot!Next, OneShot!Step
<1>9. CASE Expanded
  BY <1>9, ExpandedRefines DEF OneShot!Next, OneShot!Step
<1>10. CASE (Construct /\ UNCHANGED searchVars) \/ Retrace \/ Retraced \/ UNCHANGED vars
  BY <1>10, OthersStutter
<1> QED
  BY <1>1, <1>2, <1>3, <1>4, <1>5, <1>6, <1>7, <1>8, <1>9, <1>10 DEF Next, Step

(* The search with predecessors and the way back behave like the search    *)
(* for the cost, on the edges that were given (dijkstra_path).             *)
THEOREM PathImplementsDijkstra == Spec => ImplementsOneShot
<1>1. Init => OneShot!Init
  <2> SUFFICES ASSUME Init PROVE OneShot!Init
    OBVIOUS
  <2>1. Asked = {} /\ Told = {} /\ Seen = [u \in {} |-> 0]
    BY DEF Init, Asked, Told, Seen
  <2> QED
    BY <2>1 DEF Init, OneShot!Init
<1> QED
  BY <1>1, StepRefines, SInvariance, PTL DEF Spec, ImplementsOneShot, OneShot!Spec

-----------------------------------------------------------------------------
(* The path that is returned. *)

(* The edges of a row are those given between the two labels. *)
RowWeights(p, u) == {Out[p][i].weight : i \in {j \in 1..Len(Out[p]) : Out[p][j].to = u}}

LEMMA RowEdges ==
    ASSUME CsrInv, stage = "built", NEW p \in 1..N, NEW u \in 1..N
    PROVE  RowWeights(p, u) = WeightsBetween(ids[p], ids[u])
<1> DEFINE Among(k, w) == \E i \in 1..Len(Arcs(p, k)) : Arcs(p, k)[i].to = u /\ Arcs(p, k)[i].weight = w
           Given(k, w) == \E e \in 1..k : From(e) = p /\ To(e) = u /\ input.edges[e].weight = w
           S == {k \in 0..E : \A w : Among(k, w) <=> Given(k, w)}
<1>1. Checked /\ E \in Nat /\ DOMAIN input.edges = 1..E /\ Out[p] = Arcs(p, E)
  BY BuiltFacts, CheckedFacts
<1>2. 0 \in S
  <2>1. Arcs(p, 0) = <<>> /\ 0 \in 0..E
    BY <1>1, ArcsFacts
  <2> QED
    BY <2>1
<1>3. ASSUME NEW k \in 0..(E - 1), k \in S PROVE k + 1 \in S
  <2>1. k + 1 \in 0..E /\ k \in Nat /\ k \in 0..E
    BY <1>1
  <2>2. ASSUME NEW w PROVE Among(k + 1, w) <=> Given(k + 1, w)
    <3>1. Arcs(p, k) \in Seq(ArcType)
      BY <1>1, <2>1, ArcsFacts
    <3>2. Given(k + 1, w) <=> \/ Given(k, w)
                              \/ From(k + 1) = p /\ To(k + 1) = u /\ input.edges[k + 1].weight = w
      <4>1. 1..(k + 1) = (1..k) \cup {k + 1}
        BY <2>1
      <4> QED
        BY <4>1
    <3>3. CASE From(k + 1) = p
      <4>1. Arcs(p, k + 1) = Append(Arcs(p, k), Arc(k + 1))
        BY <1>1, <3>3, ArcsFacts
      <4>2. /\ Len(Arcs(p, k + 1)) = Len(Arcs(p, k)) + 1 /\ Len(Arcs(p, k)) \in Nat
            /\ \A i \in 1..Len(Arcs(p, k)) : Arcs(p, k + 1)[i] = Arcs(p, k)[i]
            /\ Arcs(p, k + 1)[Len(Arcs(p, k)) + 1] = Arc(k + 1)
        BY <3>1, <4>1
      <4>3. Among(k + 1, w) <=> Among(k, w) \/ (Arc(k + 1).to = u /\ Arc(k + 1).weight = w)
        <5>1. 1..(Len(Arcs(p, k)) + 1) = (1..Len(Arcs(p, k))) \cup {Len(Arcs(p, k)) + 1}
          BY <4>2
        <5> QED
          BY <4>2, <5>1
      <4>4. Arc(k + 1).to = To(k + 1) /\ Arc(k + 1).weight = input.edges[k + 1].weight
        BY DEF Arc
      <4>5. Among(k, w) <=> Given(k, w)
        BY <1>3
      <4> HIDE DEF Among, Given
      <4> QED
        BY <3>2, <3>3, <4>3, <4>4, <4>5
    <3>4. CASE From(k + 1) # p
      <4>1. Arcs(p, k + 1) = Arcs(p, k)
        BY <1>1, <3>4, ArcsFacts
      <4>2. Among(k + 1, w) <=> Among(k, w)
        BY <4>1
      <4>3. Among(k, w) <=> Given(k, w)
        BY <1>3
      <4> HIDE DEF Among, Given
      <4> QED
        BY <3>2, <3>4, <4>2, <4>3
    <3> QED
      BY <3>3, <3>4
  <2> QED
    BY <2>1, <2>2
<1> HIDE DEF S
<1>4. \A k \in 0..E : k \in S
  BY <1>1, <1>2, <1>3, UpTo
<1>5. \A w : Among(E, w) <=> Given(E, w)
  <2>1. E \in 0..E
    BY <1>1
  <2> QED
    BY <1>4, <2>1 DEF S
<1>6. ASSUME NEW e \in 1..E
      PROVE  /\ From(e) = p <=> input.edges[e].from = ids[p]
             /\ To(e) = u <=> input.edges[e].to = ids[u]
  <2>1. /\ \A l \in DOMAIN index : ids[index[l]] = l
        /\ index[ids[p]] = p /\ index[ids[u]] = u
    BY ReadFacts
  <2>2. input.edges[e].from \in DOMAIN index /\ input.edges[e].to \in DOMAIN index
    <3>1. input.edges[e].from \in {input.nodes[j] : j \in DOMAIN input.nodes}
          /\ input.edges[e].to \in {input.nodes[j] : j \in DOMAIN input.nodes}
      BY <1>1 DEF CsrInv, GraphInv, StageIsEarned, Valid
    <3>2. DOMAIN index = {input.nodes[j] : j \in DOMAIN input.nodes}
      <4>1. index = NodeOf(input)
        BY <1>1, IndexIsNodeOf
      <4> QED
        BY <4>1 DEF NodeOf
    <3> QED
      BY <3>1, <3>2
  <2> QED
    BY <2>1, <2>2 DEF From, To
<1>7. \A w : w \in WeightsBetween(ids[p], ids[u]) <=> Given(E, w)
  BY <1>1, <1>6 DEF WeightsBetween
<1>8. \A w : w \in RowWeights(p, u) <=> Among(E, w)
  BY <1>1 DEF RowWeights
<1> QED
  BY <1>5, <1>7, <1>8

-----------------------------------------------------------------------------
(* What it costs to go along a path, one edge at a time. *)
LEMMA CostsAddUp ==
    ASSUME NEW s, NEW m \in Nat, Len(s) = m + 1, NEW g,
           g = [k \in 0..m |-> IF k = 0 THEN 0
                               ELSE g[k - 1] + Min(WeightsBetween(s[k], s[k + 1]))]
    PROVE  CostAlong(s) = g[m]
<1> DEFINE w == CHOOSE w : w = [k \in 0..(Len(s) - 1) |->
                                   IF k = 0 THEN 0
                                   ELSE w[k - 1] + Min(WeightsBetween(s[k], s[k + 1]))]
           Step1(a, k) == a + Min(WeightsBetween(s[k], s[k + 1]))
           S == {k \in 0..m : w[k] = g[k]}
<1>1. Len(s) - 1 = m
  OBVIOUS
<1>2. w = [k \in 0..m |-> IF k = 0 THEN 0 ELSE w[k - 1] + Min(WeightsBetween(s[k], s[k + 1]))]
  BY <1>1
<1>3. CostAlong(s) = w[m]
  BY <1>1 DEF CostAlong
<1> HIDE DEF w
<1>4. \A k \in 0..m : w[k] = IF k = 0 THEN 0 ELSE Step1(w[k - 1], k)
  BY <1>2, Zenon
<1>5. \A k \in 0..m : g[k] = IF k = 0 THEN 0 ELSE Step1(g[k - 1], k)
  BY Zenon
<1> HIDE DEF Step1
<1>6. 0 \in S
  BY <1>4, <1>5
<1>7. ASSUME NEW k \in 0..(m - 1), k \in S PROVE k + 1 \in S
  <2>1. k + 1 \in 0..m /\ k + 1 # 0 /\ (k + 1) - 1 = k
    OBVIOUS
  <2> QED
    BY <1>4, <1>5, <1>7, <2>1
<1> HIDE DEF S
<1>8. \A k \in 0..m : k \in S
  BY <1>6, <1>7, UpTo
<1>9. m \in 0..m
  OBVIOUS
<1> QED
  BY <1>3, <1>8, <1>9 DEF S

(* Beside the costs, which the refinement accounts for: a path is a route. *)
AnswersOK ==
    \A q \in question, a \in answer :
        /\ a.kind \in {"unknown", "none", "overflow", "path"}
        /\ a.kind = "path" => IsRoute(q, a)

(* No node is on a path of predecessors twice. *)
LEMMA PathIsSimple ==
    ASSUME SInv, phase = "retracing", NEW i \in 1..Len(path), NEW j \in 1..Len(path),
           path[i] = path[j]
    PROVE  i = j
<1>1. PICK q \in Question : PathOK(q)
  BY AtWork
<1>2. /\ path \in Seq(1..N) /\ Len(path) \in Nat /\ N \in Nat
      /\ Found = {u \in 1..N : dist[u] >= 0}
      /\ \A k \in 1..Len(path) : path[k] \in 1..N
  <2>1. path \in Seq(1..N) /\ N \in Nat /\ Found = {u \in 1..N : dist[u] >= 0}
    BY WorkTypes
  <2> QED
    BY <2>1, LenProperties, ElementOfSeq
<1>3. \A k \in 1..Len(path) : path[k] \in Found
  <2>1. \A k \in 1..Len(path) : dist[path[k]] \in 0..MaxCost
    BY <1>1 DEF PathOK
  <2>2. \A c \in 0..MaxCost : c >= 0
    BY PlusFacts
  <2> QED
    BY <1>2, <2>1, <2>2
<1>4. ASSUME NEW m \in 1..Len(path), NEW n \in 1..Len(path), m < n PROVE path[m] # path[n]
  <2> SUFFICES ASSUME path[m] = path[n] PROVE FALSE
    OBVIOUS
  <2> DEFINE S == {path[k] : k \in (m + 1)..n}
  <2>1. n \in (m + 1)..n /\ \A k \in (m + 1)..n : k \in 1..Len(path)
    BY <1>2, <1>4
  <2>2. S \in SUBSET Found /\ S # {}
    BY <1>3, <2>1
  <2>3. ASSUME NEW k \in (m + 1)..n PROVE prev[path[k]] \in S
    <3>1. k - 1 \in 1..(Len(path) - 1) /\ (k - 1) + 1 = k /\ (k - 1 \in (m + 1)..n \/ k - 1 = m)
      <4>1. PICK l \in Nat : l = Len(path)
        BY <1>2
      <4>2. m \in 1..l /\ n \in 1..l /\ m < n /\ k \in (m + 1)..n
        BY <1>4, <4>1
      <4>3. k - 1 \in 1..(l - 1) /\ (k - 1) + 1 = k /\ (k - 1 \in (m + 1)..n \/ k - 1 = m)
        BY <4>2
      <4> QED
        BY <4>1, <4>3
    <3>2. prev[path[k]] = path[k - 1]
      BY <1>1, <3>1 DEF PathOK
    <3>3. path[k - 1] \in S
      <4>1. CASE k - 1 \in (m + 1)..n
        BY <4>1
      <4>2. CASE k - 1 = m
        BY <2>1, <4>2
      <4> QED
        BY <3>1, <4>1, <4>2
    <3> QED
      BY <3>2, <3>3
  <2>4. \A u \in S : prev[u] \in S
    BY <2>3
  <2> HIDE DEF S
  <2> QED
    BY <1>1, <2>2, <2>4 DEF PathOK, TreeOK, NoCycle
<1>5. i < j \/ j < i \/ i = j
  BY <1>2
<1> QED
  BY <1>4, <1>5

(* Along a path of predecessors, each edge is the lightest between its     *)
(* ends, and the distances grow by its weight.                             *)
LEMMA EdgesOfPath ==
    ASSUME SInv, phase = "retracing", NEW i \in 1..(Len(path) - 1)
    PROVE  /\ WeightsBetween(ids[path[i]], ids[path[i + 1]]) # {}
           /\ dist[path[i + 1]] = dist[path[i]] + Min(WeightsBetween(ids[path[i]], ids[path[i + 1]]))
<1>1. PICK q \in Question : PathOK(q) /\ CsrInv /\ stage = "built"
  BY AtWork DEF SInv
<1>2. PICK p \in 1..N, u \in 1..N :
         /\ p = path[i] /\ u = path[i + 1] /\ prev[u] = p
         /\ dist[p] \in 0..MaxCost /\ dist[u] \in 0..MaxCost
  <2>1. path \in Seq(1..N) /\ Len(path) \in Nat
    BY WorkTypes, LenProperties
  <2>2. i \in 1..Len(path) /\ i + 1 \in 1..Len(path)
    BY <2>1
  <2>3. path[i] \in 1..N /\ path[i + 1] \in 1..N
    BY <2>1, <2>2, ElementOfSeq
  <2> QED
    BY <1>1, <2>2, <2>3 DEF PathOK
<1>3. u \in Found /\ prev[u] # 0 /\ N \in Nat
  <2>1. N \in Nat /\ Found = {v \in 1..N : dist[v] >= 0}
    BY WorkTypes
  <2> QED
    BY <1>2, <2>1
<1> DEFINE W == RowWeights(p, u)
<1>4. W = WeightsBetween(ids[p], ids[u])
  BY <1>1, <1>2, RowEdges
<1>5. PICK k \in 1..Len(Out[p]) : Out[p][k].to = u /\ dist[u] = Reaches(p, k)
  <2>1. Parent(q, u)
    BY <1>1, <1>3 DEF PathOK, TreeOK
  <2>2. \E k \in 1..Len(Out[prev[u]]) : Out[prev[u]][k].to = u /\ dist[u] = Reaches(prev[u], k)
    BY <1>3, <2>1 DEF Parent
  <2> QED
    BY <1>2, <2>2
<1>6. \A j \in 1..Len(Out[p]) : Out[p][j].to = u => dist[u] <= Reaches(p, j)
  <2>1. u \in Accepted(q)
    BY <1>1, <1>3 DEF PathOK, TreeOK
  <2>2. Nearer(q, p, Len(Out[p]))
    BY <1>1, <1>2, <1>3 DEF PathOK
  <2> QED
    BY <2>1, <2>2 DEF Nearer
<1>7. \A j \in 1..Len(Out[p]) : Out[p][j].weight \in 0..MaxCost
  BY <1>1, ReadFacts
<1> DEFINE w == Out[p][k].weight
<1>8. w \in W /\ w \in 0..MaxCost
  BY <1>5, <1>7 DEF RowWeights
<1>9. dist[u] = dist[p] + w
  BY <1>2, <1>5, <1>8, PlusFacts DEF Reaches, Plus, Infinite
<1>10. \A x \in W : w <= x /\ x \in Int
  <2>1. ASSUME NEW j \in 1..Len(Out[p]), Out[p][j].to = u PROVE w <= Out[p][j].weight
    <3>1. Out[p][j].weight \in 0..MaxCost /\ dist[u] <= Plus(dist[p], Out[p][j].weight)
      BY <1>6, <1>7, <2>1 DEF Reaches
    <3> DEFINE x == Out[p][j].weight
               d == dist[p]
               f == dist[u]
    <3>2. /\ x \in 0..MaxCost /\ d \in 0..MaxCost /\ f \in 0..MaxCost /\ w \in 0..MaxCost
          /\ f <= Plus(d, x) /\ f = d + w /\ MaxCost \in Nat
      BY <1>2, <1>8, <1>9, <3>1, PlusFacts
    <3> HIDE DEF x, d, f, w
    <3>3. w <= x
      BY <3>2 DEF Plus, Infinite
    <3> QED
      BY <3>3 DEF x
  <2> QED
    BY <1>7, <2>1 DEF RowWeights
<1> HIDE DEF w, W
<1>11. Min(W) = w
  <2>1. w \in Int
    BY <1>8
  <2>2. \A y \in W : (\A x \in W : y <= x) => y = w
    BY <1>8, <1>10, <2>1
  <2> QED
    BY <1>8, <1>10, <2>2 DEF Min
<1> QED
  BY <1>2, <1>4, <1>8, <1>9, <1>11

(* So what has been retraced is a route when nothing precedes it. *)
LEMMA RouteFound ==
    ASSUME SInv, Retraced
    PROVE  \E q, a : /\ question' = {q} /\ answer' = {a}
                     /\ a.kind = "path" /\ IsRoute(q, a)
<1>1. PICK q, a :
         /\ phase = "retracing" /\ prev[Head(path)] = 0 /\ q \in question
         /\ a = [kind |-> "path", cost |-> dist[Goal(q)],
                 labels |-> [i \in DOMAIN path |-> ids[path[i]]]]
         /\ answer' = {a} /\ question' = question
  BY DEF Retraced, Answer, Goal
<1>2. /\ q \in Question /\ question = {q} /\ PathOK(q) /\ CsrInv /\ stage = "built"
      /\ ids[Origin(q)] = q.from /\ ids[Goal(q)] = q.to
      /\ \A u \in Accepted(q) : ids[u] \in q.accepted
  BY <1>1, AtWork DEF SInv
<1>3. /\ path \in Seq(1..N) /\ path # <<>> /\ N \in Nat
      /\ Found = {u \in 1..N : dist[u] >= 0}
  BY <1>1, <1>2, WorkTypes DEF PathOK
<1>4. PICK l \in Nat : l = Len(path) /\ l # 0 /\ DOMAIN path = 1..l
  BY <1>3, LenProperties, EmptySeq
<1>5. \A i \in 1..l : path[i] \in 1..N /\ path[i] \in Found /\ dist[path[i]] \in 0..MaxCost
  <2>1. \A i \in 1..l : path[i] \in 1..N
    BY <1>3, <1>4, ElementOfSeq
  <2>2. \A i \in 1..l : dist[path[i]] \in 0..MaxCost
    BY <1>2, <1>4 DEF PathOK
  <2> QED
    BY <1>3, <2>1, <2>2, PlusFacts
<1>6. path[1] = Origin(q) /\ dist[path[1]] = 0 /\ path[l] = Goal(q) /\ 1 \in 1..l /\ l \in 1..l
  <2>1. Head(path) = path[1] /\ 1 \in 1..l /\ l \in 1..l
    BY <1>3, <1>4
  <2>2. path[1] \in Found /\ prev[path[1]] = 0
    BY <1>1, <1>5, <2>1
  <2>3. Parent(q, path[1])
    BY <1>2, <2>2 DEF PathOK, TreeOK
  <2> QED
    BY <1>2, <1>4, <2>1, <2>2, <2>3 DEF Parent, PathOK
<1>7. PICK s : /\ s = a.labels /\ s = [i \in 1..l |-> ids[path[i]]]
               /\ Len(s) = l /\ DOMAIN s = 1..l /\ \A i \in 1..l : s[i] = ids[path[i]]
  <2>1. PICK s : s = a.labels /\ s = [i \in 1..l |-> ids[path[i]]]
    BY <1>1, <1>4
  <2>2. Len(s) = l
    BY <1>4, <2>1
  <2> QED
    BY <2>1, <2>2
<1>8. s[1] = q.from /\ s[l] = q.to
  BY <1>2, <1>6, <1>7
<1>9. \A i \in 1..l : s[i] \in q.accepted
  BY <1>2, <1>5, <1>7 DEF PathOK, TreeOK
<1>10. \A i, j \in 1..l : s[i] = s[j] => i = j
  <2>1. ASSUME NEW i \in 1..l, NEW j \in 1..l, s[i] = s[j] PROVE i = j
    <3>1. path[i] = path[j]
      BY <1>2, <1>5, <1>7, <2>1, ReadFacts
    <3> QED
      BY <1>1, <1>4, <3>1, PathIsSimple
  <2> QED
    BY <2>1
<1>11. \A i \in 1..(l - 1) :
          /\ WeightsBetween(s[i], s[i + 1]) # {}
          /\ dist[path[i + 1]] = dist[path[i]] + Min(WeightsBetween(s[i], s[i + 1]))
  <2>1. TAKE i \in 1..(l - 1)
  <2>2. s[i] = ids[path[i]] /\ s[i + 1] = ids[path[i + 1]]
    BY <1>4, <1>7
  <2> QED
    BY <1>1, <1>4, <2>2, EdgesOfPath
<1>12. CostAlong(s) = dist[path[l]]
  <2> DEFINE m == l - 1
             g == [k \in 0..m |-> dist[path[k + 1]]]
  <2>1. m \in Nat /\ Len(s) = m + 1 /\ m + 1 = l
    BY <1>4, <1>7
  <2>2. ASSUME NEW k \in 0..m
        PROVE  g[k] = IF k = 0 THEN 0 ELSE g[k - 1] + Min(WeightsBetween(s[k], s[k + 1]))
    <3>1. CASE k = 0
      BY <1>6, <2>1, <3>1
    <3>2. CASE k # 0
      <4>1. k \in 1..(l - 1) /\ k - 1 \in 0..m /\ (k - 1) + 1 = k
        BY <2>1, <3>2
      <4>2. g[k] = dist[path[k + 1]] /\ g[k - 1] = dist[path[k]]
        BY <4>1
      <4> QED
        BY <1>11, <3>2, <4>1, <4>2
    <3> QED
      BY <3>1, <3>2
  <2>3. DOMAIN g = 0..m /\ g = [k \in 0..m |-> g[k]] /\ g[m] = dist[path[l]]
    BY <2>1
  <2> HIDE DEF m, g
  <2>4. g = [k \in 0..m |-> IF k = 0 THEN 0
                            ELSE g[k - 1] + Min(WeightsBetween(s[k], s[k + 1]))]
    BY <2>2, <2>3, Zenon
  <2> QED
    BY <2>1, <2>3, <2>4, CostsAddUp
<1>13. IsRoute(q, a)
  <2>1. a.cost = dist[path[l]] /\ a.labels = s
    BY <1>1, <1>6, <1>7
  <2>2. a.labels[1] = q.from /\ a.labels[Len(a.labels)] = q.to
    BY <1>7, <1>8, <2>1
  <2>3. \A i \in DOMAIN a.labels : a.labels[i] \in q.accepted
    BY <1>7, <1>9, <2>1
  <2>4. \A i, j \in DOMAIN a.labels : a.labels[i] = a.labels[j] => i = j
    BY <1>7, <1>10, <2>1
  <2>5. \A i \in 1..(Len(a.labels) - 1) : WeightsBetween(a.labels[i], a.labels[i + 1]) # {}
    BY <1>7, <1>11, <2>1
  <2>6. a.cost = CostAlong(a.labels)
    BY <1>12, <2>1
  <2> QED
    BY <2>2, <2>3, <2>4, <2>5, <2>6 DEF IsRoute
<1>14. a.kind = "path"
  BY <1>1
<1> QED
  BY <1>1, <1>2, <1>13, <1>14

(* The path of a query from a node to itself. *)
LEMMA RouteToItself ==
    ASSUME NEW q, q.from = q.to, q.from \in q.accepted
    PROVE  IsRoute(q, [kind |-> "path", cost |-> 0, labels |-> <<q.from>>])
<1>1. PICK s : s = <<q.from>> /\ Len(s) = 1 /\ DOMAIN s = 1..1 /\ s[1] = q.from
  <2>1. /\ Len(<<q.from>>) = 1 /\ DOMAIN <<q.from>> = 1..1
        /\ <<q.from>>[1] = q.from
    OBVIOUS
  <2> QED
    BY <2>1, Zenon
<1>2. CostAlong(s) = 0
  <2>1. PICK m \in Nat : m = 0
    OBVIOUS
  <2>2. Len(s) = m + 1
    BY <1>1, <2>1
  <2> DEFINE g == [k \in 0..m |-> 0]
  <2>3. g[m] = 0 /\ \A k \in 0..m : k = 0
    BY <2>1
  <2>4. g = [k \in 0..m |-> IF k = 0 THEN 0
                            ELSE g[k - 1] + Min(WeightsBetween(s[k], s[k + 1]))]
    BY <2>3
  <2> HIDE DEF g
  <2>5. CostAlong(s) = g[m]
    BY <2>2, <2>4, CostsAddUp
  <2> QED
    BY <2>3, <2>5
<1>3. \A i \in 1..1 : i = 1
  OBVIOUS
<1>4. 1..(1 - 1) = {}
  OBVIOUS
<1> QED
  BY <1>1, <1>2, <1>3, <1>4 DEF IsRoute

LEMMA AnswersStep == SInv /\ AnswersOK /\ [Next]_vars => AnswersOK'
<1> SUFFICES ASSUME SInv, AnswersOK, [Next]_vars PROVE AnswersOK'
  OBVIOUS
<1>1. input' = input
  BY DEF Next, Construct, RefuseSize, AddNode, RefuseDuplicate, RefuseEdge, Fail, CountEdges,
         SumOffsets, PlaceEdge, ShiftOffsets, AskImmediate, AskSearch, Step, PopStale, PopTarget,
         PopNode, Popped, Exhausted, SkipEdge, Relax, Following, Expanded, Retrace, Retraced,
         vars, csrVars
<1>2. ASSUME NEW q, NEW a, IsRoute(q, a) PROVE IsRoute(q, a)'
  <2>1. \A l, m : WeightsBetween(l, m)' = WeightsBetween(l, m)
    BY <1>1 DEF WeightsBetween
  <2>2. ASSUME NEW s PROVE CostAlong(s)' = CostAlong(s)
    BY <2>1 DEF CostAlong
  <2> QED
    BY <1>2, <2>1, <2>2 DEF IsRoute
<1>3. CASE answer' = {}
  BY <1>3 DEF AnswersOK
<1>4. CASE UNCHANGED <<question, answer>>
  BY <1>2, <1>4 DEF AnswersOK
<1>5. CASE AskImmediate
  <2>1. PICK q \in Question :
          /\ ~Known(q) \/ ~Admitted(q) \/ q.from = q.to
          /\ question' = {q} /\ answer' = {Immediate(q)}
    BY <1>5 DEF AskImmediate, Ask, Answer
  <2>2. CASE Known(q) /\ Admitted(q)
    <3>1. IsRoute(q, Immediate(q))
      BY <2>1, <2>2, RouteToItself DEF Immediate, Admitted
    <3>2. Immediate(q).kind = "path"
      BY <2>2 DEF Immediate
    <3>3. PICK a : a = Immediate(q) /\ IsRoute(q, a)'
      BY <1>2, <3>1
    <3> QED
      BY <2>1, <3>2, <3>3 DEF AnswersOK
  <2>3. CASE ~Known(q) \/ ~Admitted(q)
    <3>1. \A a \in answer' : a.kind \in {"unknown", "none"}
      BY <2>1, <2>3 DEF Immediate
    <3> QED
      BY <3>1 DEF AnswersOK
  <2> QED
    BY <2>2, <2>3
<1>6. CASE PopTarget
  <2>1. answer' = {[kind |-> "overflow"]} \/ answer' = answer
    BY <1>6, TargetKeeps
  <2>2. answer = {}
    BY <1>6, AtWork DEF PopTarget, Popped
  <2> QED
    BY <2>1, <2>2 DEF AnswersOK
<1>7. CASE Exhausted
  BY <1>7, ExhaustedKeeps DEF AnswersOK
<1>8. CASE Retraced
  BY <1>2, <1>8, RouteFound DEF AnswersOK
<1> QED
  BY <1>3, <1>4, <1>5, <1>6, <1>7, <1>8
     DEF Next, searchVars, AskSearch, Step, PopStale, PopNode, Popped, SkipEdge, Relax, Following,
         Expanded, Retrace, vars

-----------------------------------------------------------------------------
(* What is proved of the search for the cost. *)
Proved == INSTANCE DijkstraProofs
          WITH Query <- Queries, query <- Asked, dist <- Seen, answer <- Told

(* Its search is the one that is implemented. *)
LEMMA SameSearch == OneShot!Spec => Proved!Spec
<1>1. OneShot!Init => Proved!Init
  BY DEF OneShot!Init, Proved!Init
<1>2. OneShot!Next => Proved!Next
  BY DEF OneShot!Next, Proved!Next, OneShot!Asking, Proved!Asking,
         OneShot!Step, Proved!Step, OneShot!AskImmediate,
         Proved!AskImmediate, OneShot!AskPanics, Proved!AskPanics,
         OneShot!AskSearch, Proved!AskSearch, OneShot!PopStale,
         Proved!PopStale, OneShot!PopTarget, Proved!PopTarget,
         OneShot!PopNode, Proved!PopNode, OneShot!Exhausted,
         Proved!Exhausted, OneShot!SkipEdge, Proved!SkipEdge,
         OneShot!Relax, Proved!Relax, OneShot!FilterPanics,
         Proved!FilterPanics, OneShot!Expanded, Proved!Expanded,
         OneShot!Ask, Proved!Ask, OneShot!Searchable,
         Proved!Searchable, OneShot!Immediate, Proved!Immediate,
         OneShot!Known, Proved!Known, OneShot!Admitted,
         Proved!Admitted, OneShot!Source, Proved!Source,
         OneShot!Target, Proved!Target, OneShot!Unknown,
         Proved!Unknown, OneShot!None, Proved!None, OneShot!Panic,
         Proved!Panic, OneShot!CostAnswer, Proved!CostAnswer,
         OneShot!Plus, Proved!Plus, OneShot!Infinite, Proved!Infinite,
         OneShot!Searching, Proved!Searching, OneShot!IsTop,
         Proved!IsTop, OneShot!Popped, Proved!Popped,
         OneShot!Following, Proved!Following, OneShot!Edge,
         Proved!Edge, OneShot!Reached, Proved!Reached,
         OneShot!Improves, Proved!Improves
<1>3. UNCHANGED OneShot!vars => UNCHANGED Proved!vars
  BY DEF OneShot!vars, Proved!vars
<1>4. [OneShot!Next]_(OneShot!vars) => [Proved!Next]_(Proved!vars)
  BY <1>2, <1>3
<1> QED
  BY <1>1, <1>4, PTL DEF OneShot!Spec, Proved!Spec

(* And so is the reference. *)
LEMMA SameExpected ==
    ASSUME NEW q
    PROVE  Proved!Expected(q) = OneShot!Expected(q)
<1>1. Proved!Routes(q) = OneShot!Routes(q) /\ Proved!Target(q) = OneShot!Target(q)
  BY DEF OneShot!Routes, Proved!Routes, OneShot!Ends, Proved!Ends, OneShot!Follows,
         Proved!Follows, OneShot!Cost, Proved!Cost, OneShot!Nodes, Proved!Nodes,
         OneShot!Source, Proved!Source, OneShot!Target, Proved!Target,
         OneShot!Plus, Proved!Plus, OneShot!Infinite, Proved!Infinite
<1>2. /\ Proved!Searchable(q) <=> OneShot!Searchable(q)
      /\ Proved!Immediate(q) = OneShot!Immediate(q)
  BY DEF OneShot!Searchable, Proved!Searchable, OneShot!Immediate, Proved!Immediate,
         OneShot!Known, Proved!Known, OneShot!Admitted, Proved!Admitted,
         OneShot!Source, Proved!Source, OneShot!Target, Proved!Target,
         OneShot!Unknown, Proved!Unknown, OneShot!None, Proved!None,
         OneShot!CostAnswer, Proved!CostAnswer, OneShot!Infinite, Proved!Infinite
<1>3. Proved!CostsOf(q) = OneShot!CostsOf(q)
  BY <1>1 DEF OneShot!CostsOf, Proved!CostsOf
<1>4. \A S : Proved!Min(S) = OneShot!Min(S)
  BY DEF OneShot!Min, Proved!Min
<1>5. \A c : Proved!CostAnswer(c) = OneShot!CostAnswer(c)
  BY DEF OneShot!CostAnswer, Proved!CostAnswer, OneShot!Infinite, Proved!Infinite
<1>6. Proved!None = OneShot!None
  BY DEF OneShot!None, Proved!None
<1> QED
  BY <1>2, <1>3, <1>4, <1>5, <1>6 DEF OneShot!Expected, Proved!Expected

LEMMA AnswersRight ==
    SInv /\ AnswersOK /\ Proved!AnswerIsShortest => PathIsCheapest
<1> SUFFICES ASSUME SInv, AnswersOK, Proved!AnswerIsShortest,
                    NEW q \in question, NEW a \in answer
             PROVE  /\ CostOnly(a) = OneShot!Expected(AskedOf(input, q))
                    /\ a.kind = "path" => IsRoute(q, a)
  BY DEF PathIsCheapest
<1>1. phase # "retracing"
  BY DEF SInv, ArraysOK
<1>2. AskedOf(input, q) \in Asked /\ CostOnly(a) \in Told
  BY <1>1 DEF Asked, Told
<1>3. a.kind \in {"unknown", "none", "overflow", "path"}
  BY DEF AnswersOK
<1>4. CostOnly(a) # Proved!Panic
  BY <1>3 DEF CostOnly, Proved!Panic
<1>5. CostOnly(a) = Proved!Expected(AskedOf(input, q))
  BY <1>2, <1>4 DEF Proved!AnswerIsShortest
<1> QED
  BY <1>5, SameExpected DEF AnswersOK

(* A path that is returned leads from the source to the target along edges *)
(* of the graph, costs what it says and no route costs less; an answer     *)
(* without a path is right (graph.rs, shortest_path).                      *)
THEOREM PathsAreCheapest == Spec => []PathIsCheapest
<1>1. Spec => OneShot!Spec
  BY PathImplementsDijkstra DEF ImplementsOneShot
<1>2. Proved!Spec => []Proved!AnswerIsShortest
  BY Proved!DijkstraIsCorrect, QueriesAreTyped DEF Proved!Nodes
<1>3. Init => AnswersOK
  BY DEF Init, AnswersOK
<1>4. Spec => [](SInv /\ AnswersOK)
  BY <1>3, SInvInit, SInvStep, AnswersStep, PTL DEF Spec
<1> QED
  BY <1>1, <1>2, <1>4, SameSearch, AnswersRight, PTL

=============================================================================
