----------------------------- MODULE Induction -----------------------------
(***************************************************************************)
(* Induction over the natural numbers, as facts about sets of numbers (a   *)
(* lemma with an operator for a parameter cannot be instantiated), and     *)
(* what is defined by it: the recursive functions of the models exist.     *)
(***************************************************************************)
EXTENDS Integers, FiniteSets, FiniteSetTheorems, WellFoundedInduction, TLAPS

LEMMA LeastNatural ==
    ASSUME NEW T \in SUBSET Nat, T # {}
    PROVE  \E m \in T : \A n \in T : m <= n
<1> DEFINE B == {0..n : n \in T}
<1>1. PICK x \in T : TRUE
  OBVIOUS
<1>2. IsWellFoundedOn(StrictSubsetOrdering(Nat), FiniteSubsetsOf(Nat))
  BY FS_StrictSubsetOrderingWellFounded
<1>3. B \subseteq FiniteSubsetsOf(Nat) /\ B # {}
  <2>1. ASSUME NEW n \in T PROVE 0..n \in SUBSET Nat /\ IsFiniteSet(0..n)
    BY FS_Interval
  <2> QED
    BY <1>1, <2>1 DEF FiniteSubsetsOf
<1> HIDE DEF B
<1>4. PICK least \in B : \A y \in B : ~(<<y, least>> \in StrictSubsetOrdering(Nat))
  BY <1>2, <1>3, WFMin
<1>5. PICK m \in T : least = 0..m
  BY DEF B
<1>6. ASSUME NEW n \in T PROVE m <= n
  <2>1. 0..n \in B /\ 0..n \in SUBSET Nat /\ 0..m \in SUBSET Nat
    BY DEF B
  <2>2. <<0..n, 0..m>> \notin StrictSubsetOrdering(Nat)
    BY <1>4, <1>5, <2>1
  <2>3. ~(0..n \subseteq 0..m /\ 0..n # 0..m)
    BY <2>1, <2>2 DEF StrictSubsetOrdering
  <2>4. n < m => m \in 0..m /\ m \notin 0..n /\ 0..n \subseteq 0..m
    OBVIOUS
  <2> QED
    BY <2>3, <2>4
<1> QED
  BY <1>6

(* Induction: a set of numbers that holds zero and with each its successor. *)
LEMMA NatSet ==
    ASSUME NEW S \in SUBSET Nat, 0 \in S, \A n \in S : n + 1 \in S
    PROVE  S = Nat
<1> SUFFICES ASSUME Nat \ S # {} PROVE FALSE
  OBVIOUS
<1>1. PICK m \in Nat \ S : \A n \in Nat \ S : m <= n
  BY LeastNatural
<1>2. m # 0 /\ m - 1 \in Nat /\ ~(m <= m - 1)
  OBVIOUS
<1>3. m - 1 \in S
  BY <1>1, <1>2
<1> QED
  BY <1>3

(* The same up to a bound. *)
LEMMA UpTo ==
    ASSUME NEW N \in Nat, NEW S, 0 \in S, \A n \in 0..(N - 1) : n \in S => n + 1 \in S
    PROVE  \A n \in 0..N : n \in S
<1> DEFINE U == {n \in Nat : n <= N => n \in S}
<1>1. 0 \in U /\ \A n \in U : n + 1 \in U
  OBVIOUS
<1> HIDE DEF U
<1>2. U = Nat
  BY <1>1, NatSet DEF U
<1> QED
  BY <1>2 DEF U

(* A recursive function exists: what F does to b, again and again. *)
IsIteration(N, T, b, F, g) ==
    g \in [0..N -> T] /\ g[0] = b /\ \A k \in 1..N : g[k] = F[g[k - 1]]

LEMMA Iterates ==
    ASSUME NEW T, NEW b \in T, NEW F \in [T -> T], NEW N \in Nat
    PROVE  \E g : IsIteration(N, T, b, F, g)
<1> DEFINE Good(n, g) == g[0] = b /\ \A k \in 1..n : g[k] = F[g[k - 1]]
           S == {n \in Nat : \E g \in [0..n -> T] : Good(n, g)}
<1>1. 0 \in S
  <2> DEFINE g == [k \in 0..0 |-> b]
  <2>1. g \in [0..0 -> T] /\ Good(0, g)
    OBVIOUS
  <2> QED
    BY <2>1
<1>2. ASSUME NEW n \in S PROVE n + 1 \in S
  <2>1. PICK g \in [0..n -> T] : Good(n, g)
    OBVIOUS
  <2> DEFINE h == [k \in 0..(n + 1) |-> IF k = n + 1 THEN F[g[n]] ELSE g[k]]
  <2>2. h \in [0..(n + 1) -> T]
    OBVIOUS
  <2>3. Good(n + 1, h)
    BY <2>1
  <2> HIDE DEF h, Good
  <2>4. n + 1 \in Nat
    OBVIOUS
  <2> QED
    BY <2>2, <2>3, <2>4
<1> HIDE DEF S
<1>3. S = Nat
  BY <1>1, <1>2, NatSet DEF S
<1> QED
  BY <1>3 DEF S, IsIteration

=============================================================================
