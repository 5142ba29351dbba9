---------------------------- MODULE NumberLemmas ----------------------------
(***************************************************************************)
(* Sets of numbers have a least and, when bounded, a greatest element: the *)
(* induction of the proofs about logs and attempts.  The library proves    *)
(* that the strict subset ordering is well-founded; for intervals it is    *)
(* the order of numbers.                                                   *)
(***************************************************************************)
EXTENDS Integers, FiniteSetTheorems, WellFoundedInduction, TLAPS

LEMMA LeastNumber ==
  ASSUME NEW T, T \subseteq Nat, T # {}
  PROVE  \E n \in T : \A m \in T : n <= m
<1> DEFINE F == {0..n : n \in T}
<1>1. F \subseteq FiniteSubsetsOf(Nat) /\ F # {}
  <2>1. \A n \in Nat : 0..n \subseteq Nat /\ IsFiniteSet(0..n)
    BY FS_Interval
  <2>2. QED
    BY <2>1 DEF FiniteSubsetsOf
<1>2. PICK X \in F : \A Y \in F : <<Y, X>> \notin StrictSubsetOrdering(Nat)
  <2> HIDE DEF F
  <2>1. IsWellFoundedOn(StrictSubsetOrdering(Nat), FiniteSubsetsOf(Nat))
    BY FS_StrictSubsetOrderingWellFounded
  <2>2. QED
    BY <1>1, <2>1, WFMin
<1>3. PICK n \in T : X = 0..n
  BY <1>2
<1>4. ASSUME NEW m \in T, m < n PROVE FALSE
  <2>1. m \in Nat /\ n \in Nat
    OBVIOUS
  <2>2. 0..m \subseteq 0..n /\ 0..m # 0..n /\ 0..m \subseteq Nat /\ 0..n \subseteq Nat
    <3>1. n \in 0..n /\ n \notin 0..m
      BY <1>4, <2>1
    <3>2. \A k \in 0..m : k \in 0..n /\ k \in Nat
      BY <1>4, <2>1
    <3>3. QED
      BY <2>1, <3>1, <3>2
  <2>3. <<0..m, 0..n>> \in StrictSubsetOrdering(Nat)
    BY <2>2 DEF StrictSubsetOrdering
  <2>4. QED
    BY <1>2, <1>3, <2>3
<1>5. QED
  BY <1>4

LEMMA GreatestNumber ==
  ASSUME NEW T, NEW b \in Nat, T \subseteq 0..b, T # {}
  PROVE  \E n \in T : \A m \in T : m <= n
<1>1. \A m \in T : m \in Int /\ m <= b /\ b - m \in Nat
  OBVIOUS
<1>2. {b - m : m \in T} \subseteq Nat /\ {b - m : m \in T} # {}
  BY <1>1
<1>3. PICK d \in {b - m : m \in T} : \A e \in {b - m : m \in T} : d <= e
  BY <1>2, LeastNumber
<1>4. PICK n \in T : d = b - n
  BY <1>3
<1>5. ASSUME NEW m \in T PROVE m <= n
  <2>1. b - n <= b - m
    BY <1>3, <1>4
  <2>2. QED
    BY <1>1, <2>1
<1>6. QED
  BY <1>5

\* A set of numbers that has 0, and n when it has n - 1, has all numbers up to a bound.
LEMMA UpTo ==
  ASSUME NEW T, NEW b \in Nat, 0 \in T, \A n \in 1..b : n - 1 \in T => n \in T
  PROVE  0..b \subseteq T
<1> DEFINE rest == (0..b) \ T
<1> SUFFICES ASSUME rest # {} PROVE FALSE
  OBVIOUS
<1>1. PICK n \in rest : \A m \in rest : n <= m
  <2>1. rest \subseteq Nat
    OBVIOUS
  <2> HIDE DEF rest
  <2>2. QED
    BY <2>1, LeastNumber
<1>2. n \in 1..b /\ n - 1 \in 0..b /\ ~(n <= n - 1)
  OBVIOUS
<1>3. QED
  BY <1>1, <1>2
=============================================================================
