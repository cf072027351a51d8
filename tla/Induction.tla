------------------------------ MODULE Induction ------------------------------
(***************************************************************************)
(* Induction on the natural numbers, as facts about sets of numbers: the   *)
(* proofs about recursive functions and sums cite them.                    *)
(*                                                                         *)
(* The least element comes from the strict subset order on finite sets,    *)
(* which is well-founded: among the sets 1 .. n one is minimal.            *)
(***************************************************************************)
EXTENDS Integers, FiniteSetTheorems, WellFoundedInduction, TLAPS

\* A non-empty set of natural numbers has a least element.
LEMMA SmallestOf ==
    ASSUME NEW T \in SUBSET Nat, T # {}
    PROVE  \E n \in T : \A m \in T : n <= m
<1> DEFINE Initials == {1 .. n : n \in T}
<1>1. Initials \subseteq FiniteSubsetsOf(Nat)
  <2>1. \A n \in T : IsFiniteSet(1 .. n)
    BY FS_Interval
  <2> QED BY <2>1 DEF FiniteSubsetsOf
<1>2. Initials # {}
  OBVIOUS
<1> HIDE DEF Initials
<1>3. PICK x \in Initials :
          \A y \in Initials : ~(<<y, x>> \in StrictSubsetOrdering(Nat))
  BY <1>1, <1>2, WFMin, FS_StrictSubsetOrderingWellFounded
<1>4. PICK n \in T : x = 1 .. n
  BY DEF Initials
<1>5. ASSUME NEW m \in T PROVE n <= m
  <2> SUFFICES ASSUME m < n PROVE FALSE
    OBVIOUS
  <2>1. 1 .. m \in Initials
    BY DEF Initials
  <2>2. n \in 1 .. n /\ n \notin 1 .. m
    OBVIOUS
  <2>3. 1 .. m \subseteq 1 .. n /\ 1 .. n \subseteq Nat
    OBVIOUS
  <2>4. <<1 .. m, 1 .. n>> \in StrictSubsetOrdering(Nat)
    BY <2>2, <2>3 DEF StrictSubsetOrdering
  <2> QED BY <1>3, <1>4, <2>1, <2>4
<1> QED BY <1>5

\* A set that contains every number below which it contains all numbers contains Nat.
LEMMA StrongInduction ==
    ASSUME NEW G, \A n \in Nat : (\A m \in Nat : m < n => m \in G) => n \in G
    PROVE  \A n \in Nat : n \in G
<1> SUFFICES ASSUME {n \in Nat : n \notin G} # {} PROVE FALSE
  OBVIOUS
<1>1. PICK n \in {n \in Nat : n \notin G} : \A m \in {i \in Nat : i \notin G} : n <= m
  BY SmallestOf
<1> QED BY <1>1

\* A non-empty set of positions has a greatest element.
LEMMA GreatestOf ==
    ASSUME NEW n \in Nat, NEW T \in SUBSET (1 .. n), T # {}
    PROVE  \E j \in T : \A l \in T : l <= j
<1> DEFINE Above == {d \in Nat : \E j \in T : d = n - j}
<1>1. PICK d \in Above : \A e \in Above : d <= e
  <2>1. PICK j \in T : TRUE
    OBVIOUS
  <2>2. n - j \in Above
    OBVIOUS
  <2> HIDE DEF Above
  <2>3. Above \in SUBSET Nat
    BY DEF Above
  <2> QED BY <2>2, <2>3, SmallestOf
<1>2. PICK j \in T : d = n - j
  OBVIOUS
<1>3. ASSUME NEW l \in T PROVE l <= j
  <2>1. n - l \in Above
    OBVIOUS
  <2> QED BY <1>1, <1>2, <2>1
<1> QED BY <1>3
=============================================================================
