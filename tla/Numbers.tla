------------------------------- MODULE Numbers -------------------------------
(***************************************************************************)
(* Facts about numbers that the proofs of several components need: the     *)
(* least and the greatest of a set, induction, division with remainder.    *)
(*                                                                         *)
(* The least-number principle comes from the library's theorem that strict *)
(* inclusion is well founded on finite sets, for the intervals 0 .. n.     *)
(* Induction in its usual form, with a set in place of the predicate,      *)
(* follows from it.                                                        *)
(***************************************************************************)
EXTENDS Integers, FiniteSetTheorems, TLAPS

\* A set of numbers that is not empty has a least one.
LEMMA Least ==
    ASSUME NEW S \in SUBSET Nat, S # {}
    PROVE  \E x \in S : \A y \in S : x <= y
<1> DEFINE Intervals == {0 .. n : n \in S}
           Smaller == StrictSubsetOrdering(Nat)
<1>1. \A n \in S : IsFiniteSet(0 .. n) /\ 0 .. n \in SUBSET Nat
  BY FS_Interval
<1>2. Intervals \subseteq FiniteSubsetsOf(Nat)
  BY <1>1 DEF FiniteSubsetsOf
<1>3. Intervals # {}
  OBVIOUS
<1>4. IsWellFoundedOn(Smaller, FiniteSubsetsOf(Nat))
  BY FS_StrictSubsetOrderingWellFounded
<1>5. \E X \in Intervals : \A Y \in Intervals : ~(<<Y, X>> \in Smaller)
  <2> HIDE DEF Intervals, Smaller
  <2> QED
    BY <1>2, <1>3, <1>4, WFMin
<1>6. PICK x \in S : \A y \in S : ~(<<0 .. y, 0 .. x>> \in Smaller)
  BY <1>5
<1>7. ASSUME NEW y \in S PROVE x <= y
  <2> SUFFICES ASSUME y < x PROVE FALSE
    OBVIOUS
  <2>1. 0 .. y \subseteq 0 .. x /\ x \in 0 .. x /\ x \notin 0 .. y
    OBVIOUS
  <2>2. 0 .. y # 0 .. x
    BY <2>1
  <2> QED
    BY <1>1, <1>6, <2>1, <2>2 DEF StrictSubsetOrdering, FiniteSubsetsOf
<1> QED
  BY <1>7

\* A set of numbers with a bound has a greatest one.
LEMMA Greatest ==
    ASSUME NEW S \in SUBSET Nat, S # {}, NEW b \in Nat, \A x \in S : x <= b
    PROVE  \E x \in S : \A y \in S : x >= y
<1> DEFINE T == {b - x : x \in S}
<1>1. T \in SUBSET Nat
  OBVIOUS
<1>2. \A x \in S : b - x \in T
  OBVIOUS
<1>3. T # {}
  BY <1>2
<1>4. PICK m \in T : \A y \in T : m <= y
  <2> HIDE DEF T
  <2> QED
    BY <1>1, <1>3, Least
<1>5. PICK x \in S : m = b - x
  OBVIOUS
<1>6. ASSUME NEW y \in S PROVE x >= y
  <2>1. b - x <= b - y
    BY <1>2, <1>4, <1>5
  <2> QED
    BY <2>1
<1> QED
  BY <1>6

\* Induction: a set with 0 and with n + 1 for every n in it has all numbers.
LEMMA Induction ==
    ASSUME NEW S, 0 \in S, \A n \in Nat : n \in S => n + 1 \in S
    PROVE  Nat \subseteq S
<1> SUFFICES ASSUME Nat \ S # {} PROVE FALSE
  OBVIOUS
<1>1. PICK x \in Nat \ S : \A y \in Nat \ S : x <= y
  BY Least
<1>2. x # 0 /\ x - 1 \in Nat /\ (x - 1) + 1 = x
  BY <1>1
<1>3. x - 1 \in S
  BY <1>1, <1>2
<1> QED
  BY <1>1, <1>2, <1>3

-----------------------------------------------------------------------------
(* Division.                                                               *)

\* Division with remainder, for a position in a file: the code's / and %.
LEMMA Division ==
    ASSUME NEW b \in Nat \ {0}, NEW n \in Nat
    PROVE  /\ n \div b \in Nat
           /\ n % b \in 0 .. b - 1
           /\ n = b * (n \div b) + (n % b)
  OBVIOUS

\* The block and the offset in it that a position has are the only ones.
LEMMA DivisionUnique ==
    ASSUME NEW b \in Nat \ {0}, NEW q \in Nat, NEW r \in 0 .. b - 1
    PROVE  (b * q + r) \div b = q /\ (b * q + r) % b = r
  OBVIOUS

\* A smaller position is in no later block.
LEMMA DivisionMonotone ==
    ASSUME NEW b \in Nat \ {0}, NEW q \in Nat, NEW r \in 0 .. b - 1,
           NEW n \in Nat, b * q + r <= n
    PROVE  q <= n \div b
<1>1. n \div b \in Nat /\ n % b \in 0 .. b - 1 /\ n = b * (n \div b) + (n % b)
  BY Division
<1> DEFINE d == n \div b
<1>2. SUFFICES ASSUME q > d PROVE FALSE
  BY <1>1
<1>3. b * q >= b * (d + 1)
  BY <1>1, <1>2
<1>4. b * (d + 1) = b * d + b
  BY <1>1
<1> QED
  BY <1>1, <1>3, <1>4
=============================================================================
