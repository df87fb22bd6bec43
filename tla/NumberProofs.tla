---------------------------- MODULE NumberProofs ----------------------------
(***************************************************************************)
(* Induction over the natural numbers, as facts about sets of numbers: the  *)
(* form in which the provers can use it.                                    *)
(***************************************************************************)
EXTENDS Naturals, WellFoundedInduction, TLAPS

\* A set of numbers has a least.
LEMMA Least ==
  ASSUME NEW T, T \subseteq Nat, T # {}
  PROVE  \E i \in T : \A j \in T : i <= j
<1> DEFINE R == {ss \in Nat \X Nat : ss[1] < ss[2]}
<1>1. R = OpToRel(<, Nat)
  BY Zenon DEF OpToRel
<1>2. IsWellFoundedOn(R, Nat)
  BY <1>1, NatLessThanWellFounded, Zenon
<1>3. \E i \in T : \A j \in T : ~(<<j, i>> \in R)
  <2> HIDE DEF R
  <2> QED
    BY <1>2, WFMin
<1>4. PICK i \in T : \A j \in T : ~(<<j, i>> \in R)
  BY <1>3
<1>5. \A j \in Nat, k \in Nat : j < k => <<j, k>> \in R
  BY SMT
<1> HIDE DEF R
<1>6. \A j \in T : i <= j
  <2> SUFFICES ASSUME NEW j \in T
               PROVE  i <= j
    OBVIOUS
  <2>1. i \in Nat /\ j \in Nat
    OBVIOUS
  <2>2. ~(j < i)
    BY <1>4, <1>5, <2>1, Zenon
  <2> QED
    BY <2>1, <2>2
<1> QED
  BY <1>6

\* Whatever holds of 0 and passes on to the next number holds of all.
LEMMA AllNumbers ==
  ASSUME NEW T, 0 \in T, \A i \in Nat : i \in T => i + 1 \in T
  PROVE  Nat \subseteq T
<1> SUFFICES ASSUME Nat \ T # {}
             PROVE  FALSE
  OBVIOUS
<1>1. PICK i \in Nat \ T : \A j \in Nat \ T : i <= j
  BY Least
<1>2. i # 0 /\ i - 1 \in Nat /\ i - 1 \notin Nat \ T
  BY <1>1
<1>3. (i - 1) + 1 \in T
  BY <1>2
<1> QED
  BY <1>1, <1>2, <1>3

\* Whatever holds of the first number and passes on to the next holds up to the last.
LEMMA NumbersUpTo ==
  ASSUME NEW n \in Nat, NEW T, n >= 1 => 1 \in T,
         \A i \in 1 .. n - 1 : i \in T => i + 1 \in T
  PROVE  1 .. n \subseteq T
<1> DEFINE U == {i \in Nat : i + 1 \in 1 .. n => i + 1 \in T}
<1>1. 0 \in U
  OBVIOUS
<1>2. ASSUME NEW i \in Nat, i \in U
      PROVE  i + 1 \in U
  <2>1. CASE i + 1 \in 1 .. n - 1
    BY <1>2, <2>1
  <2>2. CASE i + 1 \notin 1 .. n - 1
    BY <2>2
  <2> QED
    BY <2>1, <2>2
<1>3. Nat \subseteq U
  <2> HIDE DEF U
  <2> QED
    BY <1>1, <1>2, AllNumbers
<1>4. ASSUME NEW i \in 1 .. n
      PROVE  i \in T
  <2>1. i - 1 \in U /\ (i - 1) + 1 = i
    BY <1>3
  <2> QED
    BY <2>1
<1> QED
  BY <1>4

=============================================================================
