----------------------------- MODULE MinTheorems -----------------------------
(* What the proofs need to know of least numbers: Min (FiniteSetsExt) chooses *)
(* the lowest free descriptor, the first slot of the TLB that matches and the *)
(* place of the first separator; and induction over the numbers.             *)
EXTENDS FiniteSetsExt, Naturals, WellFoundedInduction, TLAPS

\* A set of numbers has a least member, whenever it has one at all.
LEMMA LeastMember ==
    ASSUME NEW S, S \subseteq Nat, S # {}
    PROVE  \E x \in S : \A y \in S : x <= y
<1> DEFINE R == {ss \in Nat \X Nat : ss[1] < ss[2]}
<1>1. IsWellFoundedOn(R, Nat)
  BY NatLessThanWellFounded DEF OpToRel
<1>2. PICK x \in S : \A y \in S : ~ (<<y, x>> \in R)
  BY <1>1, WFMin
<1>3. \A y \in S : x <= y
  <2> TAKE y \in S
  <2>1. x \in Nat /\ y \in Nat /\ ~ (y < x)
    BY <1>2
  <2> QED
    BY <2>1
<1> QED
  BY <1>3

\* Min chooses that member.
LEMMA MinIsMember ==
    ASSUME NEW S, S \subseteq Nat, S # {}
    PROVE  Min(S) \in S
BY LeastMember DEF Min

LEMMA MinIsLeast ==
    ASSUME NEW S, S \subseteq Nat, NEW y \in S
    PROVE  Min(S) <= y
BY LeastMember DEF Min

\* Induction: a set of numbers that has 0 and, with a number, the next one has
\* them all.  The least number outside of it would have a predecessor inside.
LEMMA AllNumbers ==
    ASSUME NEW S, 0 \in S, \A n \in Nat : n \in S => n + 1 \in S
    PROVE  Nat \subseteq S
<1> DEFINE T == Nat \ S
<1>1. SUFFICES ASSUME T # {}
               PROVE  FALSE
  OBVIOUS
<1>2. Min(T) \in T
  BY <1>1, MinIsMember
<1>3. Min(T) # 0 /\ Min(T) - 1 \in Nat /\ Min(T) = (Min(T) - 1) + 1
  BY <1>2
<1>4. Min(T) - 1 \in S
  <2>1. SUFFICES ASSUME Min(T) - 1 \in T
                 PROVE  FALSE
    BY <1>3
  <2>2. Min(T) <= Min(T) - 1
    BY <2>1, MinIsLeast
  <2> QED
    BY <1>2, <2>2
<1> QED
  BY <1>2, <1>3, <1>4
=============================================================================
