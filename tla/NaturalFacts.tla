---------------------------- MODULE NaturalFacts ----------------------------
(***************************************************************************)
(* Facts about natural numbers that several proofs need and the provers    *)
(* do not know: a least element, induction, and remainders.                *)
(*                                                                         *)
(* The library states induction for an operator, which the provers cannot  *)
(* instantiate.  Its theorem that a well-founded relation has minimal      *)
(* elements is about sets, and gives induction over a set of numbers: a    *)
(* predicate is used as the set of the numbers it holds for.               *)
(***************************************************************************)
EXTENDS Integers, FiniteSets, FiniteSetTheorems, WellFoundedInduction, TLAPS

(* Every set of natural numbers that is not empty has a least element.     *)
LEMMA NatLeast ==
  ASSUME NEW S, S \subseteq Nat, S # {}
  PROVE  \E n \in S : \A m \in S : n <= m
<1>1. PICK R : R = OpToRel(<, Nat)
  OBVIOUS
<1>2. IsWellFoundedOn(R, Nat)
  BY <1>1, NatLessThanWellFounded
<1>3. PICK n \in S : \A m \in S : ~ (<<m, n>> \in R)
  BY <1>2, WFMin
<1>4. \A a, b \in Nat : a < b => <<a, b>> \in R
  BY <1>1, SMT DEF OpToRel
<1>5. \A m \in S : ~ (m < n)
  BY <1>3, <1>4
<1>6. QED BY <1>3, <1>5

(* Induction: a set with 0 that has the next number of each of its members *)
(* has all natural numbers.                                                *)
LEMMA NatInductive ==
  ASSUME NEW S, 0 \in S, \A n \in Nat : n \in S => n + 1 \in S
  PROVE  Nat \subseteq S
<1>1. SUFFICES ASSUME Nat \ S # {} PROVE FALSE
  OBVIOUS
<1>2. PICK n \in Nat \ S : \A m \in Nat \ S : n <= m
  BY <1>1, NatLeast
<1>3. n # 0 /\ n - 1 \in Nat
  BY <1>2
<1>4. n - 1 \in S
  BY <1>2, <1>3
<1>5. QED BY <1>2, <1>3, <1>4

LEMMA QuotientAndRest ==
  ASSUME NEW n \in Nat \ {0}, NEW a \in Nat
  PROVE  a % n \in 0 .. (n - 1) /\ a \div n \in Nat /\ a = (n * (a \div n)) + (a % n)
OBVIOUS

(* Two numbers with one quotient differ by what their remainders do.       *)
LEMMA SameQuotient ==
  ASSUME NEW n \in Nat \ {0}, NEW a \in Nat, NEW b \in Nat, a \div n = b \div n
  PROVE  (a % n) - (b % n) = a - b
<1>1. PICK q \in Nat : q = a \div n
  BY QuotientAndRest
<1>2. PICK m \in Nat : m = n * q
  OBVIOUS
<1>3. a = m + (a % n) /\ b = m + (b % n)
  BY <1>1, <1>2, QuotientAndRest
<1>4. a % n \in Nat /\ b % n \in Nat
  BY QuotientAndRest
<1>5. QED BY <1>3, <1>4
=============================================================================
