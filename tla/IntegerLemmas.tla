--------------------------- MODULE IntegerLemmas ----------------------------
(***************************************************************************)
(* Facts about integers that the proofs share: least and greatest members  *)
(* of sets, for what a priority encoder picks and for the youngest row or  *)
(* the count of a set, and quotients and remainders, for addresses,        *)
(* buffers and counters that wrap.                                         *)
(***************************************************************************)
EXTENDS Integers, FiniteSetsExt, WellFoundedInduction, TLAPS

(* A priority encoder over a set that is not empty picks its least member. *)
LEMMA MinMember ==
    ASSUME NEW S \in SUBSET Nat, S # {}
    PROVE  Min(S) \in S /\ \A y \in S : Min(S) <= y
<1>1. OpToRel(<, Nat) = {ss \in Nat \X Nat : ss[1] < ss[2]}
  BY Zenon DEF OpToRel
<1>2. PICK x \in S : \A y \in S : ~(<<y, x>> \in {ss \in Nat \X Nat : ss[1] < ss[2]})
  BY <1>1, NatLessThanWellFounded, WFMin
<1>3. ASSUME NEW y \in S PROVE x <= y
  <2>1. x \in Nat /\ y \in Nat
    OBVIOUS
  <2>2. ~(y < x)
    BY <1>2, <2>1
  <2> QED
    BY <2>1, <2>2
<1> QED
  BY <1>3, <1>2 DEF Min

(* A bounded set of naturals that is not empty has a largest member.       *)
LEMMA MaxMember ==
    ASSUME NEW n \in Nat, NEW S \in SUBSET (0 .. n), S # {}
    PROVE  Max(S) \in S /\ \A y \in S : y <= Max(S)
<1> DEFINE Gaps == {n - x : x \in S}
<1>0. \A x \in S : x \in 0 .. n /\ n - x \in Nat
  <2> TAKE x \in S
  <2>1. x \in 0 .. n
    OBVIOUS
  <2> QED
    BY <2>1
<1>1. Gaps \in SUBSET Nat /\ Gaps # {}
  BY <1>0
<1>2. OpToRel(<, Nat) = {ss \in Nat \X Nat : ss[1] < ss[2]}
  BY Zenon DEF OpToRel
<1>3. PICK g \in Gaps : \A h \in Gaps : ~(<<h, g>> \in {ss \in Nat \X Nat : ss[1] < ss[2]})
  BY <1>1, <1>2, NatLessThanWellFounded, WFMin
<1>4. PICK x \in S : g = n - x
  BY <1>3
<1>5. ASSUME NEW y \in S PROVE y <= x
  <2>1. n - y \in Gaps /\ n - y \in Nat /\ n - x \in Nat
    BY <1>0
  <2>2. ~(n - y < n - x)
    BY <1>3, <1>4, <2>1
  <2> QED
    BY <1>0, <2>2
<1>6. PICK m \in S : \A y \in S : y <= m
  BY <1>5
<1> QED
  BY <1>0, <1>6 DEF Max

(* Division by a positive number.                                          *)
LEMMA DivMod ==
    ASSUME NEW a \in Int, NEW d \in Nat \ {0}
    PROVE  /\ a \div d \in Int /\ a % d \in 0 .. d - 1
           /\ a = (a \div d) * d + (a % d)
OBVIOUS

(* A quotient is unique.                                                   *)
LEMMA Quotient ==
    ASSUME NEW d \in Nat \ {0}, NEW q \in Int, NEW r \in 0 .. d - 1,
           NEW p \in Int, NEW s \in 0 .. d - 1, q * d + r = p * d + s
    PROVE  q = p
<1>1. CASE q > p
  <2>1. (q - p) * d >= d
    BY <1>1
  <2> QED
    BY <2>1
<1>2. CASE q < p
  <2>1. (p - q) * d >= d
    BY <1>2
  <2> QED
    BY <2>1
<1> QED
  BY <1>1, <1>2

(* A quotient of a number that is less than n times the divisor.           *)
LEMMA QuotientBound ==
    ASSUME NEW d \in Nat \ {0}, NEW n \in Nat \ {0}, NEW a \in 0 .. n * d - 1
    PROVE  a \div d \in 0 .. n - 1
<1> DEFINE q == a \div d
<1>1. q \in Int /\ a % d \in 0 .. d - 1 /\ a = q * d + (a % d)
  BY DivMod
<1> HIDE DEF q
<1>2. CASE q < 0
  <2>1. q * d <= -d
    BY <1>1, <1>2
  <2> QED
    BY <1>1, <2>1
<1>3. CASE q >= n
  <2>1. q * d >= n * d
    BY <1>1, <1>3
  <2> QED
    BY <1>1, <2>1
<1> QED
  BY <1>1, <1>2, <1>3 DEF q

(* What a number less than one divisor away from a multiple divides into.  *)
LEMMA QuotientIs ==
    ASSUME NEW d \in Nat \ {0}, NEW q \in Int, NEW r \in 0 .. d - 1
    PROVE  (q * d + r) \div d = q /\ (q * d + r) % d = r
<1> DEFINE a == q * d + r
           p == a \div d
           s == a % d
<1>1. a \in Int /\ a = q * d + r
  OBVIOUS
<1> HIDE DEF a
<1>2. p \in Int /\ s \in 0 .. d - 1 /\ a = p * d + s
  BY <1>1, DivMod, Zenon
<1> HIDE DEF p, s
<1>3. q = p
  BY <1>1, <1>2, Quotient
<1>4. r = s
  BY <1>1, <1>2, <1>3
<1> QED
  BY <1>3, <1>4 DEF a, p, s

(* Multiples are ordered like their factors, a whole divisor apart.        *)
LEMMA MultiplesOrdered ==
    ASSUME NEW d \in Nat \ {0}, NEW m \in Int, NEW n \in Int
    PROVE  /\ m <= n <=> m * d <= n * d
           /\ m < n <=> m * d + d <= n * d
<1>1. m <= n => m * d <= n * d
  OBVIOUS
<1>2. m < n => m * d + d <= n * d
  <2>1. m < n => (m + 1) * d <= n * d
    OBVIOUS
  <2>2. (m + 1) * d = m * d + d
    OBVIOUS
  <2> QED
    BY <2>1, <2>2
<1>3. n < m => n * d + d <= m * d
  <2>1. n < m => (n + 1) * d <= m * d
    OBVIOUS
  <2>2. (n + 1) * d = n * d + d
    OBVIOUS
  <2> QED
    BY <2>1, <2>2
<1> QED
  BY <1>1, <1>2, <1>3
=============================================================================
