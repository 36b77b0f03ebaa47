------------------------- MODULE ModularArithmetic -------------------------
(***************************************************************************)
(* The facts about % that the proofs on rings rest on: what an increment   *)
(* of a counter does to the slot the counter indexes.                      *)
(***************************************************************************)
EXTENDS Integers, TLAPS

\* A remainder is smaller than its divisor.
LEMMA ModRange ==
  ASSUME NEW c \in Nat \ {0}, NEW x \in Int
  PROVE  (x % c) \in 0..c-1
OBVIOUS

\* A remainder is determined by any decomposition of the dividend.
LEMMA ModUnique ==
  ASSUME NEW c \in Nat \ {0}, NEW q \in Int, NEW r \in 0..c-1
  PROVE  ((c * q) + r) % c = r
OBVIOUS

\* Numbers below the modulus are their own remainder.
LEMMA ModSmall ==
  ASSUME NEW c \in Nat \ {0}, NEW x \in 0..c-1
  PROVE  x % c = x
OBVIOUS

\* Division with remainder.
LEMMA Euclid ==
  ASSUME NEW c \in Nat \ {0}, NEW x \in Int
  PROVE  /\ x \div c \in Int
         /\ x = (c * (x \div c)) + (x % c)
OBVIOUS

\* Adding up to one whole turn to a counter wraps at most once.
LEMMA ModAdd ==
  ASSUME NEW c \in Nat \ {0}, NEW x \in Int, NEW k \in 0..c
  PROVE  (x + k) % c = IF (x % c) + k < c THEN (x % c) + k
                                          ELSE (x % c) + k - c
<1> DEFINE q == x \div c
           r == x % c
<1>1. q \in Int /\ r \in 0..c-1 /\ x = (c * q) + r
  BY Euclid, ModRange
<1> HIDE DEF q, r
<1>2. CASE r + k < c
  <2>1. x + k = (c * q) + (r + k)
    BY <1>1
  <2>2. r + k \in 0..c-1
    BY <1>1, <1>2
  <2>3. ((c * q) + (r + k)) % c = r + k
    BY <2>2, <1>1, ModUnique
  <2> QED
    BY <2>1, <2>3, <1>2 DEF r
<1>3. CASE ~(r + k < c)
  <2>1. x + k = (c * (q + 1)) + (r + k - c)
    BY <1>1
  <2>2. r + k - c \in 0..c-1 /\ q + 1 \in Int
    BY <1>1, <1>3
  <2>3. ((c * (q + 1)) + (r + k - c)) % c = r + k - c
    BY <2>2, <1>1, ModUnique
  <2> QED
    BY <2>1, <2>3, <1>3 DEF r
<1> QED
  BY <1>2, <1>3

\* Removing whole turns does not change the slot.
LEMMA ModTurns ==
  ASSUME NEW c \in Nat \ {0}, NEW x \in Int, NEW w \in Int,
         NEW m \in Int, w = c * m
  PROVE  (x - w) % c = x % c
<1> DEFINE q == x \div c
           r == x % c
<1>1. q \in Int /\ r \in 0..c-1 /\ x = (c * q) + r
  BY Euclid, ModRange
<1> HIDE DEF q, r
<1>2. x - w = (c * (q - m)) + r
  BY <1>1
<1>3. ((c * (q - m)) + r) % c = r
  BY <1>1, ModUnique
<1> QED
  BY <1>2, <1>3 DEF r

\* How far one counter is ahead of another, both below the modulus.
LEMMA ModDistance ==
  ASSUME NEW c \in Nat \ {0}, NEW t \in 0..c-1, NEW h \in 0..c-1
  PROVE  (t - h) % c = IF t >= h THEN t - h ELSE t - h + c
<1>1. CASE t >= h
  BY <1>1, ModSmall
<1>2. CASE ~(t >= h)
  <2>1. t - h = (c * (-1)) + (t - h + c) /\ t - h + c \in 0..c-1
    BY <1>2
  <2>2. ((c * (-1)) + (t - h + c)) % c = t - h + c
    BY <2>1, ModUnique
  <2> QED
    BY <1>2, <2>1, <2>2
<1> QED
  BY <1>1, <1>2

\* The successor of a counter below the modulus.
LEMMA ModNext ==
  ASSUME NEW c \in Nat \ {0}, NEW x \in 0..c-1
  PROVE  (x + 1) % c = IF x + 1 < c THEN x + 1 ELSE 0
<1>1. CASE x + 1 < c
  BY <1>1, ModSmall
<1>2. CASE ~(x + 1 < c)
  <2>1. x + 1 = (c * 1) + 0 /\ 0 \in 0..c-1
    BY <1>2
  <2>2. ((c * 1) + 0) % c = 0
    BY <2>1, ModUnique
  <2> QED
    BY <1>2, <2>1, <2>2
<1> QED
  BY <1>1, <1>2
=============================================================================
