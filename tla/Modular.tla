------------------------------ MODULE Modular ------------------------------
(***************************************************************************)
(* Facts about % that the code's wrapping sequence numbers and ring        *)
(* indices rest on (seqnum_cmp of raop_buffer.c, seqnum modulo the ring    *)
(* length).  The provers know division by a constant only; these lemmas    *)
(* carry its definition over to a modulus that is a parameter.             *)
(***************************************************************************)
EXTENDS Integers, WellFoundedInduction, TLAPS

(* What % and \div are, for a positive modulus. *)
LEMMA ModDef ==
  ASSUME NEW a \in Int, NEW m \in Nat \ {0}
  PROVE /\ a % m \in 0 .. m-1
        /\ a \div m \in Int
        /\ a = m * (a \div m) + (a % m)
OBVIOUS

(* The only multiple of m strictly between -m and m is 0. *)
LEMMA SmallMultiple ==
  ASSUME NEW k \in Int, NEW m \in Nat \ {0}, -m < m*k, m*k < m
  PROVE k = 0
<1>1. k < 1
  <2> SUFFICES ASSUME k >= 1 PROVE FALSE OBVIOUS
  <2>1. m * (k-1) >= 0 OBVIOUS
  <2> QED BY <2>1
<1>2. k > -1
  <2> SUFFICES ASSUME k <= -1 PROVE FALSE OBVIOUS
  <2>1. m * (-1-k) >= 0 OBVIOUS
  <2> QED BY <2>1
<1> QED BY <1>1, <1>2

(* Quotient and remainder are unique. *)
LEMMA DivUnique ==
  ASSUME NEW m \in Nat \ {0}, NEW q \in Int, NEW k \in Int, 
     NEW s \in 0..m-1, NEW r \in 0..m-1, m*q + s = m*k + r
  PROVE s = r /\ q = k
<1> DEFINE d == q - k
<1>1. d \in Int /\ m*d = r - s
  OBVIOUS
<1> HIDE DEF d
<1>2. d = 0
  <2>1. -m < m*d /\ m*d < m
    BY <1>1
  <2> QED BY <2>1, <1>1, SmallMultiple
<1> QED BY <1>1, <1>2 DEF d

(* A remainder in range is the value of %. *)
LEMMA ModUnique ==
  ASSUME NEW a \in Int, NEW m \in Nat \ {0}, NEW k \in Int, NEW r \in 0..m-1, a = m*k + r
  PROVE a % m = r
<1> DEFINE q == a \div m
           s == a % m
<1>1. q \in Int /\ s \in 0..m-1 /\ m*q + s = m*k + r
  BY ModDef
<1> HIDE DEF q, s
<1>2. s = r
  BY <1>1, DivUnique
<1> QED BY <1>2 DEF s

(* The difference of two remainders, reduced, is the remainder of the difference. *)
LEMMA ModDifference ==
  ASSUME NEW a \in Int, NEW b \in Int, NEW m \in Nat \ {0}
  PROVE ((a % m) - (b % m)) % m = (a - b) % m
<1> DEFINE qa == a \div m
           ra == a % m
           qb == b \div m
           rb == b % m
           qd == (a - b) \div m
           rd == (a - b) % m
<1>1. /\ qa \in Int /\ ra \in 0..m-1 /\ a = m*qa + ra
      /\ qb \in Int /\ rb \in 0..m-1 /\ b = m*qb + rb
      /\ qd \in Int /\ rd \in 0..m-1 /\ a - b = m*qd + rd
  BY ModDef
<1> HIDE DEF qa, ra, qb, rb, qd, rd
<1> DEFINE k == qd - qa + qb
<1>2. k \in Int /\ ra - rb = m*k + rd /\ ra - rb \in Int
  BY <1>1
<1> HIDE DEF k
<1>3. (ra - rb) % m = rd
  BY <1>1, <1>2, ModUnique
<1> QED BY <1>3 DEF ra, rb, rd

(* Adding to a remainder and reducing again is adding before reducing. *)
LEMMA SuccMod ==
  ASSUME NEW a \in Int, NEW b \in Int, NEW m \in Nat \ {0}
  PROVE ((a % m) + b) % m = (a + b) % m
<1> DEFINE qa == a \div m
           ra == a % m
           qd == (a + b) \div m
           rd == (a + b) % m
<1>1. /\ qa \in Int /\ ra \in 0..m-1 /\ a = m*qa + ra
      /\ qd \in Int /\ rd \in 0..m-1 /\ a + b = m*qd + rd
  BY ModDef
<1> HIDE DEF qa, ra, qd, rd
<1> DEFINE k == qd - qa
<1>2. k \in Int /\ ra + b = m*k + rd /\ ra + b \in Int
  BY <1>1
<1> HIDE DEF k
<1>3. (ra + b) % m = rd
  BY <1>1, <1>2, ModUnique
<1> QED BY <1>3 DEF ra, rd

(* Reducing modulo w and then modulo a divisor of w is reducing modulo the divisor. *)
LEMMA ModOfMod ==
  ASSUME NEW a \in Int, NEW m \in Nat \ {0}, NEW w \in Nat \ {0}, w % m = 0
  PROVE (a % w) % m = a % m
<1> DEFINE qa == a \div w
           ra == a % w
           c == w \div m
           q == a \div m
           r == a % m
<1>1. /\ qa \in Int /\ ra \in 0..w-1 /\ a = w*qa + ra
      /\ c \in Int /\ w = m*c
      /\ q \in Int /\ r \in 0..m-1 /\ a = m*q + r
  BY ModDef
<1> HIDE DEF qa, ra, c, q, r
<1> DEFINE k == q - c*qa
<1>2. k \in Int /\ ra = m*k + r /\ ra \in Int
  <2>1. w*qa = m*(c*qa)
    BY <1>1
  <2> DEFINE z == c*qa
  <2>2. z \in Int BY <1>1
  <2>3. w*qa = m*z BY <2>1
  <2> HIDE DEF z
  <2>4. m*(q - z) = m*q - m*z BY <2>2, <1>1
  <2>5. q - z \in Int /\ ra = m*(q-z) + r /\ ra \in Int BY <2>2, <2>3, <2>4, <1>1
  <2> QED BY <2>5 DEF z
<1> HIDE DEF k
<1>3. ra % m = r
  BY <1>1, <1>2, ModUnique
<1> QED BY <1>3 DEF ra, r

(* Two numbers less than m apart with the same remainder are equal. *)
LEMMA SameResidue ==
  ASSUME NEW a \in Int, NEW b \in Int, NEW m \in Nat \ {0}, a % m = b % m, a - b < m, b - a < m
  PROVE a = b
<1> DEFINE qa == a \div m
           qb == b \div m
           r == a % m
<1>1. /\ qa \in Int /\ r \in 0..m-1 /\ a = m*qa + r
      /\ qb \in Int /\ b = m*qb + r
  BY ModDef
<1> HIDE DEF qa, qb, r
<1> DEFINE k == qa - qb
<1>2. k \in Int /\ m*k = a - b BY <1>1
<1> HIDE DEF k
<1>3. k = 0 BY <1>2, SmallMultiple
<1> QED BY <1>2, <1>3

(* What % does within one modulus of zero. *)
LEMMA ModSmall ==
  ASSUME NEW m \in Nat \ {0}, NEW d \in Int
  PROVE /\ d \in 0..m-1 => d % m = d
        /\ d \in -m .. -1 => d % m = d + m
<1>1. ASSUME d \in 0..m-1 PROVE d % m = d
  <2>1. d = m*0 + d BY <1>1
  <2> QED BY <2>1, <1>1, ModUnique
<1>2. ASSUME d \in -m .. -1 PROVE d % m = d + m
  <2>1. d = m*(-1) + (d+m) /\ d + m \in 0..m-1 BY <1>2
  <2> QED BY <2>1, ModUnique
<1> QED BY <1>1, <1>2

(* Every set of numbers that is not empty has a least one. *)
LEMMA LeastNumber ==
  ASSUME NEW S \in SUBSET Nat, S # {}
  PROVE  \E i \in S : \A j \in S : i <= j
<1> DEFINE R == {ss \in Nat \X Nat : ss[1] < ss[2]}
<1>1. IsWellFoundedOn(R, Nat)
  BY NatLessThanWellFounded DEF OpToRel
<1>2. \E i \in S : \A j \in S : ~ (<<j, i>> \in R)
  <2> HIDE DEF R
  <2> QED BY <1>1, WFMin
<1>3. \A i, j \in S : <<j, i>> \in R <=> j < i
  OBVIOUS
<1>4. S \subseteq Nat
  OBVIOUS
<1> HIDE DEF R
<1>5. PICK i \in S : \A j \in S : ~ (<<j, i>> \in R)
  BY <1>2
<1>6. ASSUME NEW j \in S
      PROVE  i <= j
  <2>1. ~(j < i) /\ i \in Nat /\ j \in Nat
    BY <1>3, <1>4, <1>5
  <2> QED BY <2>1
<1> QED BY <1>6

=============================================================================
