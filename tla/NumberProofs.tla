------------------------------- MODULE NumberProofs ----------------------------
(****************************************************************************)
(* Division by numbers that are not constants, which the loops of the       *)
(* driver and the bytes of a packet need, and the least and the greatest    *)
(* number of a set, which are the nearest node and the last line.           *)
(****************************************************************************)
EXTENDS Integers, NaturalsInduction, WellFoundedInduction, TLAPS

\* A quotient is determined by having a rest below the divisor.
LEMMA DivUnique ==
  ASSUME NEW d \in Nat, NEW p \in Int, NEW r \in 0 .. d - 1, d > 0
  PROVE  (d * p + r) \div d = p
  <1> DEFINE v == d * p + r
             q == v \div d
             s == v % d
  <1>1. v \in Int /\ q \in Int /\ s \in 0 .. d - 1
    OBVIOUS
  <1>2. v = d * q + s
    BY <1>1
  <1> HIDE DEF q, s, v
  <1>3. d * (q - p) = r - s
    <2>1. d * (q - p) = d * q - d * p
      BY <1>1
    <2> QED BY <1>1, <1>2, <2>1 DEF v
  <1>4. ~ (q - p >= 1)
    <2>1. q - p >= 1 => d * (q - p) >= d
      BY <1>1
    <2> QED BY <1>1, <1>3, <2>1
  <1>5. ~ (p - q >= 1)
    <2>1. p - q >= 1 => d * (p - q) >= d
      BY <1>1
    <2>2. d * (q - p) = 0 - d * (p - q)
      BY <1>1
    <2> QED BY <1>1, <1>3, <2>1, <2>2
  <1>6. q = p
    BY <1>1, <1>4, <1>5
  <1> QED BY <1>6 DEF q, v

\* Shifting twice is shifting once.
LEMMA DivDiv ==
  ASSUME NEW v \in Nat, NEW w \in Nat, NEW b \in Nat, w > 0, b > 0
  PROVE  v \div (w * b) = (v \div w) \div b
  <1> DEFINE q == v \div w
             x == v % w
             p == q \div b
             y == q % b
  <1>1. q \in Nat /\ x \in 0 .. w - 1 /\ v = w * q + x
    OBVIOUS
  <1> HIDE DEF q, x
  <1>2. p \in Nat /\ y \in 0 .. b - 1 /\ q = b * p + y
    BY <1>1
  <1> HIDE DEF p, y
  <1>3. v = (w * b) * p + (w * y + x)
    <2>1. w * q = w * (b * p) + w * y
      BY <1>1, <1>2
    <2>2. w * (b * p) = (w * b) * p
      BY <1>2
    <2> QED BY <1>1, <1>2, <2>1, <2>2
  <1>4. w * y + x \in 0 .. (w * b) - 1
    <2>1. w * y <= w * (b - 1)
      BY <1>2
    <2>2. w * (b - 1) = w * b - w
      OBVIOUS
    <2>3. w * y \in Nat
      BY <1>2
    <2> QED BY <1>1, <1>2, <2>1, <2>2, <2>3
  <1>5. w * b \in Nat /\ w * b > 0
    OBVIOUS
  <1>6. v \div (w * b) = p
    <2> DEFINE d == w * b
               r == w * y + x
    <2>1. d \in Nat /\ d > 0 /\ p \in Int /\ r \in 0 .. d - 1 /\ v = d * p + r
      BY <1>2, <1>3, <1>4, <1>5
    <2> HIDE DEF d, r
    <2> QED BY <2>1, DivUnique DEF d
  <1> QED BY <1>6 DEF p, q

\* A set of numbers has a least one.
LEMMA LeastNumber ==
  ASSUME NEW T, T \subseteq Nat, T # {}
  PROVE  \E x \in T : \A y \in T : x <= y
  <1> DEFINE R == OpToRel(<, Nat)
  <1>1. IsWellFoundedOn(R, Nat)
    BY NatLessThanWellFounded
  <1>2. R = {ss \in Nat \X Nat : ss[1] < ss[2]}
    BY DEF OpToRel
  <1> HIDE DEF R
  <1>3. PICK x \in T : \A y \in T : ~ (<<y, x>> \in R)
    BY <1>1, WFMin
  <1>4. \A y \in T : ~ (y < x) /\ x \in Nat /\ y \in Nat
    BY <1>2, <1>3
  <1> QED BY <1>3, <1>4

\* And one within bounds has a greatest one.
LEMMA GreatestNumber ==
  ASSUME NEW max \in Nat, NEW S, S \subseteq 0 .. max, S # {}
  PROVE  \E x \in S : \A y \in S : y <= x
  <1> DEFINE T == {max - x : x \in S}
  <1>1. \A x \in S : x \in Nat /\ max - x \in Nat
    OBVIOUS
  <1>2. T \subseteq Nat /\ T # {}
    <2>1. T \subseteq Nat
      BY <1>1
    <2>2. PICK x : x \in S
      OBVIOUS
    <2>3. max - x \in T
      BY <2>2
    <2> QED BY <2>1, <2>3
  <1> HIDE DEF T
  <1>3. PICK z \in T : \A y \in T : z <= y
    BY <1>2, LeastNumber
  <1> USE DEF T
  <1>4. PICK x \in S : z = max - x
    BY <1>3
  <1>5. \A y \in S : max - x <= max - y
    BY <1>3, <1>4
  <1> QED BY <1>1, <1>5

================================================================================
