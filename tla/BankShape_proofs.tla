--------------------------- MODULE BankShape_proofs ---------------------------
(***************************************************************************)
(* The arithmetic of powers of two that the organisation of a bank rests   *)
(* on, and that a mat with the share of an access a bank promises it holds *)
(* its part of the capacity.                                               *)
(***************************************************************************)
EXTENDS BankShape, FiniteSetTheorems, WellFoundedInduction, TLAPS

(* Induction over the natural numbers for a set of them.                    *)
LEMMA SetInduction ==
  ASSUME NEW S, 0 \in S, \A n \in Nat : n \in S => n + 1 \in S
  PROVE  Nat \subseteq S
<1> SUFFICES ASSUME Nat \ S # {} PROVE FALSE
  OBVIOUS
<1> DEFINE R == OpToRel(<, Nat)
           T == Nat \ S
<1>1. IsWellFoundedOn(R, Nat)
  BY NatLessThanWellFounded
<1>2. T \subseteq Nat /\ T # {}
  OBVIOUS
<1>3. \A x, y \in Nat : x < y => <<x, y>> \in R
  BY DEF OpToRel
<1> HIDE DEF R, T
<1>4. PICK m \in T : \A y \in T : ~(<<y, m>> \in R)
  BY <1>1, <1>2, WFMin
<1>5. m \in Nat /\ m \notin S
  BY <1>4 DEF T
<1>6. m # 0
  BY <1>5
<1>7. m - 1 \in Nat /\ m - 1 < m /\ (m - 1) + 1 = m
  BY <1>5, <1>6
<1>8. m - 1 \in S
  BY <1>3, <1>4, <1>5, <1>7 DEF T
<1> QED
  BY <1>5, <1>7, <1>8

-----------------------------------------------------------------------------
(* Powers of two.  The library counts the subsets of a set with them.       *)

LEMMA PowerIsNat ==
  ASSUME NEW n \in Nat
  PROVE  2^n \in Nat
<1>1. IsFiniteSet(1..n) /\ Cardinality(1..n) = n
  BY FS_Interval
<1>2. Cardinality(SUBSET (1..n)) = 2^n /\ IsFiniteSet(SUBSET (1..n))
  BY <1>1, FS_SUBSET
<1> QED
  BY <1>2, FS_CardinalityType

LEMMA Doubling ==
  ASSUME NEW n \in Nat
  PROVE  2^(n + 1) = 2 * 2^n
<1> DEFINE m == n + 1
           A == SUBSET (1..n)
           B == {x \cup {m} : x \in A}
<1>1. /\ IsFiniteSet(1..n) /\ Cardinality(1..n) = n
      /\ IsFiniteSet(1..m) /\ Cardinality(1..m) = m
  BY FS_Interval
<1>2. IsFiniteSet(A) /\ Cardinality(A) = 2^n
  BY <1>1, FS_SUBSET
<1>3. Cardinality(SUBSET (1..m)) = 2^m
  BY <1>1, FS_SUBSET
<1>4. SUBSET (1..m) = A \cup B
  <2>1. 1..m = (1..n) \cup {m}
    OBVIOUS
  <2>2. ASSUME NEW x \in SUBSET (1..m) PROVE x \in A \cup B
    <3>1. CASE m \in x
      <4>1. x \ {m} \in A
        BY <2>1
      <4>2. x = (x \ {m}) \cup {m}
        BY <3>1
      <4> QED
        BY <4>1, <4>2
    <3>2. CASE m \notin x
      BY <2>1, <3>2
    <3> QED
      BY <3>1, <3>2
  <2>3. ASSUME NEW x \in A \cup B PROVE x \in SUBSET (1..m)
    BY <2>1, <2>3
  <2> QED
    BY <2>2, <2>3
<1>5. ExistsBijection(A, B)
  <2> DEFINE f == [x \in A |-> x \cup {m}]
  <2>1. f \in [A -> B]
    OBVIOUS
  <2>2. \A x, y \in A : f[x] = f[y] => x = y
    <3> SUFFICES ASSUME NEW x \in A, NEW y \in A, f[x] = f[y] PROVE x = y
      OBVIOUS
    <3>1. m \notin x /\ m \notin y
      OBVIOUS
    <3>2. x \cup {m} = y \cup {m}
      OBVIOUS
    <3> QED
      BY <3>1, <3>2
  <2>3. \A z \in B : \E x \in A : f[x] = z
    OBVIOUS
  <2> HIDE DEF f, A, B
  <2>4. f \in Bijection(A, B)
    BY <2>1, <2>2, <2>3 DEF Bijection, Injection, Surjection, IsInjective
  <2> QED
    BY <2>4 DEF ExistsBijection
<1>6. IsFiniteSet(B) /\ Cardinality(B) = 2^n
  BY <1>2, <1>5, FS_Bijection
<1>7. A \cap B = {}
  OBVIOUS
<1>8. m \in Nat
  OBVIOUS
<1> HIDE DEF A, B, m
<1>9. 2^m = 2^n + 2^n - 0
  <2>1. Cardinality({}) = 0
    BY FS_EmptySet
  <2>2. Cardinality(A \cup B) = Cardinality(A) + Cardinality(B) - Cardinality(A \cap B)
    BY <1>2, <1>6, FS_Union
  <2> QED
    BY <1>2, <1>3, <1>4, <1>6, <1>7, <2>1, <2>2, Zenon
<1>10. 2^n \in Nat /\ 2^m \in Nat
  BY <1>8, PowerIsNat
<1> DEFINE p == 2^n
           q == 2^m
<1>11. q = p + p - 0 /\ p \in Nat /\ q \in Nat
  BY <1>9, <1>10
<1>12. q = 2 * p
  <2> HIDE DEF p, q
  <2> QED
    BY <1>11
<1> QED
  BY <1>12 DEF m

LEMMA PowerIsPositive == \A n \in Nat : 2^n \in Nat \ {0}
<1> DEFINE S == {n \in Nat : 2^n > 0}
<1>1. 0 \in S
  OBVIOUS
<1>2. ASSUME NEW n \in Nat, n \in S PROVE n + 1 \in S
  <2>1. 2^n \in Nat /\ 2^n > 0 /\ 2^(n + 1) = 2 * 2^n
    BY <1>2, PowerIsNat, Doubling
  <2> QED
    BY <2>1
<1> HIDE DEF S
<1>3. Nat \subseteq S
  BY <1>1, <1>2, SetInduction
<1> QED
  BY <1>3, PowerIsNat DEF S

LEMMA PowersMultiply == \A m, n \in Nat : 2^(m + n) = 2^m * 2^n
<1> SUFFICES ASSUME NEW m \in Nat PROVE \A n \in Nat : 2^(m + n) = 2^m * 2^n
  OBVIOUS
<1> DEFINE S == {n \in Nat : 2^(m + n) = 2^m * 2^n}
<1>1. 0 \in S
  <2>1. m + 0 = m /\ 2^0 = 1 /\ 2^m \in Nat
    BY PowerIsNat
  <2> QED
    BY <2>1
<1>2. ASSUME NEW n \in Nat, n \in S PROVE n + 1 \in S
  <2> DEFINE a == 2^m
             b == 2^n
             c == 2^(m + n)
             d == 2^(n + 1)
             e == 2^(m + (n + 1))
  <2>1. c = a * b
    BY <1>2
  <2>2. d = 2 * b
    BY Doubling
  <2>3. e = 2 * c
    <3>1. m + n \in Nat /\ m + (n + 1) = (m + n) + 1
      OBVIOUS
    <3>2. 2^((m + n) + 1) = 2 * 2^(m + n)
      BY <3>1, Doubling
    <3> QED
      BY <3>1, <3>2
  <2>4. a \in Nat /\ b \in Nat
    BY PowerIsNat
  <2>5. e = a * d
    <3> HIDE DEF a, b, c, d, e
    <3>1. a * (2 * b) = 2 * (a * b)
      BY <2>4
    <3> QED
      BY <2>1, <2>2, <2>3, <3>1
  <2> QED
    BY <2>5
<1> HIDE DEF S
<1>3. Nat \subseteq S
  BY <1>1, <1>2, SetInduction
<1> QED
  BY <1>3 DEF S

LEMMA PowersGrow == \A m, n \in Nat : m < n <=> 2^m < 2^n
<1>1. ASSUME NEW m \in Nat, NEW n \in Nat, m < n PROVE 2^m < 2^n
  <2> DEFINE d == n - m - 1
             a == 2^m
             b == 2^d
             c == 2^n
  <2>1. d \in Nat /\ n = m + (d + 1) /\ d + 1 \in Nat
    BY <1>1
  <2>2. 2^(m + (d + 1)) = 2^m * 2^(d + 1) /\ 2^(d + 1) = 2 * 2^d
    <3> HIDE DEF d
    <3> QED
      BY <2>1, PowersMultiply, Doubling
  <2>3. c = a * (2 * b)
    BY <2>1, <2>2
  <2>4. a \in Nat \ {0} /\ b \in Nat \ {0}
    BY <2>1, PowerIsPositive
  <2>5. a < c
    <3> HIDE DEF a, b, c, d
    <3>1. a * (2 * b) = a * b + a * b
      BY <2>4
    <3>2. a * b \in Nat /\ a * b >= a
      BY <2>4
    <3> QED
      BY <2>3, <2>4, <3>1, <3>2
  <2> QED
    BY <2>5
<1>2. ASSUME NEW m \in Nat, NEW n \in Nat, ~(m < n) PROVE ~(2^m < 2^n)
  <2>1. CASE m = n
    BY <2>1, PowerIsNat
  <2>2. CASE n < m
    <3>1. 2^n < 2^m /\ 2^n \in Nat /\ 2^m \in Nat
      BY <1>1, <2>2, PowerIsNat
    <3> QED
      BY <3>1
  <2> QED
    BY <1>2, <2>1, <2>2
<1> QED
  BY <1>1, <1>2

(* A power of two is decided by its exponent.                               *)
LEMMA ExponentsCompare ==
  \A m, n \in Nat : (m <= n <=> 2^m <= 2^n) /\ (m = n <=> 2^m = 2^n)
<1> SUFFICES ASSUME NEW m \in Nat, NEW n \in Nat
             PROVE  (m <= n <=> 2^m <= 2^n) /\ (m = n <=> 2^m = 2^n)
  OBVIOUS
<1>1. 2^m \in Nat /\ 2^n \in Nat
  BY PowerIsNat
<1>2. (m < n <=> 2^m < 2^n) /\ (n < m <=> 2^n < 2^m)
  BY PowersGrow
<1> QED
  BY <1>1, <1>2

-----------------------------------------------------------------------------
(* Division.                                                                *)

LEMMA QuotientBounds ==
  ASSUME NEW a \in Nat, NEW b \in Nat \ {0}
  PROVE  /\ a \div b \in Nat
         /\ b * (a \div b) <= a /\ a < b * (a \div b) + b
<1> DEFINE d == a \div b
           r == a % b
           e == b * d
<1>1. d \in Nat /\ r \in 0..b - 1 /\ a = e + r /\ e \in Nat
  OBVIOUS
<1> HIDE DEF d, r, e
<1>2. e <= a /\ a < e + b
  BY <1>1
<1> QED
  BY <1>1, <1>2 DEF d, e

LEMMA Quotient ==
  ASSUME NEW a \in Nat, NEW b \in Nat \ {0}, NEW q \in Nat,
         b * q <= a, a < b * q + b
  PROVE  a \div b = q
<1> DEFINE d == a \div b
<1>1. d \in Nat /\ b * d <= a /\ a < b * d + b
  BY QuotientBounds
<1> HIDE DEF d
<1>2. ASSUME NEW x \in Nat, NEW y \in Nat, x < y PROVE b * x + b <= b * y
  <2>1. x + 1 <= y
    BY <1>2
  <2>2. b * (x + 1) <= b * y
    BY <2>1
  <2>3. b * (x + 1) = b * x + b
    OBVIOUS
  <2> QED
    BY <2>2, <2>3
<1>3. b * d \in Nat /\ b * q \in Nat
  BY <1>1
<1>4. ~(d < q)
  <2>1. SUFFICES ASSUME b * d + b <= b * q PROVE FALSE
    BY <1>1, <1>2
  <2> DEFINE e == b * d
             f == b * q
  <2>2. e \in Nat /\ f \in Nat /\ f <= a /\ a < e + b /\ e + b <= f
    BY <1>1, <1>3, <2>1
  <2> HIDE DEF e, f
  <2> QED
    BY <2>2
<1>5. ~(q < d)
  <2>1. SUFFICES ASSUME b * q + b <= b * d PROVE FALSE
    BY <1>1, <1>2
  <2> DEFINE e == b * d
             f == b * q
  <2>2. e \in Nat /\ f \in Nat /\ e <= a /\ a < f + b /\ f + b <= e
    BY <1>1, <1>3, <2>1
  <2> HIDE DEF e, f
  <2> QED
    BY <2>2
<1>6. d = q
  BY <1>1, <1>4, <1>5
<1> QED
  BY <1>6 DEF d

LEMMA Divides ==
  ASSUME NEW b \in Nat \ {0}, NEW q \in Nat
  PROVE  (b * q) \div b = q
<1>1. b * q \in Nat /\ b * q < b * q + b
  OBVIOUS
<1> DEFINE a == b * q
<1>2. a \in Nat /\ b * q <= a /\ a < b * q + b
  BY <1>1
<1> HIDE DEF a
<1>3. a \div b = q
  BY <1>2, Quotient
<1> QED
  BY <1>3 DEF a

LEMMA DivideTwice ==
  ASSUME NEW a \in Nat, NEW b \in Nat \ {0}, NEW c \in Nat \ {0}
  PROVE  (a \div b) \div c = a \div (b * c)
<1> DEFINE q == a \div b
           s == q \div c
           k == b * c
<1>1. q \in Nat /\ b * q <= a /\ a < b * q + b
  BY QuotientBounds
<1>2. s \in Nat /\ c * s <= q /\ q < c * s + c
  <2> HIDE DEF q
  <2> QED
    BY <1>1, QuotientBounds
<1> HIDE DEF q, s
<1>3. k \in Nat \ {0}
  OBVIOUS
<1> DEFINE t == c * s
<1>4. t \in Nat /\ t <= q /\ q + 1 <= t + c
  BY <1>1, <1>2
<1> HIDE DEF t
<1>5. b * t <= b * q /\ b * q + b <= b * t + b * c
  <2>1. b * (q + 1) <= b * (t + c)
    BY <1>1, <1>4
  <2>2. b * (q + 1) = b * q + b /\ b * (t + c) = b * t + b * c
    BY <1>1, <1>4
  <2>3. b * t <= b * q
    BY <1>1, <1>4
  <2> QED
    BY <2>1, <2>2, <2>3
<1>6. k * s = b * t
  BY <1>2 DEF t
<1> DEFINE x == b * t
           y == b * q
<1>7. x \in Nat /\ y \in Nat /\ x <= y /\ y + b <= x + k /\ y <= a /\ a < y + b
  BY <1>1, <1>4, <1>5
<1>8. k * s = x
  BY <1>6
<1> HIDE DEF k, x, y
<1>9. x <= a /\ a < x + k
  BY <1>3, <1>7
<1>10. k * s <= a /\ a < k * s + k
  BY <1>8, <1>9
<1>11. a \div k = s
  BY <1>2, <1>3, <1>10, Quotient
<1> QED
  BY <1>11 DEF k, s, q

LEMMA HalveAndDivide ==
  ASSUME NEW a \in Nat, NEW c \in Nat \ {0}
  PROVE  (a \div 2) \div c = a \div (2 * c)
<1> DEFINE Q(b) == (a \div b) \div c = a \div (b * c)
<1>1. \A b \in Nat \ {0} : Q(b)
  BY DivideTwice
<1> HIDE DEF Q
<1>2. Q(2)
  BY <1>1
<1> QED
  BY <1>2 DEF Q

(* Quotients of powers of two are powers of two, or zero.                   *)
LEMMA PowersDivide ==
  ASSUME NEW m \in Nat, NEW n \in Nat
  PROVE  /\ m >= n => 2^m \div 2^n = 2^(m - n) /\ 2^m = 2^n * 2^(m - n)
         /\ m < n => 2^m \div 2^n = 0
<1>1. 2^m \in Nat \ {0} /\ 2^n \in Nat \ {0}
  BY PowerIsPositive
<1>2. CASE m >= n
  <2> DEFINE d == m - n
  <2>1. d \in Nat /\ n + d = m
    BY <1>2
  <2>2. 2^(n + d) = 2^n * 2^d /\ 2^d \in Nat
    <3> HIDE DEF d
    <3> QED
      BY <2>1, PowersMultiply, PowerIsNat
  <2>3. 2^m = 2^n * 2^d
    BY <2>1, <2>2
  <2>4. (2^n * 2^d) \div 2^n = 2^d
    BY <1>1, <2>2, Divides
  <2>5. 2^m \div 2^n = 2^d
    <3> HIDE DEF d
    <3> QED
      BY <2>3, <2>4
  <2> QED
    BY <1>2, <2>3, <2>5
<1>3. CASE m < n
  <2> DEFINE a == 2^m
             b == 2^n
  <2>1. a \in Nat /\ b \in Nat \ {0} /\ a < b
    BY <1>1, <1>3, PowersGrow
  <2> HIDE DEF a, b
  <2>2. b * 0 = 0
    BY <2>1
  <2>3. a \div b = 0
    BY <2>1, <2>2, Quotient
  <2> QED
    BY <1>3, <2>3 DEF a, b
<1> QED
  BY <1>2, <1>3

-----------------------------------------------------------------------------
(* Logarithms.  For a power of two the rounding has no effect.              *)
LEMMA LogOfPower ==
  ASSUME NEW q \in Nat \ {0}, NEW k \in 0..30
  PROVE  Log(q * 2^k, q) = k
<1> DEFINE p == q * 2^k
           u == 933 * q
           Is(j) == 1000 * p >= u * 2^j /\ 1000 * p < u * 2^(j + 1)
<1>1. /\ 2^k \in Nat \ {0} /\ k \in Nat
      /\ p \in Nat \ {0} /\ p >= q
  <2> DEFINE a == 2^k
  <2>1. a \in Nat \ {0}
    BY PowerIsPositive
  <2>2. q * a \in Nat \ {0} /\ q * a >= q
    <3> HIDE DEF a
    <3> QED
      BY <2>1
  <2> QED
    BY <2>1, <2>2
<1>2. u \in Nat \ {0} /\ u * 2^k = 933 * p
  <2> DEFINE a == 2^k
  <2>1. (933 * q) * a = 933 * (q * a)
    <3>1. a \in Nat
      BY <1>1
    <3> HIDE DEF a
    <3> QED
      BY <3>1
  <2> QED
    BY <2>1
<1>3. \A i, j \in Nat : i <= j => u * 2^i <= u * 2^j /\ u * 2^i \in Nat
  <2> SUFFICES ASSUME NEW i \in Nat, NEW j \in Nat, i <= j
               PROVE  u * 2^i <= u * 2^j /\ u * 2^i \in Nat
    OBVIOUS
  <2> DEFINE a == 2^i
             b == 2^j
  <2>1. a \in Nat /\ b \in Nat /\ a <= b
    BY PowerIsNat, ExponentsCompare
  <2> HIDE DEF a, b, u
  <2>2. u * a <= u * b /\ u * a \in Nat
    BY <1>2, <2>1
  <2> QED
    BY <2>2 DEF a, b
<1>4. u * 2^(k + 1) = 1866 * p
  <2> DEFINE a == 2^k
             b == 2^(k + 1)
  <2>1. b = 2 * a /\ a \in Nat
    BY <1>1, Doubling
  <2> HIDE DEF a, b
  <2>2. u * (2 * a) = 2 * (u * a)
    BY <1>2, <2>1
  <2>3. u * a = 933 * p
    BY <1>2 DEF a
  <2> HIDE DEF p, u
  <2>4. u * b = 1866 * p
    BY <1>1, <2>1, <2>2, <2>3
  <2> QED
    BY <2>4 DEF b
<1>5. Is(k)
  <2> HIDE DEF p, u
  <2> QED
    BY <1>1, <1>2, <1>4
<1>6. ASSUME NEW j \in 0..30, Is(j) PROVE j = k
  <2> HIDE DEF p
  <2>1. ~(j < k)
    <3>1. SUFFICES ASSUME j + 1 <= k PROVE FALSE
      OBVIOUS
    <3>2. u * 2^(j + 1) <= u * 2^k /\ u * 2^(j + 1) \in Nat
      <4> DEFINE i == j + 1
      <4>1. i \in Nat /\ i <= k
        BY <3>1
      <4> HIDE DEF i, u
      <4>2. u * 2^i <= u * 2^k /\ u * 2^i \in Nat
        BY <1>1, <1>3, <4>1
      <4> QED
        BY <4>2 DEF i
    <3> DEFINE x == u * 2^(j + 1)
    <3>3. x <= 933 * p /\ x \in Nat /\ 1000 * p < x
      BY <1>2, <1>6, <3>2
    <3> HIDE DEF x
    <3> QED
      BY <1>1, <3>3
  <2>2. ~(k < j)
    <3>1. SUFFICES ASSUME k + 1 <= j PROVE FALSE
      OBVIOUS
    <3>2. u * 2^(k + 1) <= u * 2^j
      <4> DEFINE i == k + 1
      <4>1. i \in Nat /\ j \in Nat /\ i <= j
        BY <3>1
      <4> HIDE DEF i, u
      <4>2. u * 2^i <= u * 2^j
        BY <1>3, <4>1
      <4> QED
        BY <4>2 DEF i
    <3>3. u * 2^j \in Nat
      <4> HIDE DEF u
      <4> QED
        BY <1>3
    <3> DEFINE x == u * 2^j
    <3>4. 1866 * p <= x /\ x \in Nat /\ x <= 1000 * p
      BY <1>4, <1>6, <3>2, <3>3
    <3> HIDE DEF x
    <3> QED
      BY <1>1, <3>4
  <2> QED
    BY <2>1, <2>2
<1>7. (CHOOSE j \in 0..30 : Is(j)) = k
  <2> HIDE DEF Is
  <2> QED
    BY <1>5, <1>6
<1>8. 1000 * p >= 933 * q
  <2> HIDE DEF p
  <2> QED
    BY <1>1
<1>9. Log(p, q) = CHOOSE j \in 0..30 : Is(j)
  <2> HIDE DEF p
  <2> DEFINE above == CHOOSE j \in 0..30 : Is(j)
             below == -(CHOOSE j \in 0..30 : /\ 1000 * q > 1072 * p * 2^j
                                             /\ 1000 * q <= 1072 * p * 2^(j + 1))
  <2>1. Log(p, q) = IF 1000 * p >= 933 * q THEN above ELSE below
    BY DEF Log
  <2> HIDE DEF above, below
  <2>2. Log(p, q) = above
    BY <1>8, <2>1
  <2> QED
    BY <2>2 DEF above
<1>10. Log(p, q) = k
  <2> HIDE DEF p, Is
  <2> QED
    BY <1>7, <1>9
<1> QED
  BY <1>10

(* The logarithm of a power of two is its exponent.                         *)
LEMMA LogOfTwo ==
  ASSUME NEW k \in 0..30
  PROVE  Log2(2^k) = k
<1>1. 1 * 2^k = 2^k
  BY PowerIsNat
<1>2. Log(1 * 2^k, 1) = k
  <2> DEFINE L(q) == Log(q * 2^k, q)
  <2>1. \A q \in Nat \ {0} : L(q) = k
    BY LogOfPower
  <2> HIDE DEF L
  <2>2. L(1) = k
    BY <2>1
  <2> QED
    BY <2>2 DEF L
<1> QED
  BY <1>1, <1>2 DEF Log2

LEMMA PowerLog ==
  ASSUME NEW x \in PowersOfTwo
  PROVE  Log2(x) \in 0..30 /\ x = 2^Log2(x) /\ x \in Nat \ {0}
<1>1. PICK k \in 0..30 : x = 2^k
  BY DEF PowersOfTwo
<1>2. Log2(x) = k
  BY <1>1, LogOfTwo
<1> QED
  BY <1>1, <1>2, PowerIsPositive

LEMMA PowersTimes ==
  ASSUME NEW x \in PowersOfTwo, NEW y \in PowersOfTwo, x * y <= 2^30
  PROVE  x * y \in PowersOfTwo /\ Log2(x * y) = Log2(x) + Log2(y)
<1> DEFINE m == Log2(x)
           n == Log2(y)
           k == m + n
<1>1. m \in 0..30 /\ n \in 0..30 /\ x = 2^m /\ y = 2^n
  BY PowerLog
<1> HIDE DEF m, n
<1>2. k \in Nat /\ x * y = 2^k
  BY <1>1, PowersMultiply
<1> HIDE DEF k
<1>3. k <= 30
  <2> DEFINE Below(e) == k <= e <=> 2^k <= 2^e
  <2>1. \A e \in Nat : Below(e)
    BY <1>2, ExponentsCompare
  <2> HIDE DEF Below
  <2>2. Below(30)
    BY <2>1
  <2> QED
    BY <1>2, <2>2 DEF Below
<1>4. k \in 0..30
  BY <1>2, <1>3
<1>5. x * y \in PowersOfTwo /\ Log2(x * y) = k
  BY <1>2, <1>4, LogOfTwo DEF PowersOfTwo
<1> QED
  BY <1>5 DEF k, m, n

LEMMA PowersOver ==
  ASSUME NEW x \in PowersOfTwo, NEW y \in PowersOfTwo, y <= x
  PROVE  /\ x \div y \in PowersOfTwo
         /\ Log2(x \div y) = Log2(x) - Log2(y) /\ Log2(y) <= Log2(x)
         /\ x = y * (x \div y)
<1> DEFINE m == Log2(x)
           n == Log2(y)
           k == m - n
<1>1. m \in 0..30 /\ n \in 0..30 /\ x = 2^m /\ y = 2^n
  BY PowerLog
<1> HIDE DEF m, n
<1>2. n <= m
  BY <1>1, ExponentsCompare
<1>3. k \in 0..30
  BY <1>1, <1>2
<1>4. x \div y = 2^k /\ x = y * 2^k
  BY <1>1, <1>2, PowersDivide
<1> HIDE DEF k
<1>5. x \div y \in PowersOfTwo /\ Log2(x \div y) = k
  BY <1>3, <1>4, LogOfTwo DEF PowersOfTwo
<1> QED
  BY <1>2, <1>4, <1>5 DEF k, m, n

LEMMA SmallPowers == 1 \in PowersOfTwo /\ 2 \in PowersOfTwo /\ Log2(1) = 0 /\ Log2(2) = 1
<1>1. 2^0 = 1 /\ 2^1 = 2
  OBVIOUS
<1>2. Log2(2^0) = 0 /\ Log2(2^1) = 1
  BY LogOfTwo
<1> QED
  BY <1>1, <1>2 DEF PowersOfTwo

LEMMA HalfOfPower ==
  ASSUME NEW x \in PowersOfTwo, x > 1
  PROVE  /\ x \div 2 \in PowersOfTwo
         /\ Log2(x \div 2) = Log2(x) - 1 /\ Log2(x) >= 1
         /\ x = 2 * (x \div 2)
<1>1. x \in Nat /\ 2 <= x
  BY PowerLog
<1> QED
  BY <1>1, SmallPowers, PowersOver, PowerLog

(* Rows times columns over the active ones: the mats, or subarrays, that    *)
(* address bits choose among.                                               *)
LEMMA ChoiceOfPowers ==
  ASSUME NEW r \in PowersOfTwo, NEW c \in PowersOfTwo, r * c <= 2^30,
         NEW ar \in PowersOfTwo, NEW ac \in PowersOfTwo, ar <= r, ac <= c
  PROVE  LET choice == (r * c) \div (ar * ac)
         IN  /\ choice \in PowersOfTwo
             /\ Log2(choice) = (Log2(r) - Log2(ar)) + (Log2(c) - Log2(ac))
             /\ r * c = (ar * ac) * choice
             /\ ar * ac \in PowersOfTwo
<1>1. r \in Nat \ {0} /\ c \in Nat \ {0} /\ ar \in Nat \ {0} /\ ac \in Nat \ {0}
  BY PowerLog
<1>2. ar * ac <= r * c
  <2>1. ar * ac <= r * ac /\ r * ac <= r * c
    BY <1>1
  <2>2. ar * ac \in Nat /\ r * ac \in Nat /\ r * c \in Nat
    BY <1>1
  <2> QED
    BY <2>1, <2>2
<1> DEFINE x == r * c
           y == ar * ac
           max == 2^30
<1>3. y \in Nat /\ x \in Nat /\ max \in Nat /\ x <= max /\ y <= x
  BY <1>1, <1>2, PowerIsNat
<1>4. y <= 2^30
  <2> HIDE DEF x, y, max
  <2>1. y <= max
    BY <1>3
  <2> QED
    BY <2>1 DEF max
<1>5. x \in PowersOfTwo /\ Log2(x) = Log2(r) + Log2(c)
  BY PowersTimes
<1>6. y \in PowersOfTwo /\ Log2(y) = Log2(ar) + Log2(ac)
  BY <1>4, PowersTimes
<1> HIDE DEF x, y
<1>7. /\ x \div y \in PowersOfTwo
      /\ Log2(x \div y) = Log2(x) - Log2(y)
      /\ x = y * (x \div y)
  BY <1>3, <1>5, <1>6, PowersOver
<1>8. /\ Log2(r) \in Nat /\ Log2(c) \in Nat /\ Log2(ar) \in Nat /\ Log2(ac) \in Nat
  BY PowerLog
<1>9. Log2(x \div y) = (Log2(r) - Log2(ar)) + (Log2(c) - Log2(ac))
  BY <1>5, <1>6, <1>7, <1>8
<1> QED
  BY <1>6, <1>7, <1>9 DEF x, y

-----------------------------------------------------------------------------
(* Powers of two of any size.                                               *)
AllPowers == {2^k : k \in Nat}

LEMMA AllPowersContain == PowersOfTwo \subseteq AllPowers /\ AllPowers \subseteq Nat \ {0}
<1>1. ASSUME NEW x \in PowersOfTwo PROVE x \in AllPowers
  <2>1. PICK k \in 0..30 : x = 2^k
    BY DEF PowersOfTwo
  <2>2. k \in Nat
    BY <2>1
  <2> QED
    BY <2>1, <2>2 DEF AllPowers
<1>2. ASSUME NEW x \in AllPowers PROVE x \in Nat \ {0}
  BY PowerIsPositive DEF AllPowers
<1> QED
  BY <1>1, <1>2

LEMMA AllPowersTimes ==
  ASSUME NEW x \in AllPowers, NEW y \in AllPowers
  PROVE  x * y \in AllPowers
<1>1. PICK m \in Nat : x = 2^m
  BY DEF AllPowers
<1>2. PICK n \in Nat : y = 2^n
  BY DEF AllPowers
<1>3. m + n \in Nat /\ 2^(m + n) = 2^m * 2^n
  BY PowersMultiply
<1>4. x * y = 2^(m + n)
  BY <1>1, <1>2, <1>3
<1> QED
  BY <1>3, <1>4 DEF AllPowers

(* One power divides another, or there is nothing left.                     *)
LEMMA AllPowersOver ==
  ASSUME NEW x \in AllPowers, NEW y \in AllPowers
  PROVE  /\ x \div y \in Nat
         /\ y <= x => x \div y # 0
         /\ x \div y # 0 => x \div y \in AllPowers /\ x = y * (x \div y)
<1>1. PICK m \in Nat : x = 2^m
  BY DEF AllPowers
<1>2. PICK n \in Nat : y = 2^n
  BY DEF AllPowers
<1>3. /\ m >= n => 2^m \div 2^n = 2^(m - n) /\ 2^m = 2^n * 2^(m - n)
      /\ m < n => 2^m \div 2^n = 0
  BY PowersDivide
<1>4. CASE m >= n
  <2>1. m - n \in Nat
    BY <1>4
  <2>2. x \div y = 2^(m - n) /\ x = y * (x \div y)
    BY <1>1, <1>2, <1>3, <1>4
  <2>3. 2^(m - n) \in AllPowers /\ 2^(m - n) \in Nat \ {0}
    BY <2>1, PowerIsPositive DEF AllPowers
  <2> QED
    BY <2>2, <2>3
<1>5. CASE m < n
  <2>1. x \div y = 0
    BY <1>1, <1>2, <1>3, <1>5
  <2>2. ~(y <= x)
    BY <1>1, <1>2, <1>5, PowersGrow, PowerIsNat
  <2> QED
    BY <2>1, <2>2
<1> QED
  BY <1>4, <1>5

(* The extra multiplexing of a data array that holds several ways in a row. *)
LEMMA ExtraMuxIsPower ==
  ASSUME NEW kind, NEW w \in PowersOfTwo
  PROVE  /\ ExtraMux(kind, w).sense \in AllPowers
         /\ ExtraMux(kind, w).lev1 \in AllPowers
         /\ ExtraMux(kind, w).lev2 \in AllPowers
<1> DEFINE n == Log2(w)
           half == 2^(Log2(w) \div 2)
           third == 2^(Log2(w) \div 3)
<1>1. n \in Nat /\ w = 2^n /\ w \in AllPowers
  BY PowerLog, AllPowersContain
<1>2. n \div 2 \in Nat /\ n \div 2 <= n /\ n \div 3 \in Nat
      /\ n \div 3 + n \div 3 <= n
  <2> HIDE DEF n
  <2> QED
    BY <1>1
<1>3. half \in AllPowers /\ third \in AllPowers
  BY <1>2 DEF AllPowers
<1>4. w \div half \in AllPowers
  <2>1. half <= w
    BY <1>1, <1>2, ExponentsCompare
  <2> HIDE DEF half, n
  <2> QED
    BY <1>1, <1>3, <2>1, AllPowersOver
<1>5. w \div (third * third) \in AllPowers
  <2> DEFINE k == n \div 3
             j == k + k
             t == third * third
  <2>1. j \in Nat /\ j <= n /\ k \in Nat
    BY <1>2
  <2>2. t = 2^j
    <3>1. 2^(k + k) = 2^k * 2^k
      BY <2>1, PowersMultiply
    <3> QED
      BY <3>1
  <2>3. t \in AllPowers
    BY <1>3, AllPowersTimes
  <2>4. t <= w
    <3> HIDE DEF t, j, n
    <3>1. 2^j <= 2^n
      BY <1>1, <2>1, ExponentsCompare
    <3> QED
      BY <1>1, <2>2, <3>1
  <2> HIDE DEF t, n
  <2>5. w \div t \in AllPowers
    BY <1>1, <2>3, <2>4, AllPowersOver
  <2> QED
    BY <2>5 DEF t
<1>6. 1 \in AllPowers
  BY SmallPowers, AllPowersContain
<1> HIDE DEF half, third
<1>7. ExtraMux(kind, w) =
        IF w <= 1 THEN [sense |-> 1, lev1 |-> 1, lev2 |-> 1]
        ELSE IF kind = "eDRAM"
        THEN [sense |-> 1, lev1 |-> w \div half, lev2 |-> half]
        ELSE [sense |-> w \div (third * third), lev1 |-> third, lev2 |-> third]
  BY DEF ExtraMux, half, third
<1> QED
  BY <1>3, <1>4, <1>5, <1>6, <1>7

-----------------------------------------------------------------------------
(* Capacity.  A mat that is not rejected holds as many bits as its address  *)
(* and data bits make, whatever is multiplexed: what the multiplexers take  *)
(* from the rows they give to the columns.                                  *)
LEMMA MatHolds ==
  ASSUME NEW r, NEW a \in Int, NEW d \in Nat, NEW w \in PowersOfTwo,
         PowerOrganisation(r.org), PowerMultiplexing(r.org),
         r.array \in Arrays, r.array = "data" => r.org.rowPerSet <= w,
         ~Mat(r, a, d, w).invalid
  PROVE  LET o == r.org
             bits == a - Log2((o.subRows * o.subColumns)
                                \div (o.activeSubRows * o.activeSubColumns))
         IN  /\ bits \in Nat \ {0}
             /\ Mat(r, a, d, w).rows * Mat(r, a, d, w).columns =
                  2^bits * w * (d \div (o.activeSubRows * o.activeSubColumns))
<1> DEFINE o == r.org
           extra == IF r.array = "data" THEN ExtraMux(r.memory.cell, w \div o.rowPerSet)
                    ELSE ExtraMux(r.memory.cell, 1)
           Sense(e) == o.sense * e.sense
           Product(e) == Sense(e) * (o.lev1 * e.lev1) * (o.lev2 * e.lev2)
           active == o.activeSubRows * o.activeSubColumns
           bits == a - Log2((o.subRows * o.subColumns) \div active)
           Is(e, b) ==
             IF \/ b <= 0
                \/ MatRows(r, b, w, Product(e)) = 0
                \/ MatColumns(r, d, w, Product(e)) = 0
                \/ SubArrayInvalid(r.memory, MatRows(r, b, w, Product(e)),
                                   MatColumns(r, d, w, Product(e)), Sense(e))
                \/ b - Log2(Product(e)) < 0
             THEN Rejected
             ELSE [invalid |-> FALSE, rows |-> MatRows(r, b, w, Product(e)),
                   columns |-> MatColumns(r, d, w, Product(e)),
                   rowAddress |-> b - Log2(Product(e))]
           product == Product(extra)
           rows == MatRows(r, bits, w, product)
           columns == MatColumns(r, d, w, product)
<1>1. Mat(r, a, d, w) = Is(extra, bits)
  BY ZenonT(60) DEF Mat
<1>2. /\ ~(bits <= 0) /\ rows # 0
      /\ Mat(r, a, d, w).rows = rows /\ Mat(r, a, d, w).columns = columns
  <2> DEFINE bad == SubArrayInvalid(r.memory, rows, columns, Sense(extra))
             low == bits - Log2(product)
  <2>1. Mat(r, a, d, w) =
          IF bits <= 0 \/ rows = 0 \/ columns = 0 \/ bad \/ low < 0 THEN Rejected
          ELSE [invalid |-> FALSE, rows |-> rows, columns |-> columns, rowAddress |-> low]
    BY <1>1, Zenon
  <2> HIDE DEF bits, rows, columns, bad, low
  <2> QED
    BY <2>1 DEF Rejected
<1>3. /\ o.sense \in AllPowers /\ o.lev1 \in AllPowers /\ o.lev2 \in AllPowers
      /\ o.rowPerSet \in PowersOfTwo
      /\ o.subRows \in PowersOfTwo /\ o.subColumns \in PowersOfTwo
      /\ o.activeSubRows \in PowersOfTwo /\ o.activeSubColumns \in PowersOfTwo
      /\ o.activeSubRows <= o.subRows /\ o.activeSubColumns <= o.subColumns
      /\ o.subRows * o.subColumns <= 2^30
  BY AllPowersContain DEF PowerOrganisation, PowerMultiplexing
<1>4. bits \in Nat /\ active \in Nat \ {0}
  <2>1. active \in PowersOfTwo /\ (o.subRows * o.subColumns) \div active \in PowersOfTwo
    BY <1>3, ChoiceOfPowers
  <2>2. bits \in Int /\ active \in Nat \ {0}
    BY <2>1, PowerLog
  <2> QED
    BY <1>2, <2>2
<1>5. extra.sense \in AllPowers /\ extra.lev1 \in AllPowers /\ extra.lev2 \in AllPowers
  <2>1. CASE r.array = "data"
    <3>1. w \div o.rowPerSet \in PowersOfTwo
      BY <1>3, <2>1, PowersOver
    <3> QED
      BY <2>1, <3>1, ExtraMuxIsPower
  <2>2. CASE r.array # "data"
    <3> DEFINE one == 1
    <3>1. one \in PowersOfTwo
      BY SmallPowers
    <3>2. extra = ExtraMux(r.memory.cell, one)
      BY <2>2
    <3> HIDE DEF one, extra
    <3> QED
      BY <3>1, <3>2, ExtraMuxIsPower
  <2> QED
    BY <2>1, <2>2
<1>6. product \in AllPowers
  <2> HIDE DEF extra, o
  <2>1. /\ o.sense * extra.sense \in AllPowers /\ o.lev1 * extra.lev1 \in AllPowers
        /\ o.lev2 * extra.lev2 \in AllPowers
    BY <1>3, <1>5, AllPowersTimes
  <2>2. (o.sense * extra.sense) * (o.lev1 * extra.lev1) \in AllPowers
    BY <2>1, AllPowersTimes
  <2> QED
    BY <2>1, <2>2, AllPowersTimes
<1> DEFINE share == d \div active
           power == 2^bits
<1>7. share \in Nat /\ power \in AllPowers /\ power \in Nat /\ product \in Nat
      /\ w \in AllPowers /\ w \in Nat
  <2>1. share \in Nat
    <3> HIDE DEF active
    <3> QED
      BY <1>4
  <2>2. power \in AllPowers
    BY <1>4 DEF AllPowers
  <2> HIDE DEF product, power
  <2> QED
    BY <1>6, <2>1, <2>2, AllPowersContain
<1>8. CASE r.array = "data"
  <2>1. rows = (power * w) \div product /\ columns = share * product * 1
    BY <1>8 DEF MatRows, MatColumns
  <2> HIDE DEF product, power, share, rows, columns, o, active, bits
  <2>2. power * w \in AllPowers
    BY <1>7, AllPowersTimes
  <2> DEFINE x == power * w
  <2>3. x \in AllPowers /\ rows = x \div product
    BY <2>1, <2>2
  <2> HIDE DEF x
  <2>4. x = product * rows /\ rows \in Nat
    BY <1>2, <1>6, <2>3, AllPowersOver
  <2>5. columns = share * product
    BY <1>7, <2>1
  <2>6. rows * (share * product) = (product * rows) * share
    BY <1>7, <2>4
  <2>7. rows * columns = x * share
    BY <2>4, <2>5, <2>6
  <2> QED
    BY <1>2, <1>4, <2>7 DEF x, share, power, active, bits, o
<1>9. CASE r.array # "data"
  <2>1. rows = (power * 1) \div product /\ columns = share * product * w
    BY <1>9 DEF MatRows, MatColumns, Arrays
  <2> HIDE DEF product, power, share, rows, columns, o, active, bits
  <2>2. rows = power \div product
    BY <1>7, <2>1
  <2>3. power = product * rows /\ rows \in Nat
    BY <1>2, <1>6, <1>7, <2>2, AllPowersOver
  <2>4. rows * (share * product * w) = ((product * rows) * w) * share
    BY <1>7, <2>3
  <2>5. rows * columns = (power * w) * share
    BY <2>1, <2>3, <2>4
  <2> QED
    BY <1>2, <1>4, <2>5 DEF share, power, active, bits, o
<1> QED
  BY <1>8, <1>9

-----------------------------------------------------------------------------
(* A quotient below one has no positive logarithm.                          *)
LEMMA LogBelow ==
  ASSUME NEW q \in Nat \ {0}, NEW k \in 1..30
  PROVE  Log(q, q * 2^k) \in Int /\ Log(q, q * 2^k) <= 0
<1> DEFINE p == q * 2^k
           Is(j) == 1000 * p > 1072 * q * 2^j /\ 1000 * p <= 1072 * q * 2^(j + 1)
           c == CHOOSE j \in 0..30 : Is(j)
           i == k - 1
<1>1. i \in Nat /\ i \in 0..30 /\ i + 1 = k
  OBVIOUS
<1> DEFINE a == 2^i
           s == q * a
<1>2. a \in Nat \ {0} /\ 2^k = 2 * a
  BY <1>1, PowerIsPositive, Doubling
<1>3. s \in Nat \ {0} /\ p = 2 * s
  <2> HIDE DEF a
  <2>1. q * a \in Nat \ {0} /\ q * (2 * a) = 2 * (q * a)
    BY <1>2
  <2> QED
    BY <1>2, <2>1
<1>4. Is(i)
  <2>1. 1072 * q * 2^i = 1072 * s
    <3> HIDE DEF a
    <3>1. 1072 * q * a = 1072 * (q * a)
      BY <1>2
    <3> QED
      BY <3>1 DEF a
  <2>2. 1072 * q * 2^(i + 1) = 2144 * s
    <3> HIDE DEF a
    <3>1. 1072 * q * (2 * a) = 2144 * (q * a)
      BY <1>2
    <3>2. 2^(i + 1) = 2 * a
      BY <1>1, <1>2
    <3> QED
      BY <3>1, <3>2
  <2> HIDE DEF s, p
  <2> QED
    BY <1>3, <2>1, <2>2
<1>5. c \in 0..30
  <2> HIDE DEF Is, i
  <2> QED
    BY <1>1, <1>4
<1>6. ~(1000 * q >= 933 * p)
  <2>1. s >= q
    <3> HIDE DEF a
    <3> QED
      BY <1>2
  <2> HIDE DEF s, p
  <2> QED
    BY <1>3, <2>1
<1>7. Log(q, p) = -c
  <2> HIDE DEF p
  <2> QED
    BY <1>6 DEF Log
<1> HIDE DEF c, p
<1>8. Log(q, p) \in Int /\ Log(q, p) <= 0
  BY <1>5, <1>7
<1> QED
  BY <1>8 DEF p

(* Where the quotient of two multiples of u by powers of two is above one   *)
(* its logarithm gives it back.                                             *)
LEMMA LogGivesBack ==
  ASSUME NEW u \in Nat \ {0}, NEW x \in PowersOfTwo, NEW y \in PowersOfTwo,
         Log(u * x, u * y) > 0
  PROVE  u * x = 2^Log(u * x, u * y) * (u * y)
<1> DEFINE m == Log2(x)
           n == Log2(y)
<1>1. /\ m \in 0..30 /\ n \in 0..30 /\ x = 2^m /\ y = 2^n
      /\ x \in Nat \ {0} /\ y \in Nat \ {0} /\ m \in Nat /\ n \in Nat
  BY PowerLog
<1> HIDE DEF m, n
<1>2. CASE m >= n
  <2> DEFINE k == m - n
             q == u * y
             b == 2^k
  <2>1. k \in 0..30 /\ q \in Nat \ {0}
    BY <1>1, <1>2
  <2>2. x = y * b /\ b \in Nat
    <3>1. 2^m = 2^n * 2^(m - n)
      BY <1>1, <1>2, PowersDivide
    <3>2. 2^k \in Nat
      BY <2>1, PowerIsNat
    <3> QED
      BY <1>1, <3>1, <3>2
  <2>3. u * x = q * b
    <3> HIDE DEF b
    <3>1. u * (y * b) = (u * y) * b
      BY <1>1, <2>2
    <3> QED
      BY <2>2, <3>1
  <2>4. Log(u * x, q) = k
    <3> HIDE DEF q, k
    <3>1. Log(q * 2^k, q) = k
      BY <2>1, LogOfPower
    <3> QED
      BY <2>3, <3>1
  <2>5. q * b = b * q
    <3> HIDE DEF b, q
    <3> QED
      BY <2>1, <2>2
  <2>6. u * x = 2^Log(u * x, q) * q
    <3> HIDE DEF q, k
    <3> QED
      BY <2>3, <2>4, <2>5
  <2> QED
    BY <2>6
<1>3. CASE m < n
  <2> DEFINE k == n - m
             q == u * x
             b == 2^k
  <2>1. k \in 1..30 /\ q \in Nat \ {0}
    BY <1>1, <1>3
  <2>2. y = x * b /\ b \in Nat
    <3>1. 2^n = 2^m * 2^(n - m)
      BY <1>1, <1>3, PowersDivide
    <3>2. 2^k \in Nat
      BY <2>1, PowerIsNat
    <3> QED
      BY <1>1, <3>1, <3>2
  <2>3. u * y = q * b
    <3> HIDE DEF b
    <3>1. u * (x * b) = (u * x) * b
      BY <1>1, <2>2
    <3> QED
      BY <2>2, <3>1
  <2>4. Log(q, u * y) \in Int /\ Log(q, u * y) <= 0
    <3> HIDE DEF q, k
    <3>1. Log(q, q * 2^k) \in Int /\ Log(q, q * 2^k) <= 0
      BY <2>1, LogBelow
    <3> QED
      BY <2>3, <3>1
  <2> DEFINE l == Log(u * x, u * y)
  <2>5. l \in Int /\ l <= 0 /\ l > 0
    BY <2>4
  <2> HIDE DEF l
  <2> QED
    BY <2>5
<1> QED
  BY <1>1, <1>2, <1>3

(* A block is spread evenly over the subarrays that work on it: the tag is  *)
(* rounded up to this end, and of two powers of two one divides the other.  *)
LEMMA BlockIsShared ==
  ASSUME NEW r, PowerOrganisation(r.org), PowerMemory(r), r.array \in Arrays,
         r.array = "data" => BlockSize(r) \in PowersOfTwo, ~TooAggressive(r)
  PROVE  LET o == r.org
             a == o.activeRows * o.activeColumns
             b == o.activeSubRows * o.activeSubColumns
         IN  /\ a \in Nat \ {0} /\ b \in Nat \ {0}
             /\ BlockSize(r) \in Nat \ {0}
             /\ BlockSize(r) = (a * b) * (BlockSize(r) \div (a * b))
<1> DEFINE o == r.org
           a == o.activeRows * o.activeColumns
           b == o.activeSubRows * o.activeSubColumns
           k == a * b
           Even == BlockSize(r) \in Nat \ {0} /\ BlockSize(r) = k * (BlockSize(r) \div k)
<1>1. /\ o.activeRows \in AllPowers /\ o.activeColumns \in AllPowers
      /\ o.activeSubRows \in AllPowers /\ o.activeSubColumns \in AllPowers
  BY AllPowersContain DEF PowerOrganisation
<1>2. a \in AllPowers /\ b \in AllPowers
  BY <1>1, AllPowersTimes
<1>3. Activated(o) = k
  <2> DEFINE m == o.activeRows
             n == o.activeColumns
             p == o.activeSubRows
             q == o.activeSubColumns
  <2>1. m \in Nat /\ n \in Nat /\ p \in Nat /\ q \in Nat
    BY <1>1, AllPowersContain
  <2> HIDE DEF m, n, p, q
  <2>2. m * n * p * q = (m * n) * (p * q)
    BY <2>1
  <2> QED
    BY <2>2 DEF m, n, p, q, Activated
<1> HIDE DEF a, b
<1>4. k \in AllPowers /\ k \in Nat \ {0}
  BY <1>2, AllPowersTimes, AllPowersContain
<1> HIDE DEF k
<1>5. CASE r.array = "data"
  <2>1. BlockSize(r) \in AllPowers /\ BlockSize(r) \in Nat \ {0}
    BY <1>5, AllPowersContain
  <2>2. BlockSize(r) \div k # 0
    BY <1>3, <1>5 DEF TooAggressive, Arrays
  <2>3. Even
    BY <1>4, <2>1, <2>2, AllPowersOver
  <2> QED
    BY <1>2, <2>3, AllPowersContain DEF k, a, b
<1>6. CASE r.array # "data"
  <2> DEFINE t == TagWidth(r.memory)
             d == t \div k
  <2>1. r.array = "tag"
    BY <1>6 DEF Arrays
  <2>2. t \in Nat /\ d # 0
    BY <1>3, <2>1 DEF TooAggressive, PowerMemory
  <2>3. d \in Nat /\ d + 1 \in Nat
    <3> HIDE DEF t
    <3> QED
      BY <1>4, <2>2
  <2>4. BlockSize(r) = IF t % k = 0 THEN t ELSE (d + 1) * k
    BY <1>3, <2>1 DEF BlockSize, TagBlock
  <2>5. PICK n \in Nat \ {0} : BlockSize(r) = k * n
    <3>1. CASE t % k = 0
      <4> HIDE DEF t
      <4>1. t = k * (t \div k) + (t % k)
        BY <1>4, <2>2
      <4>2. t = k * (t \div k)
        <5> DEFINE j == t \div k
        <5>1. t = k * j + 0 /\ j \in Nat
          BY <2>3, <3>1, <4>1
        <5> HIDE DEF j
        <5>2. t = k * j
          BY <1>4, <5>1
        <5> QED
          BY <5>2 DEF j
      <4>3. t = k * d /\ d \in Nat \ {0} /\ BlockSize(r) = t
        BY <2>2, <2>3, <2>4, <3>1, <4>2
      <4> HIDE DEF d
      <4> QED
        BY <4>3
    <3>2. CASE t % k # 0
      <4> HIDE DEF d, t
      <4>1. (d + 1) * k = k * (d + 1) /\ d + 1 \in Nat \ {0}
        BY <1>4, <2>3
      <4> QED
        BY <2>4, <3>2, <4>1
    <3> QED
      BY <3>1, <3>2
  <2>6. k * n \in Nat \ {0} /\ (k * n) \div k = n
    <3>1. k * n \in Nat \ {0}
      BY <1>4
    <3>2. (k * n) \div k = n
      BY <1>4, Divides
    <3> QED
      BY <3>1, <3>2
  <2>7. Even
    BY <2>5, <2>6
  <2> QED
    BY <1>2, <2>7, AllPowersContain DEF k, a, b
<1> QED
  BY <1>5, <1>6

(* The address bits of a die count its sets.                                *)
LEMMA AddressCounts ==
  ASSUME NEW r, PowerMemory(r), r.array \in Arrays,
         Ways(r) \in PowersOfTwo, BlockSize(r) \in Nat \ {0},
         NumAddressBit(r) > 0
  PROVE  Capacity(r) = 2^NumAddressBit(r) * (BlockSize(r) * Ways(r) * r.org.dies)
<1> DEFINE c == r.memory.capacity
           w == r.memory.wordWidth
           a == r.memory.associativity
           s == r.org.dies
           blocks == c \div w
           b == BlockSize(r)
<1>1. /\ c \in PowersOfTwo /\ w \in PowersOfTwo /\ a \in PowersOfTwo /\ s \in PowersOfTwo
      /\ w <= c /\ a * s <= 2^30
  BY DEF PowerMemory
<1>2. blocks \in PowersOfTwo /\ c = w * blocks
  BY <1>1, PowersOver
<1>3. /\ w \in Nat \ {0} /\ a \in Nat \ {0} /\ s \in Nat \ {0} /\ blocks \in Nat \ {0}
      /\ a * s \in PowersOfTwo
  BY <1>1, <1>2, PowerLog, PowersTimes
<1> HIDE DEF c, w, a, s, blocks, b
<1>4. NumAddressBit(r) = Log(Capacity(r), b * Ways(r) * s)
  BY DEF NumAddressBit, b, s
<1>5. CASE Capacity(r) = b * blocks
  <2>1. Ways(r) = a \/ Ways(r) = 1
    BY DEF Ways, a
  <2>2. Ways(r) * s \in PowersOfTwo /\ Ways(r) \in Nat
    BY <1>1, <1>3, <2>1, PowerLog
  <2> DEFINE y == Ways(r) * s
  <2>3. b * Ways(r) * s = b * y
    BY <1>3, <2>2 DEF b
  <2> HIDE DEF y
  <2>4. y \in PowersOfTwo /\ b \in Nat \ {0}
    BY <2>2 DEF y, b
  <2>5. b * blocks = 2^Log(b * blocks, b * y) * (b * y)
    BY <1>2, <1>4, <1>5, <2>3, <2>4, LogGivesBack
  <2> QED
    BY <1>4, <1>5, <2>3, <2>5 DEF b, s
<1>6. CASE Capacity(r) # b * blocks
  <2>1. r.array = "data" /\ Capacity(r) = c
    <3>1. blocks * b = b * blocks
      BY <1>3 DEF b
    <3> QED
      BY <1>6, <3>1 DEF Capacity, c, w, blocks, b, Arrays
  <2>2. r.memory.cache /\ r.memory.mode = "fast"
    <3> SUFFICES ASSUME ~(r.memory.cache /\ r.memory.mode = "fast") PROVE FALSE
      OBVIOUS
    <3>1. b = w
      BY <2>1 DEF BlockSize, b, w
    <3> QED
      BY <1>2, <1>6, <2>1, <3>1
  <2>3. b = w * a /\ Ways(r) = 1
    BY <2>1, <2>2 DEF BlockSize, Ways, b, w, a
  <2> DEFINE y == a * s
  <2>4. b * Ways(r) * s = w * y
    <3>1. w * a * 1 * s = w * (a * s)
      BY <1>3
    <3> QED
      BY <2>3, <3>1
  <2> HIDE DEF y
  <2>5. y \in PowersOfTwo
    BY <1>3 DEF y
  <2>6. w * blocks = 2^Log(w * blocks, w * y) * (w * y)
    <3>1. Log(w * blocks, w * y) > 0
      BY <1>2, <1>4, <2>1, <2>4
    <3>2. w \in Nat \ {0}
      BY <1>3
    <3> QED
      BY <1>2, <2>5, <3>1, <3>2, LogGivesBack
  <2> QED
    BY <1>2, <1>4, <2>1, <2>4, <2>6 DEF b, s
<1> QED
  BY <1>5, <1>6
=============================================================================
