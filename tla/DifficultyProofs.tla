-------------------------- MODULE DifficultyProofs --------------------------
(***************************************************************************)
(* Theorems about the proof-of-work target, for digits of any even base,   *)
(* hashes of any length and any range of exponents.                        *)
(*                                                                         *)
(* What the conversions compute is defined by recursion (Power, and value   *)
(* in SetBytes), so the first lemmas say how to reason about such a         *)
(* definition: a set that holds 0 and with each number the next one holds   *)
(* all (SetInduction), and a step function from any start defines a         *)
(* function on the naturals (RecursionOnNat).  Then division, powers, the   *)
(* number of digits, and the two conversions.                               *)
(***************************************************************************)
EXTENDS Difficulty, WellFoundedInduction, TLAPS

-----------------------------------------------------------------------------
(* Induction and recursion *)

LEMMA LeastNatural ==
  ASSUME NEW T, T \subseteq Nat, T # {}
  PROVE  \E x \in T : \A y \in T : x <= y
<1> DEFINE R == OpToRel(<, Nat)
<1>1. IsWellFoundedOn(R, Nat)
  BY NatLessThanWellFounded
<1>2. \A x, y \in Nat : <<y, x>> \in R <=> y < x
  BY DEF OpToRel
<1> HIDE DEF R
<1>3. \E x \in T : \A y \in T : ~(<<y, x>> \in R)
  BY <1>1, WFMin
<1>4. \A x, y \in T : ~(<<y, x>> \in R) => x <= y
  BY <1>2
<1> QED BY <1>3, <1>4

LEMMA SetInduction ==
  ASSUME NEW T, 0 \in T, \A n \in Nat : n \in T => n + 1 \in T
  PROVE  \A n \in Nat : n \in T
<1> DEFINE U == Nat \ T
<1> SUFFICES ASSUME U # {} PROVE FALSE
  OBVIOUS
<1>1. PICK x \in U : \A y \in U : x <= y
  BY LeastNatural
<1>2. x \in Nat /\ x # 0 /\ x - 1 \in Nat
  OBVIOUS
<1>3. x - 1 \in T
  BY <1>1, <1>2
<1> QED BY <1>2, <1>3

Prefix(f, n, S, start, step) ==
    /\ f \in [0..n -> S]
    /\ f[0] = start
    /\ \A k \in 0..(n - 1) : f[k + 1] = step[k][f[k]]

LEMMA PrefixExists ==
  ASSUME NEW S, NEW start \in S, NEW step \in [Nat -> [S -> S]]
  PROVE  \A n \in Nat : \E f : Prefix(f, n, S, start, step)
<1> DEFINE T == {n \in Nat : \E f : Prefix(f, n, S, start, step)}
<1>1. 0 \in T
  <2>1. Prefix([k \in 0..0 |-> start], 0, S, start, step)
    BY DEF Prefix
  <2> QED BY <2>1
<1>2. ASSUME NEW n \in Nat, n \in T PROVE n + 1 \in T
  <2>1. PICK f : Prefix(f, n, S, start, step)
    BY <1>2
  <2> DEFINE g == [k \in 0..(n + 1) |-> IF k <= n THEN f[k] ELSE step[n][f[n]]]
  <2>2. /\ f \in [0..n -> S]
        /\ f[0] = start
        /\ \A k \in 0..(n - 1) : f[k + 1] = step[k][f[k]]
    BY <2>1 DEF Prefix
  <2>3. g \in [0..(n + 1) -> S] /\ g[0] = start
    BY <2>2
  <2>4. ASSUME NEW k \in 0..n PROVE g[k + 1] = step[k][g[k]]
    <3>1. CASE k < n
      <4>1. g[k] = f[k] /\ g[k + 1] = f[k + 1]
        BY <3>1
      <4> QED BY <4>1, <3>1, <2>2
    <3>2. CASE k = n
      <4>1. g[k] = f[k] /\ g[k + 1] = step[n][f[n]]
        BY <3>2
      <4> QED BY <4>1, <3>2
    <3> QED BY <3>1, <3>2
  <2> HIDE DEF g
  <2>5. Prefix(g, n + 1, S, start, step)
    BY <2>3, <2>4 DEF Prefix
  <2> QED BY <2>5
<1> HIDE DEF T
<1>3. \A n \in Nat : n \in T
  BY <1>1, <1>2, SetInduction
<1> QED BY <1>3 DEF T

LEMMA PrefixUnique ==
  ASSUME NEW S, NEW start \in S, NEW step \in [Nat -> [S -> S]],
         NEW n \in Nat, NEW m \in Nat, n <= m,
         NEW f, Prefix(f, n, S, start, step),
         NEW g, Prefix(g, m, S, start, step)
  PROVE  f[n] = g[n]
<1> DEFINE T == {k \in Nat : k <= n => f[k] = g[k]}
<1>1. 0 \in T
  BY DEF Prefix
<1>2. ASSUME NEW k \in Nat, k \in T PROVE k + 1 \in T
  BY <1>2 DEF Prefix
<1> HIDE DEF T
<1>3. \A k \in Nat : k \in T
  BY <1>1, <1>2, SetInduction
<1> QED BY <1>3 DEF T

Iterates(f, S, start, step) ==
    /\ f \in [Nat -> S]
    /\ f[0] = start
    /\ \A k \in Nat : f[k + 1] = step[k][f[k]]

LEMMA RecursionOnNat ==
  ASSUME NEW S, NEW start \in S, NEW step \in [Nat -> [S -> S]]
  PROVE  \E f : Iterates(f, S, start, step)
<1> DEFINE pre(n) == CHOOSE f : Prefix(f, n, S, start, step)
           whole == [n \in Nat |-> pre(n)[n]]
<1>1. \A n \in Nat : Prefix(pre(n), n, S, start, step)
  BY PrefixExists
<1> HIDE DEF pre
<1>2. \A n \in Nat : pre(n)[n] \in S
  BY <1>1 DEF Prefix
<1>3. whole \in [Nat -> S] /\ whole[0] = start
  BY <1>1, <1>2 DEF Prefix
<1>4. ASSUME NEW k \in Nat PROVE whole[k + 1] = step[k][whole[k]]
  <2>1. Prefix(pre(k), k, S, start, step) /\ Prefix(pre(k + 1), k + 1, S, start, step)
    BY <1>1
  <2>2. pre(k + 1)[k + 1] = step[k][pre(k + 1)[k]]
    BY <2>1 DEF Prefix
  <2>3. pre(k + 1)[k] = pre(k)[k]
    BY <2>1, PrefixUnique
  <2> QED BY <2>2, <2>3
<1> HIDE DEF whole
<1> QED BY <1>3, <1>4 DEF Iterates

-----------------------------------------------------------------------------
(* Division *)

LEMMA DivBounds ==
  ASSUME NEW a \in Int, NEW d \in Nat \ {0}
  PROVE  a \div d \in Int /\ (a \div d) * d <= a /\ a < (a \div d) * d + d
OBVIOUS

LEMMA MulMonotone ==
  ASSUME NEW a \in Int, NEW b \in Int, NEW d \in Nat, a <= b
  PROVE  a * d <= b * d
OBVIOUS

LEMMA MulCancel ==
  ASSUME NEW a \in Int, NEW b \in Int, NEW d \in Nat \ {0}, a * d < b * d
  PROVE  a < b
OBVIOUS

LEMMA DivUnique ==
  ASSUME NEW a \in Int, NEW d \in Nat \ {0}, NEW q \in Int,
         q * d <= a, a < q * d + d
  PROVE  a \div d = q
<1> DEFINE r == a \div d
<1>1. r \in Int /\ r * d <= a /\ a < r * d + d
  BY DivBounds
<1> HIDE DEF r
<1>2. q * d < (r + 1) * d /\ r * d < (q + 1) * d
  BY <1>1
<1>3. q < r + 1 /\ r < q + 1
  BY <1>1, <1>2, MulCancel
<1> QED BY <1>1, <1>3 DEF r

LEMMA DivDiv ==
  ASSUME NEW a \in Int, NEW d \in Nat \ {0}, NEW e \in Nat \ {0}
  PROVE  (a \div d) \div e = a \div (d * e)
<1> DEFINE q == a \div d
           r == q \div e
<1>1. q \in Int /\ q * d <= a /\ a < q * d + d
  BY DivBounds
<1>2. r \in Int /\ r * e <= q /\ q < r * e + e
  BY <1>1, DivBounds
<1> HIDE DEF q, r
<1>3. (r * e) * d <= q * d
  BY <1>1, <1>2, MulMonotone
<1>4. (q + 1) * d <= (r * e + e) * d
  BY <1>1, <1>2, MulMonotone
<1>5. r * (d * e) <= a /\ a < r * (d * e) + d * e
  BY <1>1, <1>2, <1>3, <1>4
<1>6. d * e \in Nat \ {0}
  OBVIOUS
<1>7. a \div (d * e) = r
  BY <1>1, <1>2, <1>5, <1>6, DivUnique
<1> QED BY <1>7 DEF r, q

-----------------------------------------------------------------------------
(* Powers of the base *)

LEMMA PowerIsRecursive ==
  Power = [k \in Nat |-> IF k = 0 THEN 1 ELSE Power[k - 1] * Base]
<1> DEFINE step == [k \in Nat |-> [v \in Nat |-> v * Base]]
           Fits(f) == f = [k \in Nat |-> IF k = 0 THEN 1 ELSE f[k - 1] * Base]
<1>1. step \in [Nat -> [Nat -> Nat]]
  BY DifficultyAssumption
<1>2. \A k, v \in Nat : step[k][v] = v * Base
  OBVIOUS
<1> HIDE DEF step
<1>3. PICK f : Iterates(f, Nat, 1, step)
  BY <1>1, RecursionOnNat
<1>4. \A k \in Nat : f[k] = IF k = 0 THEN 1 ELSE f[k - 1] * Base
  <2> TAKE k \in Nat
  <2>1. CASE k = 0
    BY <2>1, <1>3 DEF Iterates
  <2>2. CASE k # 0
    <3>1. k - 1 \in Nat /\ (k - 1) + 1 = k
      BY <2>2
    <3>2. f[k] = step[k - 1][f[k - 1]]
      BY <3>1, <1>3 DEF Iterates
    <3> QED BY <3>1, <3>2, <2>2, <1>2, <1>3 DEF Iterates
  <2> QED BY <2>1, <2>2
<1>5. Fits(f)
  BY <1>3, <1>4 DEF Iterates
<1>6. Fits(CHOOSE g : Fits(g))
  BY <1>5
<1> QED BY <1>6 DEF Power

LEMMA PowerStep ==
  /\ Power[0] = 1
  /\ \A k \in Nat : Power[k + 1] = Power[k] * Base
<1>1. \A k \in Nat : Power[k] = IF k = 0 THEN 1 ELSE Power[k - 1] * Base
  <2> DEFINE P == Power
  <2>1. P = [k \in Nat |-> IF k = 0 THEN 1 ELSE P[k - 1] * Base]
    BY PowerIsRecursive
  <2> HIDE DEF P
  <2>2. \A k \in Nat : P[k] = IF k = 0 THEN 1 ELSE P[k - 1] * Base
    BY <2>1
  <2> QED BY <2>2 DEF P
<1>2. \A k \in Nat : k + 1 \in Nat /\ k + 1 # 0 /\ (k + 1) - 1 = k
  OBVIOUS
<1> QED BY <1>1, <1>2

LEMMA PowerTyped == \A k \in Nat : Power[k] \in Nat \ {0}
<1> DEFINE T == {k \in Nat : Power[k] \in Nat \ {0}}
<1>1. 0 \in T
  BY PowerStep
<1>2. ASSUME NEW k \in Nat, k \in T PROVE k + 1 \in T
  BY <1>2, PowerStep, DifficultyAssumption
<1> HIDE DEF T
<1>3. \A k \in Nat : k \in T
  BY <1>1, <1>2, SetInduction
<1> QED BY <1>3 DEF T

LEMMA PowerSum ==
  ASSUME NEW j \in Nat
  PROVE  \A k \in Nat : Power[j + k] = Power[j] * Power[k]
<1> DEFINE T == {k \in Nat : Power[j + k] = Power[j] * Power[k]}
<1>1. 0 \in T
  BY PowerStep, PowerTyped
<1>2. ASSUME NEW k \in Nat, k \in T PROVE k + 1 \in T
  <2>1. Power[j + k] = Power[j] * Power[k]
    BY <1>2
  <2>2. j + k \in Nat /\ j + (k + 1) = (j + k) + 1
    OBVIOUS
  <2>3. Power[j + (k + 1)] = (Power[j] * Power[k]) * Base
    BY <2>1, <2>2, PowerStep
  <2>4. Power[k + 1] = Power[k] * Base
    BY PowerStep
  <2>5. Power[j] * (Power[k] * Base) = (Power[j] * Power[k]) * Base
    BY PowerTyped, DifficultyAssumption
  <2> QED BY <2>3, <2>4, <2>5
<1> HIDE DEF T
<1>3. \A k \in Nat : k \in T
  BY <1>1, <1>2, SetInduction
<1> QED BY <1>3 DEF T

LEMMA PowerGrows ==
  ASSUME NEW j \in Nat, NEW k \in Nat, j <= k
  PROVE  Power[j] <= Power[k]
<1>1. k - j \in Nat /\ j + (k - j) = k
  OBVIOUS
<1>2. Power[k] = Power[j] * Power[k - j]
  BY <1>1, PowerSum
<1>3. Power[j] \in Nat /\ Power[k - j] \in Nat \ {0}
  BY <1>1, PowerTyped
<1> DEFINE a == Power[j]
           b == Power[k - j]
<1>4. a \in Nat /\ b \in Nat \ {0}
  BY <1>3
<1> HIDE DEF a, b
<1>5. a <= a * b
  BY <1>4
<1> QED BY <1>2, <1>5 DEF a, b

\* SignBit is half of the third power.
LEMMA SignBitHalves ==
  /\ SignBit \in Nat \ {0}
  /\ Power[3] = 2 * SignBit
  /\ SignBit = (SignBit \div Base) * Base
  /\ Power[2] <= SignBit
  /\ Power[3] = Power[2] * Base
  /\ Power[1] = Base
<1> DEFINE h == Base \div 2
<1>1. h \in Nat \ {0} /\ Base = 2 * h
  BY DifficultyAssumption
<1> HIDE DEF h
<1>2. /\ Power[0 + 1] = 1 * Base
      /\ Power[1 + 1] = Power[1] * Base
      /\ Power[2 + 1] = Power[2] * Base
  BY PowerStep
<1>3. Power[1] = Base /\ Power[2] = Base * Base /\ Power[3] = (Base * Base) * Base
  BY <1>2, DifficultyAssumption
<1>4. Power[3] = 2 * ((Base * Base) * h)
  BY <1>1, <1>3, DifficultyAssumption
<1>5. SignBit = (Base * Base) * h
  BY <1>1, <1>4, DifficultyAssumption DEF SignBit
<1>6. SignBit = (Base * h) * Base
  BY <1>1, <1>5, DifficultyAssumption
<1>7. SignBit \div Base = Base * h
  BY <1>1, <1>6, DivUnique, DifficultyAssumption
<1>8. Base * Base <= (Base * Base) * h
  BY <1>1, DifficultyAssumption
<1>9. (Base * Base) * h \in Nat \ {0}
  BY <1>1, DifficultyAssumption
<1> QED BY <1>3, <1>4, <1>5, <1>6, <1>7, <1>8, <1>9

-----------------------------------------------------------------------------
(* Digits and compact forms *)

\* A number below a power of the base has at most that many digits, and its
\* first digit is not zero.
LEMMA LengthFits ==
  ASSUME NEW n \in Int, NEW N \in 0..(HashDigits + MaxExponent), Abs(n) < Power[N]
  PROVE  /\ Length(n) \in 0..N
         /\ Abs(n) < Power[Length(n)]
         /\ Length(n) > 0 => Power[Length(n) - 1] <= Abs(n)
<1> DEFINE T == {k \in Nat : Abs(n) < Power[k]}
           Counts(k) == Abs(n) < Power[k] /\ (k > 0 => Abs(n) >= Power[k - 1])
<1>1. Abs(n) \in Nat
  BY DEF Abs
<1>2. N \in Nat /\ \A k \in 0..N : k \in Nat /\ k \in 0..(HashDigits + MaxExponent)
  BY DifficultyAssumption
<1>3. PICK x \in T : \A y \in T : x <= y
  BY <1>2, LeastNatural
<1>4. x \in 0..N
  BY <1>2, <1>3
<1>5. Counts(x)
  <2>1. ASSUME x > 0 PROVE Abs(n) >= Power[x - 1]
    <3>1. x - 1 \in Nat /\ x - 1 \notin T
      BY <2>1, <1>3
    <3> QED BY <3>1, <1>1, PowerTyped
  <2> QED BY <2>1, <1>3
<1>6. ASSUME NEW k \in Nat, Counts(k) PROVE k = x
  <2>1. x <= k
    BY <1>3, <1>6
  <2>2. ASSUME x < k PROVE FALSE
    <3>1. k - 1 \in Nat /\ x <= k - 1
      BY <2>2, <1>3
    <3>2. Power[x] <= Power[k - 1]
      BY <3>1, <1>3, PowerGrows
    <3>3. Abs(n) < Power[x] /\ Power[k - 1] <= Abs(n)
      BY <1>3, <1>6, <2>2, <1>1
    <3> QED BY <3>1, <3>2, <3>3, <1>1, <1>3, PowerTyped
  <2> QED BY <2>1, <2>2, <1>3
<1>7. Length(n) = x
  <2>1. x \in 0..(HashDigits + MaxExponent)
    BY <1>2, <1>4
  <2>2. \A k \in 0..(HashDigits + MaxExponent) : Counts(k) => k = x
    BY <1>6
  <2> QED BY <2>1, <2>2, <1>5 DEF Length
<1> QED BY <1>4, <1>5, <1>7, <1>1, PowerTyped

LEMMA ModIsRest ==
  ASSUME NEW a \in Int, NEW d \in Nat \ {0}
  PROVE  a % d = a - (a \div d) * d /\ a % d \in 0..(d - 1)
OBVIOUS

\* What packed Bits stand for.
LEMMA Unpack ==
  ASSUME NEW e \in Nat, NEW m \in 0..(SignBit - 1), NEW neg \in BOOLEAN
  PROVE  CompactToBig(Pack(e, m, neg)) = IF neg THEN -Scaled(m, e) ELSE Scaled(m, e)
<1> DEFINE c == Pack(e, m, neg)
           i == IF neg THEN 1 ELSE 0
<1>1. c = (2 * e + i) * SignBit + m /\ c \in Int
  BY SignBitHalves DEF Pack
<1>2. i \in {0, 1} /\ (i = 1 <=> neg)
  OBVIOUS
<1> HIDE DEF c, i
<1>3. c \div SignBit = 2 * e + i
  <2> DEFINE q == 2 * e + i
  <2>1. q \in Int /\ SignBit \in Nat \ {0}
    BY <1>2, SignBitHalves
  <2>2. c = q * SignBit + m
    BY <1>1
  <2> HIDE DEF q
  <2>3. q * SignBit <= c /\ c < q * SignBit + SignBit
    BY <2>1, <2>2, <1>1
  <2>4. c \div SignBit = q
    BY <2>1, <2>3, <1>1, DivUnique
  <2> QED BY <2>4 DEF q
<1>4. c % SignBit = m
  <2>1. c % SignBit = c - (c \div SignBit) * SignBit
    BY <1>1, SignBitHalves, ModIsRest
  <2>2. c % SignBit = c - (2 * e + i) * SignBit
    BY <2>1, <1>3
  <2>3. (2 * e + i) * SignBit \in Int
    BY <1>2, SignBitHalves
  <2> QED BY <2>2, <2>3, <1>1
<1>5. c \div Power[3] = e
  <2>1. e * Power[3] <= c /\ c < e * Power[3] + Power[3]
    BY <1>1, <1>2, SignBitHalves
  <2> QED BY <2>1, <1>1, SignBitHalves, DivUnique
<1>6. IsNegative(c) <=> neg
  BY <1>2, <1>3 DEF IsNegative
<1> QED BY <1>4, <1>5, <1>6 DEF CompactToBig, c

\* All Bits: a mantissa and an exponent that are in range.
LEMMA Unpacked ==
  ASSUME NEW c \in Compacts
  PROVE  \E m \in 0..(SignBit - 1), e \in 0..MaxExponent :
            CompactToBig(c) \in {Scaled(m, e), -Scaled(m, e)}
<1>1. c \in Int /\ 0 <= c /\ c < (MaxExponent + 1) * Power[3]
  BY SignBitHalves, DifficultyAssumption DEF Compacts
<1>2. c % SignBit \in 0..(SignBit - 1)
  BY <1>1, SignBitHalves, ModIsRest
<1>3. c \div Power[3] \in 0..MaxExponent
  <2> DEFINE q == c \div Power[3]
  <2>1. Power[3] \in Nat \ {0}
    BY SignBitHalves
  <2>2. q \in Int /\ q * Power[3] <= c /\ c < q * Power[3] + Power[3]
    BY <2>1, <1>1, DivBounds
  <2> HIDE DEF q
  <2>3. q * Power[3] < (MaxExponent + 1) * Power[3] /\ 0 * Power[3] < (q + 1) * Power[3]
    BY <2>1, <2>2, <1>1, DifficultyAssumption
  <2>4. q < MaxExponent + 1 /\ 0 < q + 1
    BY <2>1, <2>2, <2>3, MulCancel, DifficultyAssumption
  <2> QED BY <2>2, <2>4, DifficultyAssumption DEF q
<1> QED BY <1>2, <1>3 DEF CompactToBig

\* What a mantissa and an exponent stand for has at most exponent digits, and
\* is no more than the mantissa for small exponents.
LEMMA ScaledBounds ==
  ASSUME NEW m \in 0..(SignBit - 1), NEW e \in Nat
  PROVE  /\ Scaled(m, e) \in Nat
         /\ Scaled(m, e) < Power[e]
         /\ e <= 3 => Scaled(m, e) <= m
         /\ e >= 3 => Scaled(m, e) = m * Power[e - 3]
<1>1. m \in Nat /\ m < Power[3]
  BY SignBitHalves
<1>2. CASE e <= 3
  <2> DEFINE d == Power[3 - e]
             q == m \div d
  <2>1. 3 - e \in Nat /\ 3 = e + (3 - e)
    BY <1>2
  <2>2. d \in Nat \ {0} /\ Power[e] \in Nat \ {0}
    BY <2>1, PowerTyped
  <2>3. Power[3] = Power[e] * d
    BY <2>1, PowerSum
  <2>4. Scaled(m, e) = q
    BY <1>2 DEF Scaled
  <2>5. e = 3 => d = 1
    BY PowerStep
  <2> HIDE DEF d
  <2>6. q \in Int /\ q * d <= m /\ m < q * d + d
    BY <2>2, <1>1, DivBounds
  <2> HIDE DEF q
  <2>7. 0 * d < (q + 1) * d /\ q * d < Power[e] * d
    BY <2>2, <2>3, <2>6, <1>1
  <2>8. 0 < q + 1 /\ q < Power[e]
    BY <2>2, <2>6, <2>7, MulCancel
  <2>9. q <= q * d
    BY <2>2, <2>6, <2>8
  <2>10. e = 3 => q = m * 1
    BY <2>5, <2>6, <1>1
  <2>11. e >= 3 => e - 3 = 0
    BY <1>2
  <2>12. q <= m
    BY <2>6, <2>9, <2>2, <1>1
  <2> QED BY <2>4, <2>6, <2>8, <2>10, <2>11, <2>12, <1>2, PowerStep
<1>3. CASE e > 3
  <2> DEFINE d == Power[e - 3]
  <2>1. e - 3 \in Nat /\ e = 3 + (e - 3)
    BY <1>3
  <2>2. d \in Nat \ {0} /\ Power[e] = Power[3] * d
    BY <2>1, PowerTyped, PowerSum
  <2>3. Scaled(m, e) = m * d
    BY <1>3 DEF Scaled
  <2>4. Power[3] \in Nat
    BY SignBitHalves
  <2> HIDE DEF d
  <2>5. m * d \in Nat /\ m * d < Power[3] * d
    BY <2>2, <2>4, <1>1
  <2> QED BY <2>2, <2>3, <2>5, <1>3 DEF d
<1> QED BY <1>2, <1>3

\* The size of what BigToCompact keeps of n.
Kept(n) == IF Mantissa(n) < SignBit
           THEN Scaled(Mantissa(n), Length(n))
           ELSE Scaled(Mantissa(n) \div Base, Length(n) + 1)

\* The exponent of the encoding: one more if the mantissa reaches the sign bit.
KeptExponent(n) == IF Mantissa(n) < SignBit THEN Length(n) ELSE Length(n) + 1

\* The encoding leaves the sign bit to the sign.
LEMMA Encoded ==
  ASSUME NEW n \in Int \ {0}, Length(n) \in Nat, Mantissa(n) \in 0..(Power[3] - 1)
  PROVE  \E m \in 0..(SignBit - 1) :
            /\ BigToCompact(n) = Pack(KeptExponent(n), m, n < 0)
            /\ Kept(n) = Scaled(m, KeptExponent(n))
<1> DEFINE M == Mantissa(n)
<1>1. M \in Nat /\ M < 2 * SignBit /\ SignBit \in Nat \ {0}
  BY SignBitHalves
<1> HIDE DEF M
<1>2. CASE M < SignBit
  <2>1. M \div SignBit = 0
    BY <1>1, <1>2, DivUnique
  <2>2. BigToCompact(n) = Pack(KeptExponent(n), M, n < 0)
    BY <2>1, <1>2 DEF BigToCompact, KeptExponent, M
  <2>3. M \in 0..(SignBit - 1) /\ Kept(n) = Scaled(M, KeptExponent(n))
    BY <1>1, <1>2 DEF Kept, KeptExponent, M
  <2> QED BY <2>2, <2>3
<1>3. CASE ~(M < SignBit)
  <2> DEFINE q == M \div Base
  <2>1. M \div SignBit = 1
    BY <1>1, <1>3, DivUnique
  <2>2. BigToCompact(n) = Pack(KeptExponent(n), q, n < 0)
    BY <2>1, <1>3 DEF BigToCompact, KeptExponent, M
  <2>3. Kept(n) = Scaled(q, KeptExponent(n))
    BY <1>3 DEF Kept, KeptExponent, M
  <2>4. q \in Int /\ q * Base <= M /\ M < q * Base + Base
    BY <1>1, DivBounds, DifficultyAssumption
  <2> HIDE DEF q
  <2>5. 0 * Base < (q + 1) * Base /\ q * Base < Power[2] * Base
    BY <2>4, <1>1, SignBitHalves, DifficultyAssumption
  <2>6. 0 < q + 1 /\ q < Power[2]
    <3>1. Power[2] \in Int
      BY PowerTyped
    <3> QED BY <3>1, <2>4, <2>5, MulCancel, DifficultyAssumption
  <2>7. q \in 0..(SignBit - 1)
    BY <2>4, <2>6, SignBitHalves, PowerTyped
  <2> QED BY <2>2, <2>3, <2>7
<1> QED BY <1>2, <1>3

LEMMA EncodeDecode ==
  ASSUME NEW n \in Int \ {0}, Length(n) \in Nat, Mantissa(n) \in 0..(Power[3] - 1)
  PROVE  CompactToBig(BigToCompact(n)) = IF n < 0 THEN -Kept(n) ELSE Kept(n)
<1> DEFINE neg == n < 0
           e == KeptExponent(n)
<1>1. PICK m \in 0..(SignBit - 1) :
         BigToCompact(n) = Pack(e, m, neg) /\ Kept(n) = Scaled(m, e)
  BY Encoded
<1>2. neg \in BOOLEAN /\ e \in Nat
  BY DEF KeptExponent
<1> HIDE DEF neg, e
<1>3. CompactToBig(Pack(e, m, neg)) = IF neg THEN -Scaled(m, e) ELSE Scaled(m, e)
  BY <1>2, Unpack
<1> QED BY <1>1, <1>3 DEF neg

\* Bits whose exponent is in range are.
LEMMA EncodedFits ==
  ASSUME NEW n \in Int \ {0}, Length(n) \in Nat, Mantissa(n) \in 0..(Power[3] - 1),
         KeptExponent(n) <= MaxExponent
  PROVE  BigToCompact(n) \in Compacts
<1> DEFINE neg == n < 0
           e == KeptExponent(n)
<1>1. PICK m \in 0..(SignBit - 1) : BigToCompact(n) = Pack(e, m, neg)
  BY Encoded
<1>2. e \in Nat /\ e <= MaxExponent
  BY DEF KeptExponent
<1> DEFINE i == IF neg THEN SignBit ELSE 0
           p == Power[3]
<1>3. Pack(e, m, neg) = e * p + m + i /\ i \in Nat /\ m + i < p /\ p \in Nat /\ m \in Nat
  BY SignBitHalves DEF Pack
<1> HIDE DEF neg, e, i, p
<1>4. (e + 1) * p <= (MaxExponent + 1) * p
  BY <1>2, <1>3, MulMonotone, DifficultyAssumption
<1>5. e * p + m + i \in 0..((MaxExponent + 1) * p - 1)
  BY <1>2, <1>3, <1>4, DifficultyAssumption
<1> QED BY <1>1, <1>3, <1>5 DEF Compacts, p

LEMMA DivMul ==
  ASSUME NEW a \in Int, NEW d \in Nat \ {0}
  PROVE  (a * d) \div d = a
BY DivUnique

\* A number with at most three digits is kept as it is, or but for its third
\* digit; of a longer one three or two digits are kept.
LEMMA KeptDigits ==
  ASSUME NEW n \in Nat \ {0}, NEW N \in 0..(HashDigits + MaxExponent), n < Power[N]
  PROVE  /\ Mantissa(n) \in 0..(Power[3] - 1)
         /\ Length(n) \in 1..N
         /\ Length(n) < 3 => Kept(n) = n
         /\ Length(n) >= 3 =>
              /\ Mantissa(n) = n \div Power[Length(n) - 3]
              /\ Kept(n) = IF Mantissa(n) < SignBit
                           THEN Mantissa(n) * Power[Length(n) - 3]
                           ELSE (Mantissa(n) \div Base) * Power[Length(n) - 2]
<1> DEFINE L == Length(n)
           M == Mantissa(n)
<1>1. Abs(n) = n /\ n \in Int
  BY DEF Abs
<1>2. L \in 1..N /\ n < Power[L] /\ Power[L - 1] <= n
  <2>1. /\ L \in 0..N
        /\ n < Power[L]
        /\ L > 0 => Power[L - 1] <= n
    BY <1>1, LengthFits
  <2>2. L # 0
    BY <2>1, PowerStep
  <2> QED BY <2>1, <2>2
<1> HIDE DEF L
<1>3. CASE L <= 3
  <2> DEFINE d == Power[3 - L]
  <2>1. M = n * d
    BY <1>1, <1>3 DEF Mantissa, L
  <2>2. 3 - L \in Nat /\ L \in Nat /\ L + (3 - L) = 3
    BY <1>2, <1>3
  <2>3. d \in Nat \ {0} /\ Power[L] \in Nat /\ Power[3] = Power[L] * d
    BY <2>2, PowerTyped, PowerSum
  <2> HIDE DEF d, M
  <2>4. n * d < Power[L] * d
    BY <1>2, <2>3
  <2>5. M \in 0..(Power[3] - 1)
    BY <2>1, <2>3, <2>4
  <2>6. CASE L < 3
    <3>1. ASSUME M < SignBit PROVE Kept(n) = n
      <4>1. Kept(n) = M \div d
        BY <3>1, <1>3 DEF Kept, Scaled, L, M, d
      <4> QED BY <4>1, <2>1, <2>3, DivMul
    <3>2. ASSUME ~(M < SignBit) PROVE Kept(n) = n
      <4> DEFINE f == Power[2 - L]
      <4>1. Kept(n) = Scaled(M \div Base, L + 1)
        BY <3>2 DEF Kept, L, M
      <4>2. L + 1 <= 3 /\ 3 - (L + 1) = 2 - L /\ 2 - L \in Nat /\ (2 - L) + 1 = 3 - L
        BY <1>2, <2>6
      <4>3. Kept(n) = (M \div Base) \div f
        BY <4>1, <4>2 DEF Scaled
      <4>4. f \in Nat \ {0} /\ d = f * Base
        BY <4>2, PowerTyped, PowerStep DEF d
      <4> HIDE DEF f
      <4>5. d = Base * f
        BY <4>4, DifficultyAssumption
      <4>6. (M \div Base) \div f = M \div d
        <5>1. M \in Int
          BY <2>5
        <5>2. (M \div Base) \div f = M \div (Base * f)
          BY <5>1, <4>4, DivDiv, DifficultyAssumption
        <5> QED BY <5>2, <4>5
      <4> QED BY <4>3, <4>6, <2>1, <2>3, DivMul
    <3> QED BY <3>1, <3>2, <2>5, <2>6, <1>2 DEF L, M
  <2>7. CASE L = 3
    <3>1. 3 - L = 0 /\ L - 3 = 0 /\ L - 2 = 1 /\ L + 1 > 3 /\ (L + 1) - 3 = 1
      BY <2>7
    <3>2. d = 1 /\ Power[L - 3] = 1
      BY <3>1, PowerStep DEF d
    <3>3. M = n /\ n \div Power[L - 3] = n
      BY <2>1, <3>2
    <3>4. M < SignBit => Kept(n) = M * Power[L - 3]
      <4>1. M < SignBit => Kept(n) = M \div d
        BY <1>3 DEF Kept, Scaled, L, M, d
      <4> QED BY <4>1, <3>2, <3>3
    <3>5. ~(M < SignBit) => Kept(n) = (M \div Base) * Power[L - 2]
      BY <3>1 DEF Kept, Scaled, L, M
    <3> QED BY <3>3, <3>4, <3>5, <2>5, <2>7, <1>2 DEF L, M
  <2> QED BY <2>6, <2>7, <1>2, <1>3
<1>4. CASE L > 3
  <2> DEFINE d == Power[L - 3]
             q == n \div d
  <2>1. L - 3 \in Nat /\ L \in Nat /\ L = 3 + (L - 3)
    BY <1>2, <1>4
  <2>2. d \in Nat \ {0} /\ Power[L] = Power[3] * d
    BY <2>1, PowerTyped, PowerSum
  <2> HIDE DEF d
  <2>3. q \in Int /\ q * d <= n /\ n < q * d + d
    BY <2>2, DivBounds
  <2> HIDE DEF q
  <2>4. 0 * d < (q + 1) * d /\ q * d < Power[3] * d
    <3>1. n < Power[3] * d /\ Power[3] * d \in Nat /\ q * d \in Int
      BY <1>2, <2>2, <2>3, SignBitHalves
    <3>2. (q + 1) * d = q * d + d
      BY <2>2, <2>3
    <3> QED BY <2>2, <2>3, <3>1, <3>2
  <2>5. 0 < q + 1 /\ q < Power[3]
    BY <2>2, <2>3, <2>4, MulCancel, SignBitHalves
  <2>6. M = q
    <3>1. M = Abs(q)
      BY <1>4, <1>2 DEF Mantissa, L, M, d, q
    <3> QED BY <3>1, <2>3, <2>5 DEF Abs
  <2> HIDE DEF M
  <2>7. Kept(n) = IF M < SignBit THEN M * d ELSE (M \div Base) * Power[L - 2]
    <3>1. ~(L <= 3) /\ ~(L + 1 <= 3) /\ (L + 1) - 3 = L - 2
      BY <1>4, <1>2
    <3> QED BY <3>1 DEF Kept, Scaled, L, M, d
  <2>8. M \in 0..(Power[3] - 1)
    BY <2>3, <2>5, <2>6, SignBitHalves
  <2> QED BY <2>6, <2>7, <2>8, <1>2, <1>4 DEF L, M, d, q
<1> QED BY <1>2, <1>3, <1>4

LEMMA FloorIsGreatest ==
  ASSUME NEW n \in Int, NEW u \in Int, NEW d \in Nat \ {0}, u * d <= n
  PROVE  u * d <= (n \div d) * d
<1> DEFINE q == n \div d
<1>1. q \in Int /\ n < q * d + d
  BY DivBounds
<1> HIDE DEF q
<1>2. u * d < (q + 1) * d
  BY <1>1
<1>3. u < q + 1
  BY <1>1, <1>2, MulCancel
<1>4. u * d <= q * d
  BY <1>1, <1>3, MulMonotone
<1> QED BY <1>4 DEF q

\* A mantissa and an exponent high enough stand for a multiple of a power.
LEMMA ScaledIsMultiple ==
  ASSUME NEW m \in 0..(SignBit - 1), NEW e \in Nat, NEW k \in Nat, e >= k + 3
  PROVE  \E u \in Nat : Scaled(m, e) = u * Power[k]
<1>1. Scaled(m, e) = m * Power[e - 3]
  BY ScaledBounds
<1>2. e - 3 - k \in Nat /\ e - 3 = (e - 3 - k) + k
  OBVIOUS
<1> DEFINE a == Power[e - 3 - k]
           b == Power[k]
<1>3. Power[e - 3] = a * b /\ a \in Nat /\ b \in Nat
  BY <1>2, PowerSum, PowerTyped
<1>4. m \in Nat
  BY SignBitHalves
<1> HIDE DEF a, b
<1>5. m * (a * b) = (m * a) * b /\ m * a \in Nat
  BY <1>3, <1>4
<1> QED BY <1>1, <1>3, <1>5 DEF b

\* What is kept is the greatest multiple of a power that is not above n, and
\* whatever is not such a multiple is smaller than the first kept digits.
LEMMA KeptRoundsDown ==
  ASSUME NEW n \in Nat \ {0}, NEW N \in 0..(HashDigits + MaxExponent), n < Power[N],
         NEW m \in 0..(SignBit - 1), NEW e \in Nat
  PROVE  /\ Kept(n) \in Nat
         /\ Kept(n) <= n
         /\ Scaled(m, e) <= n => Scaled(m, e) <= Kept(n)
<1> DEFINE L == Length(n)
           M == Mantissa(n)
           t == Scaled(m, e)
<1>1. /\ M \in 0..(Power[3] - 1)
      /\ L \in 1..N
      /\ L < 3 => Kept(n) = n
      /\ L >= 3 => /\ M = n \div Power[L - 3]
                   /\ Kept(n) = IF M < SignBit THEN M * Power[L - 3]
                                ELSE (M \div Base) * Power[L - 2]
  BY KeptDigits
<1>2. t \in Nat /\ t < Power[e] /\ (e <= 3 => t <= m)
  BY ScaledBounds
<1>3. Power[L - 1] <= n
  <2>1. Abs(n) = n /\ n \in Int
    BY DEF Abs
  <2>2. L > 0 => Power[L - 1] <= n
    BY <2>1, LengthFits
  <2> QED BY <2>2, <1>1
<1>4. \A k \in Nat : e >= k + 3 => \E u \in Nat : t = u * Power[k]
  BY ScaledIsMultiple
<1>5. \A k \in Nat : k < 3 \/ k - 3 \in Nat
  OBVIOUS
<1>6. e > 3 => t = m * Power[e - 3]
  BY ScaledBounds
<1>7. M \in Nat /\ L \in Nat /\ m \in Nat
  BY <1>1, SignBitHalves
<1> HIDE DEF L, M, t
<1>8. CASE L < 3
  BY <1>1, <1>2, <1>8 DEF t
<1>9. CASE L >= 3 /\ M < SignBit
  <2> DEFINE d == Power[L - 3]
  <2>1. L - 3 \in Nat /\ L - 1 \in Nat /\ L - 1 = 2 + (L - 3)
    BY <1>7, <1>9
  <2>2. d \in Nat \ {0} /\ Power[L - 1] = Power[2] * d
    BY <2>1, PowerTyped, PowerSum
  <2>3. Kept(n) = M * d /\ M = n \div d
    BY <1>1, <1>9
  <2>4. e >= L => \E u \in Nat : t = u * d
    BY <2>1, <1>4, <1>7
  <2> HIDE DEF d
  <2>5. M * d <= n /\ n < M * d + d
    BY <2>2, <2>3, DivBounds
  <2>6. ASSUME t <= n, e >= L PROVE t <= Kept(n)
    BY <2>2, <2>3, <2>4, <2>6, FloorIsGreatest
  <2>7. ASSUME e < L PROVE t <= Kept(n)
    <3>1. Power[e] <= Power[L - 1]
      <4>1. e <= L - 1
        BY <1>7, <2>7
      <4> QED BY <4>1, <2>1, PowerGrows
    <3>2. Power[2] \in Int /\ Power[2] * d < (M + 1) * d
      BY <1>3, <1>7, <2>2, <2>5, PowerTyped
    <3>3. Power[2] < M + 1
      BY <3>2, <1>7, <2>2, MulCancel
    <3>4. Power[2] * d <= M * d
      BY <3>2, <3>3, <1>7, <2>2, MulMonotone
    <3>5. Power[e] \in Nat /\ Power[2] * d \in Nat /\ M * d \in Nat
      BY <3>2, <1>7, <2>2, PowerTyped
    <3> QED BY <3>1, <3>4, <3>5, <1>2, <2>2, <2>3
  <2> QED BY <2>2, <2>3, <2>5, <2>6, <2>7, <1>7 DEF t
<1>10. CASE L >= 3 /\ ~(M < SignBit)
  <2> DEFINE d == Power[L - 3]
             f == Power[L - 2]
             q == M \div Base
  <2>1. L - 3 \in Nat /\ L - 2 \in Nat /\ L - 2 = (L - 3) + 1
    BY <1>7, <1>10
  <2>2. d \in Nat \ {0} /\ f \in Nat \ {0} /\ f = d * Base
    BY <2>1, PowerTyped, PowerStep
  <2>3. Kept(n) = q * f /\ M = n \div d
    BY <1>1, <1>10
  <2>4. e >= L + 1 => \E u \in Nat : t = u * f
    BY <2>1, <1>4, <1>7
  <2> HIDE DEF d, f
  <2>5. q = n \div f
    <3>1. n \in Int /\ Base \in Nat \ {0}
      BY DifficultyAssumption
    <3>2. (n \div d) \div Base = n \div (d * Base)
      BY <3>1, <2>2, DivDiv
    <3> QED BY <3>2, <2>2, <2>3
  <2> HIDE DEF q
  <2>6. q \in Int /\ q * f <= n
    <3>1. n \div f \in Int /\ (n \div f) * f <= n
      BY <2>2, DivBounds
    <3> QED BY <3>1, <2>5
  <2>7. SignBit * d <= q * f
    <3> DEFINE h == SignBit \div Base
    <3>1. h \in Int /\ q \in Int /\ M < q * Base + Base
      BY <1>7, SignBitHalves, DivBounds, DifficultyAssumption DEF q
    <3>2. SignBit = h * Base /\ SignBit <= M
      BY <1>10, <1>7, SignBitHalves
    <3> HIDE DEF h
    <3>3. h * Base < (q + 1) * Base
      BY <3>1, <3>2, <1>7, DifficultyAssumption
    <3>4. h < q + 1
      BY <3>1, <3>3, MulCancel, DifficultyAssumption
    <3>5. h * f <= q * f
      BY <3>1, <3>4, <2>2, MulMonotone
    <3>6. h * f = (h * Base) * d
      BY <3>1, <2>2, DifficultyAssumption
    <3> QED BY <3>2, <3>5, <3>6
  <2>8. ASSUME t <= n, e >= L + 1 PROVE t <= Kept(n)
    BY <2>2, <2>3, <2>4, <2>5, <2>8, FloorIsGreatest
  <2>9. ASSUME e <= L PROVE t <= Kept(n)
    <3>1. t <= SignBit * d
      <4>1. CASE e <= 3
        <5>1. t <= SignBit
          BY <4>1, <1>2, <1>7, SignBitHalves
        <5>2. SignBit <= SignBit * d
          BY <2>2, SignBitHalves
        <5> QED BY <5>1, <5>2, <1>2, <2>2, SignBitHalves
      <4>2. CASE e > 3
        <5> DEFINE g == Power[e - 3]
        <5>1. e - 3 \in Nat /\ e - 3 <= L - 3
          BY <4>2, <2>9, <1>7
        <5>2. g \in Nat /\ g <= d
          BY <5>1, <2>1, PowerTyped, PowerGrows DEF d
        <5>3. t = m * g
          BY <4>2, <1>6
        <5> HIDE DEF g
        <5>4. m * g <= SignBit * g /\ SignBit * g <= SignBit * d
          BY <5>2, <1>7, <2>2, SignBitHalves
        <5> QED BY <5>2, <5>3, <5>4, <1>7, <2>2, SignBitHalves
      <4> QED BY <4>1, <4>2
    <3> QED BY <3>1, <2>3, <2>7, <2>2, <2>6, <1>2, SignBitHalves
  <2>10. q * f \in Nat
    BY <2>2, <2>6, <2>7, SignBitHalves
  <2> QED BY <2>3, <2>6, <2>8, <2>9, <2>10, <1>7 DEF t
<1> QED BY <1>7, <1>8, <1>9, <1>10

\* Zero has no digits.
LEMMA ZeroIsKept == BigToCompact(0) = 0 /\ CompactToBig(0) = 0
<1>1. Pack(0, 0, FALSE) = 0
  BY SignBitHalves DEF Pack
<1>2. 0 \in 0..(SignBit - 1) /\ 0 \in Nat /\ FALSE \in BOOLEAN
  BY SignBitHalves
<1>3. Scaled(0, 0) = 0
  <2>1. Scaled(0, 0) \in Nat /\ Scaled(0, 0) < Power[0]
    BY <1>2, ScaledBounds
  <2> QED BY <2>1, PowerStep
<1>4. CompactToBig(Pack(0, 0, FALSE)) = Scaled(0, 0)
  BY <1>2, Unpack
<1> QED BY <1>1, <1>3, <1>4 DEF BigToCompact

\* Encoding a natural number that is not too long, and decoding it again.
LEMMA RoundTrip ==
  ASSUME NEW n \in Nat, NEW N \in 0..(HashDigits + MaxExponent), n < Power[N],
         NEW m \in 0..(SignBit - 1), NEW e \in Nat
  PROVE  LET kept == CompactToBig(BigToCompact(n))
         IN kept \in Nat /\ kept <= n /\ (Scaled(m, e) <= n => Scaled(m, e) <= kept)
<1>1. CASE n = 0
  BY <1>1, ZeroIsKept
<1>2. CASE n # 0
  <2>1. Mantissa(n) \in 0..(Power[3] - 1) /\ Length(n) \in 1..N
    BY <1>2, KeptDigits
  <2>2. n \in Int \ {0} /\ Length(n) \in Nat /\ ~(n < 0)
    BY <1>2, <2>1
  <2>3. CompactToBig(BigToCompact(n)) = Kept(n)
    BY <2>1, <2>2, EncodeDecode
  <2>4. /\ Kept(n) \in Nat
        /\ Kept(n) <= n
        /\ Scaled(m, e) <= n => Scaled(m, e) <= Kept(n)
    BY <1>2, KeptRoundsDown
  <2> QED BY <2>3, <2>4
<1> QED BY <1>1, <1>2

\* A target loses nothing, so that a negative one is rounded the same way.
LEMMA MantissaOfTarget ==
  ASSUME NEW m \in 0..(SignBit - 1), NEW e \in 0..MaxExponent, Scaled(m, e) # 0
  PROVE  LET a == Scaled(m, e)
         IN /\ Length(-a) = Length(a)
            /\ Mantissa(-a) = Mantissa(a)
            /\ Length(a) \in 1..e
            /\ Length(a) = e => Mantissa(a) <= m
<1> DEFINE a == Scaled(m, e)
           L == Length(a)
<1>1. e \in Nat /\ e \in 0..(HashDigits + MaxExponent) /\ m \in Nat
  BY DifficultyAssumption, SignBitHalves
<1>2. a \in Nat \ {0} /\ a < Power[e]
  BY <1>1, ScaledBounds
<1>3. \A k \in Nat : e >= k + 3 => \E u \in Nat : a = u * Power[k]
  BY <1>1, ScaledIsMultiple
<1>4. e >= 3 => a = m * Power[e - 3]
  BY <1>1, ScaledBounds
<1>5. e <= 3 => a = m \div Power[3 - e]
  BY DEF Scaled
<1> SUFFICES /\ Length(-a) = L
             /\ Mantissa(-a) = Mantissa(a)
             /\ L \in 1..e
             /\ L = e => Mantissa(a) <= m
  OBVIOUS
<1> HIDE DEF a
<1>6. Abs(-a) = a /\ Abs(a) = a
  BY <1>2 DEF Abs
<1>7. Length(-a) = L
  BY <1>6 DEF Length
<1>8. L \in 1..e /\ Power[L - 1] <= a
  <2>1. L \in 0..e /\ a < Power[L] /\ (L > 0 => Power[L - 1] <= a)
    BY <1>1, <1>2, <1>6, LengthFits
  <2>2. L # 0
    BY <2>1, <1>2, PowerStep
  <2> QED BY <2>1, <2>2
<1> HIDE DEF L
<1>9. L \in Nat
  BY <1>8, <1>1
<1>10. CASE L <= 3
  <2> DEFINE d == Power[3 - L]
  <2>1. Mantissa(-a) = a * d /\ Mantissa(a) = a * d
    BY <1>6, <1>7, <1>10 DEF Mantissa, L
  <2>2. ASSUME L = e PROVE a * d <= m
    <3>1. d \in Nat \ {0}
      BY <1>9, <1>10, PowerTyped
    <3>2. a = m \div d
      BY <1>5, <1>10, <2>2
    <3> HIDE DEF d
    <3> QED BY <3>1, <3>2, <1>1, DivBounds
  <2> QED BY <2>1, <2>2, <1>7, <1>8
<1>11. CASE L > 3
  <2> DEFINE d == Power[L - 3]
  <2>1. L - 3 \in Nat /\ e >= (L - 3) + 3
    BY <1>1, <1>8, <1>9, <1>11
  <2>2. PICK u \in Nat : a = u * d
    BY <2>1, <1>3
  <2>3. d \in Nat \ {0}
    BY <2>1, PowerTyped
  <2>4. Mantissa(-a) = Abs((-a) \div d) /\ Mantissa(a) = Abs(a \div d)
    BY <1>7, <1>11, <1>9 DEF Mantissa, L
  <2>5. L = e => a = m * d
    BY <1>4, <1>11, <1>9
  <2> HIDE DEF d
  <2>6. -a = (-u) * d /\ -u \in Int
    BY <2>2, <2>3
  <2>7. a \div d = u /\ (-a) \div d = -u
    <3>1. (u * d) \div d = u
      BY <2>3, DivMul
    <3>2. ((-u) * d) \div d = -u
      BY <2>3, <2>6, DivMul
    <3> QED BY <3>1, <3>2, <2>2, <2>6
  <2>8. Abs(u) = u /\ Abs(-u) = u
    BY DEF Abs
  <2>9. L = e => u = m
    <3>1. (m * d) \div d = m
      BY <2>3, <1>1, DivMul
    <3> QED BY <3>1, <2>5, <2>7
  <2> QED BY <2>4, <2>7, <2>8, <2>9, <1>7, <1>8, <1>1
<1> QED BY <1>9, <1>10, <1>11

LEMMA TargetsComeBack ==
  ASSUME NEW c \in Compacts
  PROVE  CompactToBig(BigToCompact(CompactToBig(c))) = CompactToBig(c)
<1>1. PICK m \in 0..(SignBit - 1), e \in 0..MaxExponent :
         CompactToBig(c) \in {Scaled(m, e), -Scaled(m, e)}
  BY Unpacked
<1> DEFINE a == Scaled(m, e)
<1>2. e \in Nat /\ e \in 0..(HashDigits + MaxExponent)
  BY DifficultyAssumption
<1>3. a \in Nat /\ a < Power[e]
  BY <1>2, ScaledBounds
<1>4. CompactToBig(BigToCompact(a)) = a
  <2>1. LET kept == CompactToBig(BigToCompact(a))
        IN kept \in Nat /\ kept <= a /\ (a <= a => a <= kept)
    BY <1>2, <1>3, RoundTrip
  <2> QED BY <2>1, <1>3
<1>5. CompactToBig(BigToCompact(-a)) = -a
  <2>1. CASE a = 0
    <3>1. a \in Int
      BY <1>3
    <3>2. \A x \in Int : x <= 0 /\ 0 <= x => -x = x
      OBVIOUS
    <3>3. a <= 0 /\ 0 <= a
      BY <2>1
    <3> HIDE DEF a
    <3>4. -a = a
      BY <3>1, <3>2, <3>3
    <3> QED BY <3>4, <1>4
  <2>2. CASE a # 0
    <3>1. /\ Length(-a) = Length(a)
          /\ Mantissa(-a) = Mantissa(a)
          /\ Length(a) \in 1..e
      BY <2>2, MantissaOfTarget
    <3>2. Mantissa(a) \in 0..(Power[3] - 1)
      BY <2>2, <1>2, <1>3, KeptDigits
    <3>3. Kept(-a) = Kept(a)
      BY <3>1 DEF Kept
    <3>4. a \in Int \ {0} /\ -a \in Int \ {0} /\ ~(a < 0) /\ -a < 0 /\ Length(a) \in Nat
      BY <2>2, <1>3, <3>1, <1>2
    <3> HIDE DEF a
    <3>5. CompactToBig(BigToCompact(a)) = Kept(a)
      BY <3>2, <3>4, EncodeDecode
    <3>6. CompactToBig(BigToCompact(-a)) = -Kept(-a)
      <4> DEFINE b == -a
      <4>1. b \in Int \ {0} /\ b < 0 /\ Length(b) \in Nat /\ Mantissa(b) \in 0..(Power[3] - 1)
        BY <3>1, <3>2, <3>4
      <4> HIDE DEF b
      <4>2. CompactToBig(BigToCompact(b)) = -Kept(b)
        BY <4>1, EncodeDecode
      <4> QED BY <4>2 DEF b
    <3> QED BY <3>3, <3>5, <3>6, <1>4
  <2> QED BY <2>1, <2>2
<1> QED BY <1>1, <1>4, <1>5


\* A target has room for its exponent: it grows by one only if it is below the
\* one the target was decoded from.
LEMMA TargetFits ==
  ASSUME NEW c \in Compacts
  PROVE  BigToCompact(CompactToBig(c)) \in Compacts
<1>1. PICK m \in 0..(SignBit - 1), e \in 0..MaxExponent :
         CompactToBig(c) \in {Scaled(m, e), -Scaled(m, e)}
  BY Unpacked
<1> DEFINE a == Scaled(m, e)
           b == -a
           t == CompactToBig(c)
<1>2. /\ e \in Nat /\ e \in 0..(HashDigits + MaxExponent)
      /\ m < SignBit /\ SignBit \in Nat /\ m \in Int
      /\ MaxExponent \in Nat
  BY DifficultyAssumption, SignBitHalves
<1>3. a \in Nat /\ a < Power[e]
  BY <1>2, ScaledBounds
<1>4. CASE t = 0
  <2>1. 0 \in Compacts
    <3>1. (MaxExponent + 1) * Power[3] \in Nat \ {0}
      BY SignBitHalves, DifficultyAssumption
    <3> QED BY <3>1 DEF Compacts
  <2> QED BY <1>4, <2>1, ZeroIsKept
<1>5. CASE t # 0
  <2>1. t \in {a, b} /\ a # 0
    <3>1. ASSUME a = 0 PROVE b = 0
      <4>1. \A x \in Int : x <= 0 /\ 0 <= x => -x = x
        OBVIOUS
      <4>2. a <= 0 /\ 0 <= a /\ a \in Int
        BY <3>1
      <4> HIDE DEF a
      <4> QED BY <3>1, <4>1, <4>2
    <3> HIDE DEF a, b
    <3> QED BY <1>1, <1>5, <3>1 DEF a, b
  <2>2. /\ Length(b) = Length(a)
        /\ Mantissa(b) = Mantissa(a)
        /\ Length(a) \in 1..e
        /\ Length(a) = e => Mantissa(a) <= m
    BY <2>1, MantissaOfTarget
  <2>3. Mantissa(a) \in 0..(Power[3] - 1)
    BY <2>1, <1>2, <1>3, KeptDigits
  <2>4. a \in Int \ {0} /\ b \in Int \ {0}
    <3> HIDE DEF a
    <3> QED BY <2>1, <1>3
  <2> HIDE DEF a, b, t
  <2>5. KeptExponent(a) <= e /\ KeptExponent(b) = KeptExponent(a)
    BY <2>2, <2>3, <1>2, SignBitHalves DEF KeptExponent
  <2>6. BigToCompact(a) \in Compacts
    BY <2>2, <2>3, <2>4, <2>5, <1>2, EncodedFits DEF KeptExponent
  <2>7. BigToCompact(b) \in Compacts
    BY <2>2, <2>3, <2>4, <2>5, <1>2, EncodedFits DEF KeptExponent
  <2> QED BY <2>1, <2>6, <2>7 DEF t
<1> QED BY <1>4, <1>5

-----------------------------------------------------------------------------
(* The value of a hash *)

Digits == 0..(Base - 1)

LEMMA SetBytesRecursive ==
  ASSUME NEW h \in Seq(Digits)
  PROVE  \E v : /\ SetBytes(h) = v[Len(h)]
                /\ v[0] = 0
                /\ \A k \in 1..Len(h) : v[k] = v[k - 1] * Base + h[k]
<1> DEFINE n == Len(h)
           Fits(v) == v = [k \in 0..n |-> IF k = 0 THEN 0 ELSE v[k - 1] * Base + h[k]]
           step == [k \in Nat |-> [v \in Nat |->
                       IF k + 1 \in 1..n THEN v * Base + h[k + 1] ELSE v]]
<1>1. n \in Nat /\ \A k \in 1..n : h[k] \in Nat
  BY DifficultyAssumption DEF Digits
<1> HIDE DEF n
<1>2. step \in [Nat -> [Nat -> Nat]]
  BY <1>1, DifficultyAssumption
<1>3. \A k \in Nat, v \in Nat : k + 1 \in 1..n => step[k][v] = v * Base + h[k + 1]
  OBVIOUS
<1> HIDE DEF step
<1>4. PICK f : Iterates(f, Nat, 0, step)
  BY <1>2, RecursionOnNat
<1> DEFINE g == [k \in 0..n |-> f[k]]
<1>5. \A k \in 0..n : g[k] = IF k = 0 THEN 0 ELSE g[k - 1] * Base + h[k]
  <2> TAKE k \in 0..n
  <2>1. CASE k = 0
    BY <2>1, <1>4, <1>1 DEF Iterates
  <2>2. CASE k # 0
    <3>1. k - 1 \in Nat /\ (k - 1) + 1 = k /\ k \in 1..n /\ k - 1 \in 0..n
      BY <2>2, <1>1
    <3>2. f[(k - 1) + 1] = step[k - 1][f[k - 1]] /\ f[k - 1] \in Nat
      BY <3>1, <1>4 DEF Iterates
    <3>3. f[k] = f[k - 1] * Base + h[k]
      BY <3>1, <3>2, <1>3
    <3> QED BY <3>1, <3>3, <2>2
  <2> QED BY <2>1, <2>2
<1>6. Fits(g)
  <2>1. g = [k \in 0..n |-> g[k]]
    OBVIOUS
  <2> HIDE DEF g
  <2> QED BY <2>1, <1>5
<1> DEFINE w == CHOOSE v : Fits(v)
<1>7. Fits(w)
  BY <1>6
<1>8. SetBytes(h) = w[n]
  BY DEF SetBytes, n
<1> HIDE DEF w
<1>9. w[0] = 0 /\ \A k \in 1..n : w[k] = w[k - 1] * Base + h[k]
  <2>1. \A k \in 0..n : w[k] = IF k = 0 THEN 0 ELSE w[k - 1] * Base + h[k]
    BY <1>7
  <2>2. 0 \in 0..n /\ \A k \in 1..n : k \in 0..n /\ k # 0
    BY <1>1
  <2> QED BY <2>1, <2>2
<1> QED BY <1>8, <1>9 DEF n

\* The value of a hash has no more digits than the hash.
LEMMA SetBytesBounds ==
  ASSUME NEW h \in Seq(Digits)
  PROVE  SetBytes(h) \in Nat /\ SetBytes(h) < Power[Len(h)]
<1>1. PICK v : /\ SetBytes(h) = v[Len(h)]
               /\ v[0] = 0
               /\ \A k \in 1..Len(h) : v[k] = v[k - 1] * Base + h[k]
  BY SetBytesRecursive
<1> DEFINE T == {k \in Nat : k <= Len(h) => v[k] \in Nat /\ v[k] < Power[k]}
<1>2. 0 \in T
  BY <1>1, PowerStep
<1>3. ASSUME NEW k \in Nat, k \in T PROVE k + 1 \in T
  <2>1. SUFFICES ASSUME k + 1 <= Len(h)
                 PROVE  v[k + 1] \in Nat /\ v[k + 1] < Power[k + 1]
    OBVIOUS
  <2>2. Len(h) \in Nat
    OBVIOUS
  <2>3. k + 1 \in 1..Len(h) /\ (k + 1) - 1 = k
    BY <2>1, <2>2
  <2>4. v[k + 1] = v[k] * Base + h[k + 1] /\ h[k + 1] \in Digits
    BY <1>1, <2>3
  <2>5. v[k] \in Nat /\ v[k] < Power[k] /\ Power[k] \in Nat
    BY <1>3, <2>1, <2>2, PowerTyped
  <2>6. Power[k + 1] = Power[k] * Base
    BY PowerStep
  <2> DEFINE x == v[k]
             d == h[k + 1]
             p == Power[k]
  <2>7. x \in Nat /\ p \in Nat /\ x + 1 <= p /\ d \in Nat /\ d < Base /\ Base \in Nat
    BY <2>4, <2>5, DifficultyAssumption DEF Digits
  <2> HIDE DEF x, d, p
  <2>8. (x + 1) * Base <= p * Base
    BY <2>7, MulMonotone
  <2>9. x * Base + d \in Nat /\ x * Base + d < p * Base
    BY <2>7, <2>8
  <2> QED BY <2>4, <2>6, <2>9 DEF x, d, p
<1> HIDE DEF T
<1>4. \A k \in Nat : k \in T
  BY <1>2, <1>3, SetInduction
<1> QED BY <1>1, <1>4 DEF T

-----------------------------------------------------------------------------
(* The component *)

DTypeOK ==
    /\ bits \in Compacts
    /\ hash \in [1..HashDigits -> Digits]
    /\ solved \in BOOLEAN

DInv == DTypeOK /\ PublishedHashShowsWork

LEMMA ReversedTyped ==
  ASSUME NEW h \in [1..HashDigits -> Digits]
  PROVE  /\ h \in Seq(Digits) /\ Len(h) = HashDigits
         /\ Reversed(h) \in [1..HashDigits -> Digits]
<1>1. HashDigits \in Nat
  BY DifficultyAssumption
<1>2. h \in Seq(Digits) /\ Len(h) = HashDigits /\ DOMAIN h = 1..HashDigits
  BY <1>1
<1>3. \A k \in 1..HashDigits : HashDigits + 1 - k \in 1..HashDigits
  BY <1>1
<1> QED BY <1>1, <1>2, <1>3 DEF Reversed

LEMMA HashValue ==
  ASSUME NEW h \in [1..HashDigits -> Digits]
  PROVE  HashToBig(h) \in Nat /\ HashToBig(h) < Power[HashDigits]
<1>1. Reversed(h) \in [1..HashDigits -> Digits]
  BY ReversedTyped
<1>2. Reversed(h) \in Seq(Digits) /\ Len(Reversed(h)) = HashDigits
  BY <1>1, ReversedTyped
<1> QED BY <1>2, SetBytesBounds DEF HashToBig

LEMMA DInvAlways == DSpec => []DInv
<1>1. DInit => DInv
  BY DEF DInit, DInv, DTypeOK, PublishedHashShowsWork, Digits
<1>2. DInv /\ [DNext]_dvars => DInv'
  <2> SUFFICES ASSUME DInv, [DNext]_dvars PROVE DInv'
    OBVIOUS
  <2>1. CASE SolveWithHash
    <3>1. /\ HashToBig(hash) <= CompactToBig(bits)
          /\ hash' = Reversed(hash)
          /\ solved' = TRUE
          /\ bits' = bits
      BY <2>1 DEF SolveWithHash, HashAfter
    <3>2. SetBytes(hash') = HashToBig(hash)
      BY <3>1 DEF HashToBig
    <3>3. DTypeOK'
      BY <3>1, ReversedTyped DEF DInv, DTypeOK
    <3>4. PublishedHashShowsWork'
      <4>1. CompactToBig(bits)' = CompactToBig(bits)
        BY <3>1
      <4> QED BY <3>1, <3>2, <4>1 DEF PublishedHashShowsWork
    <3> QED BY <3>3, <3>4 DEF DInv
  <2>2. CASE UNCHANGED dvars
    BY <2>2 DEF DInv, DTypeOK, PublishedHashShowsWork, dvars
  <2> QED BY <2>1, <2>2 DEF DNext
<1> QED BY <1>1, <1>2, PTL DEF DSpec

\* BigToCompact keeps of a hash the nearest target that is not above it
\* (BigToCompact against CompactToBig, for hashes of any length).
THEOREM EncodingRoundsDown == DSpec => []EncodeRoundsDown
<1>1. DInv => EncodeRoundsDown
  <2> SUFFICES ASSUME DInv PROVE EncodeRoundsDown
    OBVIOUS
  <2> DEFINE n == HashToBig(hash)
             kept == CompactToBig(BigToCompact(n))
  <2>1. n \in Nat /\ n < Power[HashDigits]
    BY HashValue DEF DInv, DTypeOK
  <2>2. HashDigits \in 0..(HashDigits + MaxExponent)
    BY DifficultyAssumption
  <2>3. PICK m \in 0..(SignBit - 1), e \in 0..MaxExponent :
           CompactToBig(bits) \in {Scaled(m, e), -Scaled(m, e)}
    BY Unpacked DEF DInv, DTypeOK
  <2>4. e \in Nat
    OBVIOUS
  <2> HIDE DEF n
  <2>5. kept \in Nat /\ kept <= n /\ (Scaled(m, e) <= n => Scaled(m, e) <= kept)
    BY <2>1, <2>2, <2>4, RoundTrip
  <2>6. Scaled(m, e) \in Nat
    BY <2>4, ScaledBounds
  <2> HIDE DEF kept
  <2>7. CompactToBig(bits) <= n => CompactToBig(bits) <= kept
    BY <2>1, <2>3, <2>5, <2>6
  <2> QED BY <2>5, <2>7 DEF EncodeRoundsDown, n, kept
<1> QED BY <1>1, DInvAlways, PTL

\* Bits that are decoded and encoded again keep their target (CompactToBig and
\* BigToCompact, for all Bits).
THEOREM BitsSurviveDecoding == DSpec => []BitsKeepTheirTarget
<1>1. DInv => BitsKeepTheirTarget
  BY TargetsComeBack DEF DInv, DTypeOK, BitsKeepTheirTarget
<1> QED BY <1>1, DInvAlways, PTL

\* Neither a target nor a hash needs an exponent above MaxExponent (BigToCompact,
\* whose exponent<<24 is cut to 32 bits).
THEOREM ExponentsFit == DSpec => []ExponentFits
<1>1. DInv => ExponentFits
  <2> SUFFICES ASSUME DInv PROVE ExponentFits
    OBVIOUS
  <2> DEFINE n == HashToBig(hash)
  <2>1. BigToCompact(CompactToBig(bits)) \in Compacts
    BY TargetFits DEF DInv, DTypeOK
  <2>2. n \in Nat /\ n < Power[HashDigits]
    BY HashValue DEF DInv, DTypeOK
  <2>3. HashDigits \in 0..(HashDigits + MaxExponent)
    BY DifficultyAssumption
  <2> HIDE DEF n
  <2>4. ASSUME HashDigits < MaxExponent, n # 0 PROVE BigToCompact(n) \in Compacts
    <3>1. Mantissa(n) \in 0..(Power[3] - 1) /\ Length(n) \in 1..HashDigits
      BY <2>2, <2>3, <2>4, KeptDigits
    <3>2. Length(n) \in Nat /\ KeptExponent(n) <= MaxExponent
      BY <2>4, <3>1, DifficultyAssumption DEF KeptExponent
    <3> QED BY <2>2, <2>4, <3>1, <3>2, EncodedFits
  <2>5. BigToCompact(0) \in Compacts
    <3>1. (MaxExponent + 1) * Power[3] \in Nat \ {0}
      BY SignBitHalves, DifficultyAssumption
    <3> QED BY <3>1, ZeroIsKept DEF Compacts
  <2> QED BY <2>1, <2>4, <2>5 DEF ExponentFits, n
<1> QED BY <1>1, DInvAlways, PTL

\* The Hash that solveBlock leaves in a block is at most the target when it is
\* read from its first digit on.
THEOREM WorkIsShown == DSpec => []PublishedHashShowsWork
BY DInvAlways, PTL DEF DInv
=============================================================================
