-------------------------- MODULE ControlPeriod_proofs --------------------------
(***************************************************************************)
(* A control period has its nominal number of simulation steps, or one     *)
(* more, for every timestep and control frequency: the error of a sum of   *)
(* doubles, step by step, stays below what a step is long.                 *)
(***************************************************************************)
EXTENDS ControlPeriod, TLAPS

\* What three digits stand for, in units of 2^-62.
Square == Base * Base

Value(x) == x[1] * Square + x[2] * Base + x[3]

\* Digits after the first are in range; the first one may not be.
LowDigits(x) == x[1] \in Int /\ x[2] \in 0..(Base - 1) /\ x[3] \in 0..(Base - 1)

\* No bit beyond the 53 that a double keeps is used.
Rounded(x) == x[3] % Power(ExcessBits(x)) = 0

---------------------------------------------------------------------------------
(***************************************************************************)
(* Digits.                                                                 *)
(***************************************************************************)
LEMMA Powers ==
  /\ \A d \in 0..10 : Power(d) \in 1..1024
  /\ Power(10) = 1024
  BY SMT DEF Power

LEMMA BaseIs == Base \in Nat /\ Base > 1024
  BY Powers, SMT DEF Base

\* The powers of two divide the base.
LEMMA BaseIsMultiple ==
  ASSUME NEW d \in 0..10
  PROVE  \E b \in Int : Base = Power(d) * b
<1>1. \E c \in Nat : 1024 = Power(d) * c
  BY SMT DEF Power
<1>2. PICK c \in Nat : 1024 = Power(d) * c
  BY <1>1
<1>3. Base = 1024 * 2048 /\ 2048 * c \in Int
  BY Powers, SMT DEF Base
<1>4. Base = Power(d) * (2048 * c)
  <2>. DEFINE p == Power(d)
              k == 2048
  <2>1. p \in Int /\ k \in Int
    <3>1. p \in 1..1024
      BY Powers
    <3>. HIDE DEF p
    <3>. QED  BY <3>1
  <2>2. Base = (p * c) * k
    BY <1>2, <1>3
  <2>. HIDE DEF p, k
  <2>3. (p * c) * k = p * (k * c)
    BY <2>1
  <2>4. p * (k * c) = Power(d) * (2048 * c)
    BY DEF p, k
  <2>. QED  BY <2>2, <2>3, <2>4
<1>. QED  BY <1>3, <1>4

LEMMA DivModInt ==
  ASSUME NEW n \in Nat \ {0}, NEW j \in Int
  PROVE  /\ j \div n \in Int /\ j % n \in 0..(n - 1)
         /\ j = n * (j \div n) + (j % n)
  OBVIOUS

LEMMA ModZero ==
  ASSUME NEW n \in Nat \ {0}
  PROVE  0 % n = 0
  OBVIOUS

\* A multiple leaves no rest, a smaller number is its own.
LEMMA MultipleHasNoRest ==
  ASSUME NEW n \in Nat \ {0}, NEW k \in Int
  PROVE  (k * n) % n = 0
  OBVIOUS

LEMMA SmallModulo ==
  ASSUME NEW n \in Nat \ {0}, NEW j \in 0..(n - 1)
  PROVE  j % n = j /\ j \div n = 0
  OBVIOUS

\* A whole multiple is at least as large as what is multiplied.
LEMMA Multiple ==
  ASSUME NEW k \in Int, NEW n \in Nat
  PROVE  /\ k * n \in Int
         /\ k >= 1 => k * n >= n
         /\ k <= -1 => k * n <= -n
  OBVIOUS

LEMMA Distributes ==
  ASSUME NEW a \in Int, NEW b \in Int, NEW n \in Int
  PROVE  /\ (a + b) * n = a * n + b * n /\ (a - b) * n = a * n - b * n
         /\ a * n \in Int /\ b * n \in Int /\ a * n = n * a
  OBVIOUS

LEMMA SquareIs ==
  /\ Square \in Nat /\ Square >= Base
  /\ \A a \in Int : (a * Base) * Base = a * Square
<1>. DEFINE B == Base
<1>1. B \in Nat /\ B > 1024
  BY BaseIs
<1>. HIDE DEF B
<1>2. B * B \in Nat /\ B * B >= B
  BY <1>1
<1>3. \A a \in Int : (a * B) * B = a * (B * B)
  BY <1>1
<1>. QED  BY <1>2, <1>3 DEF Square, B

\* The digits after the first count for less than one unit of the first.
LEMMA LowPart ==
  ASSUME NEW x, LowDigits(x)
  PROVE  /\ x[2] * Base + x[3] \in 0..(Square - 1)
         /\ Value(x) \in Int
<1>. DEFINE B == Base
            a == x[2]
<1>1. B \in Nat /\ B > 1024 /\ a \in 0..(B - 1) /\ x[3] \in 0..(B - 1) /\ x[1] \in Int
  BY BaseIs DEF LowDigits
<1>2. Square = B * B /\ Square \in Nat
  BY SquareIs DEF Square
<1>. HIDE DEF B, a
<1>3. a * B \in Nat /\ (B - 1) - a \in Nat
  BY <1>1
<1>4. ((B - 1) - a) * B = (B * B - B) - a * B /\ ((B - 1) - a) * B \in Nat
  BY <1>1, <1>3
<1>5. a * B + x[3] \in 0..(Square - 1)
  BY <1>1, <1>2, <1>3, <1>4
<1>6. x[1] * Square \in Int
  BY <1>1, <1>2
<1>. QED  BY <1>1, <1>3, <1>5, <1>6 DEF Value, B, a

\* Resolving carries keeps the value.
LEMMA CarryValue ==
  ASSUME NEW d1 \in Int, NEW d2 \in Int, NEW d3 \in Int
  PROVE  LET r == Carry(d1, d2, d3)
         IN  /\ r = <<r[1], r[2], r[3]>>
             /\ LowDigits(r)
             /\ r[3] = d3 % Base
             /\ Value(r) = d1 * Square + d2 * Base + d3
<1>. DEFINE B  == Base
            c3 == d3 \div B
            r3 == d3 % B
            m2 == d2 + c3
            c2 == m2 \div B
            r2 == m2 % B
            r  == Carry(d1, d2, d3)
<1>1. B \in Nat \ {0}
  BY BaseIs
<1>2. r = <<d1 + c2, r2, r3>>
  BY DEF Carry
<1>. HIDE DEF B, r
<1>3. c3 \in Int /\ r3 \in 0..(B - 1) /\ d3 = B * c3 + r3 /\ m2 \in Int
  BY <1>1, DivModInt
<1>. HIDE DEF c3, r3
<1>4. c2 \in Int /\ r2 \in 0..(B - 1) /\ m2 = B * c2 + r2
  BY <1>1, <1>3, DivModInt
<1>. HIDE DEF c2, r2
<1>5. r[1] = d1 + c2 /\ r[2] = r2 /\ r[3] = r3 /\ r = <<r[1], r[2], r[3]>>
  BY <1>2
<1>6. Value(r) = d1 * Square + d2 * B + d3
  <2>1. (d1 + c2) * Square = d1 * Square + c2 * Square /\ d1 * Square \in Int
    BY <1>4, SquareIs, Distributes
  <2>2. c2 * Square = (B * c2) * B
    BY <1>1, <1>4, SquareIs, Distributes DEF B
  <2>3. (B * c2) * B + r2 * B = m2 * B /\ (B * c2) * B \in Int /\ r2 * B \in Int
    BY <1>1, <1>4, Distributes
  <2>4. m2 * B = d2 * B + c3 * B /\ d2 * B \in Int /\ c3 * B \in Int /\ c3 * B = B * c3
    BY <1>1, <1>3, Distributes DEF m2
  <2>5. Value(r) = (d1 + c2) * Square + r2 * B + r3
    BY <1>5 DEF Value, B
  <2>. HIDE DEF m2
  <2>. QED  BY <1>3, <2>1, <2>2, <2>3, <2>4, <2>5
<1>7. LowDigits(r)
  BY <1>3, <1>4, <1>5 DEF LowDigits, B
<1>. QED  BY <1>5, <1>6, <1>7 DEF r, r3, B

\* A value of the range has a first digit of the range.
LEMMA FirstDigit ==
  ASSUME NEW x, x = <<x[1], x[2], x[3]>>, LowDigits(x), 0 <= Value(x), Value(x) < Base * Square
  PROVE  IsDouble(x)
<1>. DEFINE B == Base
            K == Square
            a == x[1]
            l == x[2] * Base + x[3]
<1>1. B \in Nat /\ K \in Nat /\ a \in Int /\ l \in 0..(K - 1)
  BY BaseIs, SquareIs, LowPart DEF LowDigits
<1>2. x[2] * Base \in Int /\ x[3] \in Int
  BY BaseIs DEF LowDigits
<1>3. Value(x) = a * K + l /\ a * K \in Int
  BY <1>1, <1>2 DEF Value
<1>. HIDE DEF B, K, a, l
<1>4. a >= 0
  <2>1. a <= -1 => a * K <= -K
    BY <1>1, Multiple
  <2>. QED  BY <1>1, <1>3, <2>1
<1>5. a < B
  <2>1. (a - B) * K = a * K - B * K /\ (a - B) * K \in Int /\ B * K \in Int
    BY <1>1, Distributes
  <2>2. a - B >= 0 => (a - B) * K >= 0
    BY <1>1
  <2>3. Value(x) < B * K
    BY DEF B, K
  <2>. QED  BY <1>1, <1>3, <2>1, <2>2, <2>3
<1>6. x[1] \in 0..(Base - 1) /\ x[2] \in 0..(Base - 1) /\ x[3] \in 0..(Base - 1)
  BY <1>1, <1>4, <1>5 DEF LowDigits, a, B
<1>. QED  BY <1>6 DEF IsDouble

LEMMA DoubleDigits ==
  ASSUME NEW x, IsDouble(x)
  PROVE  /\ LowDigits(x) /\ x = <<x[1], x[2], x[3]>>
         /\ x[1] \in 0..(Base - 1) /\ Value(x) \in Nat
<1>1. /\ x[1] \in 0..(Base - 1) /\ x[2] \in 0..(Base - 1) /\ x[3] \in 0..(Base - 1)
      /\ x = <<x[1], x[2], x[3]>>
  BY DEF IsDouble
<1>2. LowDigits(x)
  BY <1>1, BaseIs DEF LowDigits
<1>3. x[2] * Base + x[3] \in Nat /\ x[1] * Square \in Nat /\ x[2] * Base \in Nat
  BY <1>1, <1>2, LowPart, BaseIs, SquareIs
<1>. QED  BY <1>1, <1>2, <1>3 DEF Value

\* Comparing digit by digit compares the values.
LEMMA LessIsValue ==
  ASSUME NEW x, NEW y, LowDigits(x), LowDigits(y)
  PROVE  Less(x, y) <=> Value(x) < Value(y)
<1>. DEFINE B == Base
            K == Square
<1>1. /\ B \in Nat /\ K \in Nat
      /\ x[1] \in Int /\ x[2] \in 0..(B - 1) /\ x[3] \in 0..(B - 1)
      /\ y[1] \in Int /\ y[2] \in 0..(B - 1) /\ y[3] \in 0..(B - 1)
  BY BaseIs, SquareIs DEF LowDigits
<1>2. x[2] * B + x[3] \in 0..(K - 1) /\ y[2] * B + y[3] \in 0..(K - 1)
  BY LowPart
<1>3. /\ Value(x) = x[1] * K + (x[2] * B + x[3]) /\ Value(y) = y[1] * K + (y[2] * B + y[3])
      /\ x[1] * K \in Int /\ y[1] * K \in Int /\ x[2] * B \in Int /\ y[2] * B \in Int
  BY <1>1 DEF Value
<1>. HIDE DEF B, K
<1>4. ASSUME NEW a \in Int, NEW b \in Int, a < b
      PROVE  a * K + K <= b * K /\ a * B + B <= b * B
  <2>1. (b - a) * K >= K /\ (b - a) * B >= B
    BY <1>1, <1>4, Multiple
  <2>2. (b - a) * K = b * K - a * K /\ (b - a) * B = b * B - a * B
    BY <1>1, Distributes
  <2>. QED  BY <1>1, <2>1, <2>2, Distributes
<1>5. CASE x[1] < y[1]
  <2>1. x[1] * K + K <= y[1] * K
    BY <1>1, <1>4, <1>5
  <2>. QED  BY <1>1, <1>2, <1>3, <1>5, <2>1 DEF Less
<1>6. CASE y[1] < x[1]
  <2>1. y[1] * K + K <= x[1] * K
    BY <1>1, <1>4, <1>6
  <2>. QED  BY <1>1, <1>2, <1>3, <1>6, <2>1 DEF Less
<1>7. CASE x[1] = y[1] /\ x[2] < y[2]
  <2>1. x[2] * B + B <= y[2] * B
    BY <1>1, <1>4, <1>7
  <2>. QED  BY <1>1, <1>3, <1>7, <2>1 DEF Less
<1>8. CASE x[1] = y[1] /\ y[2] < x[2]
  <2>1. y[2] * B + B <= x[2] * B
    BY <1>1, <1>4, <1>8
  <2>. QED  BY <1>1, <1>3, <1>8, <2>1 DEF Less
<1>9. CASE x[1] = y[1] /\ x[2] = y[2]
  BY <1>1, <1>3, <1>9 DEF Less
<1>. QED  BY <1>1, <1>5, <1>6, <1>7, <1>8, <1>9
---------------------------------------------------------------------------------
(***************************************************************************)
(* Rounding.                                                               *)
(***************************************************************************)
LEMMA ExcessBitsExist ==
  ASSUME NEW x, x[1] \in 0..(Base - 1)
  PROVE  ExcessBits(x) \in 0..10
<1>1. Base = 2 * Power(10) * Power(10)
  BY DEF Base
<1>2. \E d \in 0..10 : /\ x[1] < 2 * Power(10) * Power(d)
                       /\ d > 0 => x[1] >= Power(10) * Power(d)
  BY <1>1, SMT DEF Power
<1>. QED  BY <1>2, Zenon DEF ExcessBits

\* Rounding changes a value by no more than half of the last bit it keeps.
LEMMA RoundValue ==
  ASSUME NEW x, IsDouble(x), Value(x) + 512 < Base * Square
  PROVE  LET r == Round(x)
         IN  /\ IsDouble(r) /\ Rounded(r)
             /\ Value(x) - 512 <= Value(r) /\ Value(r) <= Value(x) + 512
<1>. DEFINE unit == Power(ExcessBits(x))
            rest == x[3] % unit
            up   == 2 * rest > unit \/ (2 * rest = unit /\ (x[3] \div unit) % 2 = 1)
            add  == IF up THEN unit ELSE 0
            low  == (x[3] - rest) + add
            r    == Round(x)
<1>1. /\ x[1] \in 0..(Base - 1) /\ LowDigits(x) /\ Value(x) \in Nat
      /\ x[1] \in Int /\ x[2] \in Int /\ x[3] \in 0..(Base - 1)
  BY DoubleDigits DEF LowDigits
<1>2. unit \in 1..1024
  BY <1>1, ExcessBitsExist, Powers
<1>3. r = Carry(x[1], x[2], low)
  BY DEF Round
<1>. HIDE DEF r, unit
<1>4. rest \in 0..(unit - 1) /\ x[3] \div unit \in Int /\ x[3] = unit * (x[3] \div unit) + rest
  <2>1. unit \in Nat \ {0} /\ x[3] \in Int
    BY <1>1, <1>2, BaseIs
  <2>. QED  BY <2>1, DivModInt
<1>. HIDE DEF rest
<1>5. add \in {0, unit} /\ 2 * (add - rest) <= unit /\ 2 * (rest - add) <= unit
  BY <1>2, <1>4
<1>6. low \in Int /\ low - x[3] <= 512 /\ x[3] - low <= 512
  BY <1>1, <1>2, <1>4, <1>5, BaseIs
<1>7. /\ LowDigits(r) /\ r = <<r[1], r[2], r[3]>>
      /\ r[3] = low % Base
      /\ Value(r) = x[1] * Square + x[2] * Base + low
  BY <1>1, <1>3, <1>6, CarryValue
<1>8. Value(r) - Value(x) = low - x[3] /\ Value(r) \in Int
  <2>1. x[1] * Square \in Int /\ x[2] * Base \in Int
    BY <1>1, BaseIs, SquareIs
  <2>. HIDE DEF low
  <2>. QED  BY <1>1, <1>6, <1>7, <2>1 DEF Value
<1>9. low >= 0
  <2>1. x[3] - rest >= 0
    <3>. DEFINE q == x[3] \div unit
    <3>1. q \in Nat
      BY <1>1, <1>2, BaseIs
    <3>2. x[3] = unit * q + rest
      BY <1>4
    <3>. HIDE DEF q
    <3>3. unit * q \in Nat
      BY <1>2, <3>1
    <3>. QED  BY <1>2, <1>4, <3>2, <3>3
  <2>. QED  BY <1>1, <1>2, <1>4, <1>5, <2>1, BaseIs
<1>10. Value(r) >= 0
  <2>1. x[1] * Square >= 0 /\ x[2] * Base >= 0 /\ x[1] * Square \in Int /\ x[2] * Base \in Int
    BY <1>1, BaseIs, SquareIs DEF LowDigits
  <2>. HIDE DEF low
  <2>. QED  BY <1>6, <1>7, <1>9, <2>1
<1>11. IsDouble(r)
  <2>1. Value(r) < Base * Square
    <3>1. Base * Square \in Int
      BY BaseIs, SquareIs
    <3>. HIDE DEF low
    <3>. QED  BY <1>1, <1>6, <1>8, <3>1
  <2>. QED  BY <1>7, <1>10, <2>1, FirstDigit
<1>12. Rounded(r)
  <2>1. /\ x[3] - rest \in Int /\ low = unit * (x[3] \div unit) + add
    BY <1>1, <1>2, <1>4, <1>5, BaseIs
  <2>2. low % unit = 0
    <3>. HIDE DEF add, low
    <3>1. PICK k \in Int : low = unit * k
      <4>0. unit * (x[3] \div unit) \in Int
        BY <1>2, <1>4
      <4>1. CASE add = 0
        BY <1>4, <2>1, <4>0, <4>1
      <4>2. CASE add = unit
        <5>1. unit * (x[3] \div unit + 1) = unit * (x[3] \div unit) + unit
          BY <1>2, <1>4
        <5>. QED  BY <1>4, <2>1, <4>2, <5>1
      <4>. QED  BY <1>5, <4>1, <4>2
    <3>2. unit * k = k * unit /\ k * unit \in Int /\ unit \in Nat \ {0}
      BY <1>2
    <3>3. (k * unit) % unit = 0
      BY <3>2, MultipleHasNoRest
    <3>. QED  BY <3>1, <3>2, <3>3
  <2>3. CASE low < Base
    <3>1. low \in 0..(Base - 1) /\ low % Base = low /\ low \div Base = 0
      BY <1>6, <1>9, <2>3, BaseIs, SmallModulo
    <3>2. r[3] = low /\ r[1] = x[1]
      <4>1. x[2] \in 0..(Base - 1) /\ x[2] + 0 = x[2]
        BY <1>1 DEF LowDigits
      <4>2. x[2] \div Base = 0
        BY <4>1, BaseIs, SmallModulo
      <4>3. r[1] = x[1] + 0
        BY <1>3, <3>1, <4>1, <4>2 DEF Carry
      <4>. QED  BY <1>1, <1>7, <3>1, <4>3
    <3>3. ExcessBits(r) = ExcessBits(x)
      BY <3>2 DEF ExcessBits
    <3>. QED  BY <2>2, <3>2, <3>3 DEF Rounded, unit
  <2>4. CASE low >= Base
    <3>1. low = Base
      <4>1. unit * (x[3] \div unit) <= Base - 1 /\ unit * (x[3] \div unit) \in Int
        BY <1>1, <1>2, <1>4, BaseIs
      <4>2. PICK b \in Int : Base = unit * b
        BY <1>1, BaseIsMultiple, ExcessBitsExist DEF unit
      <4>3. x[3] \div unit <= b - 1
        <5>. SUFFICES ASSUME x[3] \div unit >= b
                      PROVE  FALSE
          BY <1>4, <4>2
        <5>1. (x[3] \div unit - b) * unit >= 0
          BY <1>2, <1>4, <4>2
        <5>2. (x[3] \div unit - b) * unit = unit * (x[3] \div unit) - unit * b
          BY <1>2, <1>4, <4>2
        <5>. QED  BY <4>1, <4>2, <5>1, <5>2, BaseIs
      <4>4. unit * (x[3] \div unit) + unit <= Base
        <5>1. ((b - 1) - x[3] \div unit) * unit >= 0
          BY <1>2, <1>4, <4>2, <4>3
        <5>2. ((b - 1) - x[3] \div unit) * unit = (unit * b - unit) - unit * (x[3] \div unit)
          BY <1>2, <1>4, <4>2
        <5>. QED  BY <1>2, <4>1, <4>2, <5>1, <5>2, BaseIs
      <4>. QED  BY <1>2, <1>5, <1>6, <2>1, <2>4, <4>1, <4>4, BaseIs
    <3>2. Base % Base = 0
      <4>1. 1 * Base = Base /\ Base \in Nat \ {0}
        BY BaseIs
      <4>. QED  BY <4>1, MultipleHasNoRest
    <3>3. r[3] = 0
      BY <1>7, <3>1, <3>2
    <3>4. r[1] \in 0..(Base - 1)
      BY <1>11, DoubleDigits
    <3>5. Power(ExcessBits(r)) \in Nat \ {0}
      <4>1. ExcessBits(r) \in 0..10
        BY <3>4, ExcessBitsExist
      <4>2. Power(ExcessBits(r)) \in 1..1024
        BY <4>1, Powers
      <4>. QED  BY <4>2
    <3>. QED  BY <3>3, <3>5, ModZero DEF Rounded
  <2>. QED  BY <1>6, <2>3, <2>4, BaseIs
<1>13. Value(x) - 512 <= Value(r) /\ Value(r) <= Value(x) + 512
  <2>. HIDE DEF low
  <2>. QED  BY <1>1, <1>6, <1>8
<1>. QED  BY <1>11, <1>12, <1>13 DEF r

\* The sum of two doubles that stays in range is a double at most 512 units off.
LEMMA PlusValue ==
  ASSUME NEW x, NEW y, IsDouble(x), IsDouble(y), Value(x) + Value(y) + 512 < Base * Square
  PROVE  LET r == Plus(x, y)
         IN  /\ IsDouble(r) /\ Rounded(r)
             /\ (Value(x) + Value(y)) - 512 <= Value(r)
             /\ Value(r) <= Value(x) + Value(y) + 512
<1>. DEFINE c == Carry(x[1] + y[1], x[2] + y[2], x[3] + y[3])
<1>1. /\ Value(x) \in Nat /\ Value(y) \in Nat /\ LowDigits(x) /\ LowDigits(y)
      /\ x[1] \in Int /\ x[2] \in Int /\ x[3] \in Int /\ y[1] \in Int /\ y[2] \in Int /\ y[3] \in Int
  BY DoubleDigits, BaseIs DEF LowDigits
<1>2. /\ c = <<c[1], c[2], c[3]>> /\ LowDigits(c)
      /\ Value(c) = (x[1] + y[1]) * Square + (x[2] + y[2]) * Base + (x[3] + y[3])
  <2>1. x[1] + y[1] \in Int /\ x[2] + y[2] \in Int /\ x[3] + y[3] \in Int
    BY <1>1
  <2>. QED  BY <2>1, CarryValue
<1>. HIDE DEF c
<1>3. Value(c) = Value(x) + Value(y)
  <2>1. /\ (x[1] + y[1]) * Square = x[1] * Square + y[1] * Square
        /\ x[1] * Square \in Int /\ y[1] * Square \in Int
    BY <1>1, SquareIs, Distributes
  <2>2. /\ (x[2] + y[2]) * Base = x[2] * Base + y[2] * Base
        /\ x[2] * Base \in Int /\ y[2] * Base \in Int
    BY <1>1, BaseIs, Distributes
  <2>. QED  BY <1>1, <1>2, <2>1, <2>2 DEF Value
<1>4. Base * Square \in Int
  BY BaseIs, SquareIs
<1>5. IsDouble(c)
  BY <1>1, <1>2, <1>3, <1>4, FirstDigit
<1>6. Plus(x, y) = Round(c)
  BY DEF Plus, c
<1>. QED  BY <1>1, <1>3, <1>5, <1>6, RoundValue

---------------------------------------------------------------------------------
(***************************************************************************)
(* Periods.                                                                *)
(***************************************************************************)
Timestep == Value(timestep)
Period   == Value(controlPeriod)

\* The nominal number of steps is that of the configured numbers, with room for an error
\* of 512 units a step and for that of the difference, and the time of all periods stays
\* in the range of the model.
NumbersFit ==
  /\ (nominalSteps - 1) * (Timestep + 512) < Period - 512
  /\ Period + 512 <= (nominalSteps + 1) * (Timestep - 512)
  /\ ((MaxPeriods + 1) * (nominalSteps + 1) + 2) * (Timestep + 512) < Base * Square

\* The time that has gone by is that of the steps made, up to their errors.
Drift ==
  /\ steps <= nominalSteps + 1
  /\ steps * (Timestep - 512) <= Value(now) - Value(simstart)
  /\ Value(now) - Value(simstart) <= steps * (Timestep + 512)
  /\ Value(now) <= (periods * (nominalSteps + 1) + steps + 1) * (Timestep + 512)

Digits ==
  /\ IsDouble(now) /\ IsDouble(simstart) /\ Rounded(now) /\ Rounded(simstart)
  /\ steps \in Nat /\ periods \in 0..MaxPeriods

LEMMA Numbers ==
  /\ timestep \in [1..3 -> 0..(Base - 1)] /\ LowDigits(controlPeriod)
  /\ IsDouble(timestep) /\ Timestep \in Nat /\ Period \in Nat
  /\ nominalSteps \in Nat \ {0} /\ MaxPeriods \in Nat
  BY PeriodAssumption, DoubleDigits DEF Timestep, Period, IsDouble

LEMMA ZeroIs == IsDouble(Zero) /\ Rounded(Zero) /\ Value(Zero) = 0
<1>1. Zero[1] = 0 /\ Zero[2] = 0 /\ Zero[3] = 0
  BY DEF Zero
<1>2. 0 \in 0..(Base - 1)
  BY BaseIs
<1>3. IsDouble(Zero)
  BY <1>2 DEF Zero, IsDouble
<1>4. ExcessBits(Zero) \in 0..10
  BY <1>1, <1>2, ExcessBitsExist
<1>5. Power(ExcessBits(Zero)) \in 1..1024
  BY <1>4, Powers
<1>6. Rounded(Zero)
  <2>1. Power(ExcessBits(Zero)) \in Nat \ {0}
    BY <1>5
  <2>. QED  BY <1>1, <2>1, ModZero DEF Rounded
<1>7. Value(Zero) = 0
  BY <1>1, BaseIs, SquareIs DEF Value
<1>. QED  BY <1>3, <1>6, <1>7

\* The loop goes on as long as the difference is less than the period, up to its rounding.
LEMMA GoesOn ==
  ASSUME IsDouble(now), IsDouble(simstart), Value(simstart) <= Value(now),
         Value(now) + 512 < Base * Square
  PROVE  /\ PeriodGoesOn => Value(now) - Value(simstart) < Period + 512
         /\ ~ PeriodGoesOn => Value(now) - Value(simstart) >= Period - 512
<1>. DEFINE c == Carry(now[1] - simstart[1], now[2] - simstart[2], now[3] - simstart[3])
            r == Minus(now, simstart)
<1>1. /\ LowDigits(now) /\ LowDigits(simstart) /\ Value(now) \in Nat /\ Value(simstart) \in Nat
  BY DoubleDigits
<1>2. /\ now[1] \in Int /\ now[2] \in Int /\ now[3] \in Int
      /\ simstart[1] \in Int /\ simstart[2] \in Int /\ simstart[3] \in Int
  BY <1>1, BaseIs DEF LowDigits
<1>3. /\ c = <<c[1], c[2], c[3]>> /\ LowDigits(c)
      /\ Value(c) = (now[1] - simstart[1]) * Square + (now[2] - simstart[2]) * Base
                      + (now[3] - simstart[3])
  <2>1. /\ now[1] - simstart[1] \in Int /\ now[2] - simstart[2] \in Int
        /\ now[3] - simstart[3] \in Int
    BY <1>2
  <2>. QED  BY <2>1, CarryValue
<1>4. r = Round(c)
  BY DEF Minus
<1>. HIDE DEF c, r
<1>5. Value(c) = Value(now) - Value(simstart)
  <2>1. /\ (now[1] - simstart[1]) * Square = now[1] * Square - simstart[1] * Square
        /\ now[1] * Square \in Int /\ simstart[1] * Square \in Int
    BY <1>2, SquareIs, Distributes
  <2>2. /\ (now[2] - simstart[2]) * Base = now[2] * Base - simstart[2] * Base
        /\ now[2] * Base \in Int /\ simstart[2] * Base \in Int
    BY <1>2, BaseIs, Distributes
  <2>. QED  BY <1>2, <1>3, <2>1, <2>2 DEF Value
<1>6. Base * Square \in Int
  BY BaseIs, SquareIs
<1>7. 0 <= Value(c) /\ Value(c) + 512 < Base * Square /\ Value(c) < Base * Square
  BY <1>1, <1>5, <1>6
<1>8. IsDouble(c)
  BY <1>3, <1>7, FirstDigit
<1>9. IsDouble(r) /\ Value(c) - 512 <= Value(r) /\ Value(r) <= Value(c) + 512
  BY <1>4, <1>7, <1>8, RoundValue
<1>10. LowDigits(r) /\ Value(r) \in Nat /\ Period \in Nat
  BY <1>9, DoubleDigits, Numbers
<1>11. PeriodGoesOn <=> Value(r) < Period
  BY <1>10, Numbers, LessIsValue DEF PeriodGoesOn, r, Period
<1>. QED  BY <1>1, <1>5, <1>9, <1>10, <1>11

\* Another step, with its error, stays in the range of the model.
LEMMA StepsFit ==
  ASSUME NumbersFit, Digits, Drift
  PROVE  /\ Value(now) \in Nat /\ Value(simstart) \in Nat /\ Value(simstart) <= Value(now)
         /\ Value(now) + Timestep + 512 < Base * Square /\ Base * Square \in Int
<1>. DEFINE n == nominalSteps
            E == Timestep + 512
            F == Timestep - 512
            total == (MaxPeriods + 1) * (n + 1) + 2
            made  == periods * (n + 1) + steps + 1
<1>1. /\ IsDouble(now) /\ IsDouble(simstart) /\ steps \in Nat /\ periods \in 0..MaxPeriods
      /\ MaxPeriods \in Nat /\ n \in Nat \ {0} /\ Timestep \in Nat /\ Period \in Nat
  BY Numbers DEF Digits
<1>2. Value(now) \in Nat /\ Value(simstart) \in Nat
  BY <1>1, DoubleDigits
<1>3. /\ steps <= n + 1 /\ steps * F <= Value(now) - Value(simstart)
      /\ Value(now) <= made * E /\ Period + 512 <= (n + 1) * F /\ total * E < Base * Square
  BY DEF Drift, NumbersFit
<1>4. E \in Nat /\ F \in Int /\ E = Timestep + 512
  BY <1>1
<1>. HIDE DEF n, E, F
<1>5. Value(simstart) <= Value(now)
  <2>1. F >= 0
    <3>. SUFFICES ASSUME F < 0
                  PROVE  FALSE
      BY <1>4
    <3>1. (n + 1) * F <= 0
      BY <1>1, <1>4
    <3>. QED  BY <1>1, <1>3, <1>4, <3>1
  <2>2. steps * F >= 0 /\ steps * F \in Int
    BY <1>1, <1>4, <2>1
  <2>. QED  BY <1>2, <1>3, <2>2
<1>6. made \in Nat /\ total \in Nat /\ made + 1 <= total
  <2>1. (MaxPeriods - periods) * (n + 1) >= 0 /\ periods * (n + 1) \in Nat
    BY <1>1
  <2>2. /\ (MaxPeriods - periods) * (n + 1) = MaxPeriods * (n + 1) - periods * (n + 1)
        /\ MaxPeriods * (n + 1) \in Int /\ total = MaxPeriods * (n + 1) + (n + 1) + 2
    BY <1>1
  <2>. HIDE DEF total
  <2>. QED  BY <1>1, <1>3, <2>1, <2>2
<1>. HIDE DEF made, total
<1>7. (made + 1) * E = made * E + E /\ made * E \in Int /\ (made + 1) * E <= total * E
      /\ total * E \in Int
  <2>. DEFINE g == made + 1
              k == total - g
  <2>1. g \in Nat /\ k \in Nat /\ total = k + g
    BY <1>6
  <2>2. g * E = made * E + E /\ made * E \in Int /\ total * E \in Int
    BY <1>4, <1>6
  <2>. HIDE DEF g, k
  <2>3. (k + g) * E = k * E + g * E /\ k * E \in Nat /\ g * E \in Int
    BY <1>4, <2>1
  <2>4. total * E = k * E + g * E
    BY <2>1, <2>3
  <2>5. g * E <= total * E
    BY <2>3, <2>4
  <2>. QED  BY <2>2, <2>5 DEF g
<1>8. Base * Square \in Int
  BY BaseIs, SquareIs
<1>9. Value(now) + Timestep + 512 < Base * Square
  BY <1>1, <1>2, <1>3, <1>4, <1>7, <1>8
<1>. QED  BY <1>2, <1>5, <1>8, <1>9

LEMMA InitDrift == NumbersFit /\ Init => Digits /\ Drift
<1>. SUFFICES ASSUME NumbersFit, Init
              PROVE  Digits /\ Drift
  OBVIOUS
<1>. DEFINE E == Timestep + 512
            total == (MaxPeriods + 1) * (nominalSteps + 1) + 2
<1>1. now = Plus(Zero, timestep) /\ simstart = now /\ steps = 0 /\ periods = 0
  BY DEF Init
<1>2. /\ IsDouble(Zero) /\ Value(Zero) = 0 /\ IsDouble(timestep) /\ Value(timestep) = Timestep
      /\ Timestep \in Nat /\ E \in Nat /\ MaxPeriods \in Nat /\ nominalSteps \in Nat \ {0}
  BY ZeroIs, Numbers DEF Timestep
<1>3. Value(Zero) + Value(timestep) + 512 < Base * Square
  <2>1. total * E < Base * Square /\ Base * Square \in Int
    BY BaseIs, SquareIs DEF NumbersFit
  <2>2. total \in Nat /\ total >= 1
    BY <1>2
  <2>. HIDE DEF total, E
  <2>3. total * E >= E /\ total * E \in Int
    BY <1>2, <2>2, Multiple
  <2>4. E < Base * Square
    BY <1>2, <2>1, <2>3
  <2>. QED  BY <1>2, <2>4 DEF E
<1>4. /\ IsDouble(now) /\ Rounded(now)
      /\ (Value(Zero) + Value(timestep)) - 512 <= Value(now)
      /\ Value(now) <= Value(Zero) + Value(timestep) + 512
  BY <1>1, <1>2, <1>3, PlusValue
<1>5. Value(now) \in Nat /\ Value(now) <= E /\ Value(now) - Value(simstart) = 0
  BY <1>1, <1>2, <1>4, DoubleDigits
<1>6. Digits
  BY <1>1, <1>2, <1>4 DEF Digits
<1>7. /\ 0 * (Timestep - 512) = 0 /\ 0 * (Timestep + 512) = 0 /\ 0 <= nominalSteps + 1
      /\ (0 * (nominalSteps + 1) + 0 + 1) * (Timestep + 512) = E
  BY <1>2
<1>8. Drift
  BY <1>1, <1>5, <1>7 DEF Drift
<1>. QED  BY <1>6, <1>8

LEMMA StepDrift ==
  ASSUME NumbersFit, Digits, Drift, SimulateStep
  PROVE  Digits' /\ Drift'
<1>. DEFINE n == nominalSteps
            E == Timestep + 512
            F == Timestep - 512
            made  == periods * (n + 1) + steps + 1
<1>1. /\ PeriodGoesOn /\ now' = Plus(now, timestep) /\ steps' = steps + 1
      /\ simstart' = simstart /\ periods' = periods
  BY DEF SimulateStep
<1>2. /\ IsDouble(now) /\ IsDouble(simstart) /\ Rounded(simstart)
      /\ steps \in Nat /\ periods \in 0..MaxPeriods /\ MaxPeriods \in Nat /\ n \in Nat \ {0}
      /\ Timestep \in Nat /\ IsDouble(timestep) /\ Period \in Nat
  BY Numbers DEF Digits
<1>3. /\ Value(now) \in Nat /\ Value(simstart) \in Nat /\ Value(simstart) <= Value(now)
      /\ Value(now) + Timestep + 512 < Base * Square /\ Base * Square \in Int
  BY StepsFit
<1>4. /\ steps <= n + 1
      /\ steps * F <= Value(now) - Value(simstart)
      /\ Value(now) - Value(simstart) <= steps * E
      /\ Value(now) <= made * E
      /\ Period + 512 <= (n + 1) * F
  BY DEF Drift, NumbersFit
<1>5. Value(now) - Value(simstart) < Period + 512
  <2>1. Value(now) + 512 < Base * Square
    BY <1>2, <1>3
  <2>. QED  BY <1>1, <1>2, <1>3, <2>1, GoesOn
<1>6. E \in Nat /\ F \in Int /\ E = Timestep + 512 /\ F = Timestep - 512
  BY <1>2
<1>. HIDE DEF n, E, F
<1>7. steps <= n
  BY <1>2, <1>3, <1>4, <1>5, <1>6
<1>8. made \in Nat
  BY <1>2
<1>. HIDE DEF made
<1>9. (made + 1) * E = made * E + E /\ made * E \in Int
  BY <1>6, <1>8
<1>11. /\ IsDouble(now') /\ Rounded(now')
       /\ (Value(now) + Timestep) - 512 <= Value(now')
       /\ Value(now') <= Value(now) + Timestep + 512
  BY <1>1, <1>2, <1>3, PlusValue DEF Timestep
<1>12. Value(now') \in Nat /\ Value(simstart') = Value(simstart)
  BY <1>1, <1>11, DoubleDigits
<1>13. Digits'
  BY <1>1, <1>2, <1>11 DEF Digits, Rounded
<1>14. (steps + 1) * F = steps * F + F /\ (steps + 1) * E = steps * E + E
       /\ steps * F \in Int /\ steps * E \in Int
  BY <1>2, <1>6
<1>15. /\ steps' <= n + 1
       /\ steps' * F <= Value(now') - Value(simstart')
       /\ Value(now') - Value(simstart') <= steps' * E
  BY <1>1, <1>2, <1>3, <1>4, <1>6, <1>7, <1>11, <1>12, <1>14
<1>16. Value(now') <= (periods' * (n + 1) + steps' + 1) * E
  <2>1. periods' * (n + 1) + steps' + 1 = made + 1
    BY <1>1, <1>2 DEF made
  <2>2. Value(now') <= made * E + E
    BY <1>2, <1>3, <1>4, <1>6, <1>9, <1>11, <1>12
  <2>3. Value(now') <= (made + 1) * E
    BY <1>9, <2>2
  <2>. QED  BY <2>1, <2>3
<1>17. Drift'
  BY <1>15, <1>16 DEF Drift, n, E, F, Timestep
<1>. QED  BY <1>13, <1>17

LEMMA NextPeriodDrift ==
  ASSUME Digits, Drift, NextPeriod
  PROVE  Digits' /\ Drift'
<1>. DEFINE n == nominalSteps
            E == Timestep + 512
<1>1. /\ periods < MaxPeriods /\ simstart' = now /\ steps' = 0 /\ periods' = periods + 1
      /\ now' = now
  BY DEF NextPeriod
<1>2. /\ IsDouble(now) /\ Rounded(now) /\ steps \in Nat /\ periods \in 0..MaxPeriods
      /\ MaxPeriods \in Nat /\ n \in Nat \ {0} /\ Timestep \in Nat /\ E \in Nat
  BY Numbers DEF Digits
<1>3. Value(now) \in Nat
  BY <1>2, DoubleDigits
<1>4. Digits'
  BY <1>1, <1>2 DEF Digits, Rounded
<1>5. /\ 0 * (Timestep - 512) = 0 /\ 0 * E = 0 /\ 0 <= n + 1
  BY <1>2
<1>6. steps <= n + 1 /\ Value(now) <= (periods * (n + 1) + steps + 1) * E
  BY DEF Drift
<1>. HIDE DEF n, E
<1>7. Value(now) <= ((periods + 1) * (n + 1) + 0 + 1) * E
  <2>. DEFINE a == periods * (n + 1) + steps + 1
              b == (periods + 1) * (n + 1) + 0 + 1
  <2>1. a \in Nat /\ b \in Nat /\ a <= b
    <3>1. (periods + 1) * (n + 1) = periods * (n + 1) + (n + 1) /\ periods * (n + 1) \in Nat
      BY <1>2
    <3>. QED  BY <1>2, <1>6, <3>1
  <2>2. Value(now) <= a * E
    BY <1>6
  <2>. HIDE DEF a, b
  <2>3. (b - a) * E >= 0 /\ (b - a) * E = b * E - a * E /\ a * E \in Int /\ b * E \in Int
    BY <1>2, <2>1
  <2>4. Value(now) <= b * E
    BY <1>3, <2>2, <2>3
  <2>. QED  BY <2>4 DEF b
<1>8. Value(now) - Value(now) = 0
  BY <1>3
<1>9. Drift'
  BY <1>1, <1>5, <1>7, <1>8 DEF Drift, n, E, Timestep
<1>. QED  BY <1>4, <1>9

LEMMA PeriodInvariant ==
  ASSUME NumbersFit
  PROVE  Spec => [](Digits /\ Drift)
<1>1. Digits /\ Drift /\ [Next]_vars => (Digits /\ Drift)'
  <2>. SUFFICES ASSUME Digits, Drift, [Next]_vars
                PROVE  Digits' /\ Drift'
    OBVIOUS
  <2>1. CASE SimulateStep
    BY <2>1, StepDrift
  <2>2. CASE NextPeriod
    BY <2>2, NextPeriodDrift
  <2>3. CASE UNCHANGED vars
    BY <2>3 DEF Digits, Drift, Rounded, Timestep, vars
  <2>. QED  BY <2>1, <2>2, <2>3 DEF Next
<1>2. Init => Digits /\ Drift
  BY InitDrift
<1>. QED  BY <1>1, <1>2, PTL DEF Spec

\* The times stay doubles, for every timestep and frequency that fit.
THEOREM TypeCorrect ==
  ASSUME NumbersFit
  PROVE  Spec => []TypeOK
<1>1. Digits => TypeOK
  BY DEF Digits, Rounded, TypeOK
<1>. QED  BY PeriodInvariant, <1>1, PTL

\* Rounding never ends a period before its nominal number of steps and adds one step at
\* most, for every timestep and frequency that fit and for as many periods as fit.
THEOREM PeriodsAreBounded ==
  ASSUME NumbersFit
  PROVE  Spec => []PeriodIsBounded
<1>1. Digits /\ Drift => PeriodIsBounded
  <2>. SUFFICES ASSUME Digits, Drift
                PROVE  PeriodIsBounded
    OBVIOUS
  <2>. DEFINE n == nominalSteps
              E == Timestep + 512
  <2>1. /\ IsDouble(now) /\ IsDouble(simstart) /\ steps \in Nat /\ n \in Nat \ {0}
        /\ Timestep \in Nat /\ Period \in Nat /\ E \in Nat
    BY Numbers DEF Digits
  <2>2. /\ Value(now) \in Nat /\ Value(simstart) \in Nat /\ Value(simstart) <= Value(now)
        /\ Value(now) + Timestep + 512 < Base * Square /\ Base * Square \in Int
    BY StepsFit
  <2>3. /\ steps <= n + 1 /\ Value(now) - Value(simstart) <= steps * E
        /\ (n - 1) * E < Period - 512
    BY DEF Drift, NumbersFit
  <2>4. ASSUME ~ PeriodGoesOn
        PROVE  steps >= n
    <3>1. Value(now) - Value(simstart) >= Period - 512
      <4>1. Value(now) + 512 < Base * Square
        BY <2>1, <2>2
      <4>. QED  BY <2>1, <2>2, <2>4, <4>1, GoesOn
    <3>. HIDE DEF n, E
    <3>. SUFFICES ASSUME steps < n
                  PROVE  FALSE
      BY <2>1
    <3>2. ((n - 1) - steps) * E >= 0 /\ ((n - 1) - steps) * E = (n - 1) * E - steps * E
          /\ (n - 1) * E \in Int /\ steps * E \in Int
      BY <2>1
    <3>. QED  BY <2>1, <2>2, <2>3, <3>1, <3>2
  <2>. QED  BY <2>3, <2>4 DEF PeriodIsBounded
<1>. QED  BY PeriodInvariant, <1>1, PTL

\* The numbers of MCControlPeriod, for up to 600 control periods, satisfy the assumption
\* of the theorems.
THEOREM ConfiguredNumbersFit ==
  ASSUME timestep = <<1048, 1207959, 1157628>>, controlPeriod = <<2097, 318767, 218104>>,
         nominalSteps = 2, MaxPeriods <= 600
  PROVE  NumbersFit
<1>1. Base = 2097152 /\ Square = 2097152 * 2097152
  BY Powers, SMT DEF Base, Square
<1>2. Timestep = 1048 * Square + 1207959 * Base + 1157628
  BY SMT DEF Timestep, Value
<1>3. Period = 2097 * Square + 318767 * Base + 218104
  BY SMT DEF Period, Value
<1>4. Timestep = 4611686018427388 /\ Period = 9223372036854776
  BY <1>1, <1>2, <1>3, SMT
<1>5. (MaxPeriods + 1) * (nominalSteps + 1) + 2 <= 1805 /\ MaxPeriods \in Nat
  BY Numbers, SMT
<1>6. Base * Square = 2097152 * 4398046511104
  <2>1. Square = 4398046511104 /\ Base = 2097152
    BY <1>1, SMT
  <2>. QED  BY <2>1, SMT
<1>. DEFINE m == (MaxPeriods + 1) * (nominalSteps + 1) + 2
<1>7. m \in Nat /\ m <= 1805
  BY <1>5, SMT
<1>. HIDE DEF m
<1>8. m * (4611686018427388 + 512) < 2097152 * 4398046511104
  <2>. DEFINE c == 4611686018427388 + 512
  <2>1. 1805 * c < 2097152 * 4398046511104
    BY SMT
  <2>2. c \in Nat
    BY SMT
  <2>. HIDE DEF c
  <2>3. /\ (1805 - m) * c >= 0 /\ (1805 - m) * c = 1805 * c - m * c
        /\ m * c \in Int /\ 1805 * c \in Int
    BY <1>7, <2>2, SMT
  <2>4. m * c <= 1805 * c
    BY <2>3, SMT
  <2>5. m * c < 2097152 * 4398046511104
    BY <2>1, <2>3, <2>4, SMT
  <2>. QED  BY <2>5, SMT DEF c
<1>. QED  BY <1>4, <1>6, <1>8, SMT DEF NumbersFit, m
=================================================================================
