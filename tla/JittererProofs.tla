--------------------------- MODULE JittererProofs ---------------------------
(***************************************************************************)
(* How long a task may wait, proved for every width of integers, source    *)
(* and header: the windows of Jitterer, when they cannot be drawn from,    *)
(* and what is drawn from them.                                            *)
(***************************************************************************)
EXTENDS Jitterer, TLAPS, WellFoundedInduction

-----------------------------------------------------------------------------
(* Division, wrapping around, and products with a fraction.                *)

(* What the quotient of two natural numbers is.                            *)
LEMMA DivFacts ==
    ASSUME NEW n \in Nat, NEW d \in Nat \ {0}
    PROVE  /\ n \div d \in Nat
           /\ d * (n \div d) <= n
           /\ n < d * (n \div d) + d
BY SMT

(* What the remainder of an integer is. *)
LEMMA ModFacts ==
    ASSUME NEW n \in Int, NEW d \in Nat \ {0}
    PROVE  /\ n % d \in 0 .. d - 1
           /\ \E k \in Int : n = d * k + (n % d)
<1>1. n = d * (n \div d) + (n % d) /\ n \div d \in Int /\ n % d \in 0 .. d - 1 BY SMT
<1> QED BY <1>1

(* A remainder is a number's only value in the range of remainders. *)
LEMMA ModUnique ==
    ASSUME NEW d \in Nat \ {0}, NEW k \in Int, NEW r \in 0 .. d - 1
    PROVE  (d * k + r) % d = r
<1> DEFINE m == (d * k + r) % d
<1>0. d * k + r \in Int OBVIOUS
<1>1. PICK h \in Int : d * k + r = d * h + m /\ m \in 0 .. d - 1
  <2> DEFINE n == d * k + r
  <2> HIDE DEF n
  <2>1. n % d \in 0 .. d - 1 /\ \E h \in Int : n = d * h + (n % d) BY <1>0, ModFacts DEF n
  <2> QED BY <2>1 DEF n
<1> HIDE DEF m
<1>2. d * (k - h) = m - r BY <1>1
<1>3. CASE k - h >= 1
  <2>1. d * (k - h) >= d BY <1>1, <1>3
  <2> QED BY <1>1, <1>2, <2>1
<1>4. CASE k - h <= -1
  <2>1. d * (k - h) <= -d BY <1>1, <1>4
  <2> QED BY <1>1, <1>2, <2>1
<1>5. CASE k = h
  <2>1. m = r BY <1>1, <1>5
  <2> QED BY <2>1 DEF m
<1> QED BY <1>1, <1>3, <1>4, <1>5

(* An int64 stays what it is, and what is off by less than the size of the *)
(* type comes back into it from the other side.                            *)
LEMMA WrapFacts ==
    ASSUME NEW n \in Int
    PROVE  /\ Wrap(n) \in Int64
           /\ n \in Int64 => Wrap(n) = n
           /\ n > MaxInt /\ n <= MaxInt + Size => Wrap(n) = n - Size
           /\ n < MinInt /\ n >= MinInt - Size => Wrap(n) = n + Size
<1>1. MaxInt \in Nat \ {0} /\ Size = 2 * MaxInt + 2 /\ Size \in Nat \ {0} /\ MinInt = -MaxInt - 1
  BY WidthAssumption DEF Size, MinInt
<1>2. Wrap(n) \in Int64
  <2>1. (n + MaxInt + 1) % Size \in 0 .. Size - 1 BY <1>1, ModFacts
  <2> QED BY <1>1, <2>1 DEF Wrap, Int64
<1>3. ASSUME NEW k \in {-1, 0, 1}, n + MaxInt + 1 - Size * k \in 0 .. Size - 1
      PROVE  Wrap(n) = n - Size * k
  <2> DEFINE r == n + MaxInt + 1 - Size * k
  <2>1. (Size * k + r) % Size = r
    <3>1. k \in Int OBVIOUS
    <3>2. r \in 0 .. Size - 1 BY <1>3
    <3> HIDE DEF r
    <3> QED BY <1>1, <3>1, <3>2, ModUnique
  <2>2. Size * k + r = n + MaxInt + 1 BY <1>1
  <2>3. (n + MaxInt + 1) % Size = r BY <2>1, <2>2
  <2>4. Wrap(n) = r - (MaxInt + 1) BY <2>3 DEF Wrap
  <2> QED BY <1>1, <2>4
<1>4. n \in Int64 => Wrap(n) = n
  <2>1. n \in Int64 => n + MaxInt + 1 - Size * 0 \in 0 .. Size - 1 BY <1>1 DEF Int64
  <2>2. n \in Int64 => Wrap(n) = n - Size * 0 BY <1>3, <2>1
  <2> QED BY <1>1, <2>2
<1>5. n > MaxInt /\ n <= MaxInt + Size => Wrap(n) = n - Size
  <2>1. n > MaxInt /\ n <= MaxInt + Size => n + MaxInt + 1 - Size * 1 \in 0 .. Size - 1 BY <1>1
  <2>2. n > MaxInt /\ n <= MaxInt + Size => Wrap(n) = n - Size * 1 BY <1>3, <2>1
  <2> QED BY <1>1, <2>2
<1>6. n < MinInt /\ n >= MinInt - Size => Wrap(n) = n + Size
  <2>1. n < MinInt /\ n >= MinInt - Size => n + MaxInt + 1 - Size * (-1) \in 0 .. Size - 1 BY <1>1
  <2>2. n < MinInt /\ n >= MinInt - Size => Wrap(n) = n - Size * (-1) BY <1>3, <2>1
  <2> QED BY <1>1, <2>2
<1> QED BY <1>2, <1>4, <1>5, <1>6

(* A wrapped even number is even: it is not the largest int64.             *)
LEMMA EvenIsNotLargest ==
    ASSUME NEW n \in Int, NEW h \in Int, n = 2 * h
    PROVE  Wrap(n) # MaxInt
<1>1. MaxInt \in Nat \ {0} /\ MaxInt % 2 = 1 /\ Size = 2 * MaxInt + 2 /\ Size \in Nat \ {0}
  BY WidthAssumption DEF Size
<1>2. PICK m \in Int : MaxInt = 2 * m + 1
  <2>1. MaxInt \in Int /\ 2 \in Nat \ {0} BY <1>1
  <2>2. \E m \in Int : MaxInt = 2 * m + (MaxInt % 2) BY ONLY <2>1, ModFacts
  <2> QED BY <1>1, <2>2
<1>3. PICK k \in Int : n + MaxInt + 1 = Size * k + ((n + MaxInt + 1) % Size)
  <2> DEFINE x == n + MaxInt + 1
  <2>1. x \in Int BY <1>1
  <2> HIDE DEF x
  <2>2. \E k \in Int : x = Size * k + (x % Size) BY <1>1, <2>1, ModFacts
  <2> QED BY <2>2 DEF x
<1>4. SUFFICES ASSUME Wrap(n) = MaxInt PROVE FALSE OBVIOUS
<1>5. (n + MaxInt + 1) % Size \in Int BY <1>1, SMT
<1>6. (n + MaxInt + 1) % Size = 2 * MaxInt + 1 BY <1>1, <1>4, <1>5 DEF Wrap
<1>7. n + MaxInt + 1 = (2 * MaxInt + 2) * k + 2 * MaxInt + 1 BY <1>1, <1>3, <1>6
<1>8. 2 * h = 2 * (MaxInt * k + k) + 2 * m + 1 BY <1>1, <1>2, <1>7
<1>9. MaxInt * k + k \in Int BY <1>1
<1> QED BY <1>8, <1>9, <1>2, SMT

(* Exact is large enough for roundings to add up to less than 5 in Exact.   *)
LEMMA RoundingsAddUp ==
    ASSUME NEW a \in Nat, NEW b \in Nat
    PROVE  /\ \A c \in Nat : Exact * a <= (Exact + 1) * b /\ Exact * c <= (Exact + 3) * a =>
                            Exact * c <= (Exact + 5) * b
           /\ \A c \in Nat : Exact * a >= (Exact - 1) * b /\ Exact * c > (Exact - 3) * a =>
                            Exact * c > (Exact - 5) * b
<1> DEFINE E == Exact
<1>1. E \in Nat /\ E >= 16 BY WidthAssumption
<1> HIDE DEF E
<1>2. ASSUME NEW c \in Nat, E * a <= (E + 1) * b, E * c <= (E + 3) * a
      PROVE  E * c <= (E + 5) * b
  <2>1. E * (E * c) <= E * ((E + 3) * a) BY <1>1, <1>2
  <2>2. (E + 3) * (E * a) <= (E + 3) * ((E + 1) * b) BY <1>1, <1>2
  <2>3. E * ((E + 3) * a) = (E + 3) * (E * a) BY <1>1
  <2>4. (E + 3) * ((E + 1) * b) = E * ((E + 4) * b) + 3 * b BY <1>1
  <2>5. E * ((E + 5) * b) = E * ((E + 4) * b) + E * b BY <1>1
  <2>6. 3 * b <= E * b BY <1>1
  <2> DEFINE x == E * c
             y == (E + 5) * b
  <2>7. x \in Int /\ y \in Int BY <1>1
  <2>8. E * x <= E * y BY <1>1, <2>1, <2>2, <2>3, <2>4, <2>5, <2>6
  <2> HIDE DEF x, y
  <2>9. x <= y BY <1>1, <2>7, <2>8
  <2> QED BY <2>9 DEF x, y
<1>3. ASSUME NEW c \in Nat, E * a >= (E - 1) * b, E * c > (E - 3) * a
      PROVE  E * c > (E - 5) * b
  <2>1. E * (E * c) > E * ((E - 3) * a) BY <1>1, <1>3
  <2>2. (E - 3) * (E * a) >= (E - 3) * ((E - 1) * b) BY <1>1, <1>3
  <2>3. E * ((E - 3) * a) = (E - 3) * (E * a) BY <1>1
  <2>4. (E - 3) * ((E - 1) * b) = E * ((E - 4) * b) + 3 * b BY <1>1
  <2>5. E * ((E - 5) * b) = E * ((E - 4) * b) - E * b BY <1>1
  <2>6. 0 <= E * b BY <1>1
  <2> DEFINE x == E * c
             y == (E - 5) * b
  <2>7. x \in Int /\ y \in Int BY <1>1
  <2>8. E * x > E * y BY <1>1, <2>1, <2>2, <2>3, <2>4, <2>5, <2>6
  <2> HIDE DEF x, y
  <2>9. x > y BY <1>1, <2>7, <2>8
  <2> QED BY <2>9 DEF x, y
<1> QED BY <1>2, <1>3 DEF E

(* The float64 of a duration is what it is, or almost. *)
LEMMA RoundedFacts ==
    ASSUME NEW d \in 1 .. MaxInt, NEW r \in Rounded(d)
    PROVE  /\ r \in 1 .. MaxInt + 1
           /\ Exact * r <= (Exact + 1) * d
           /\ Exact * r >= (Exact - 1) * d
           /\ d <= Exact => r = d
<1> DEFINE E == Exact
           o == d \div E
<1>1. E \in Nat \ {0} /\ E >= 16 /\ MaxInt \in Nat BY WidthAssumption
<1>2. d \in Nat \ {0} /\ d <= MaxInt BY <1>1
<1>3. o \in Nat /\ E * o <= d BY <1>1, <1>2, DivFacts
<1>4. CASE d <= E
  <2>1. r = d BY <1>4 DEF Rounded
  <2> QED BY <1>1, <1>2, <2>1
<1>5. CASE ~(d <= E)
  <2>1. r \in d - o .. d + o /\ r <= MaxInt + 1 BY <1>5 DEF Rounded
  <2> HIDE DEF o, E
  <2>2. E * r <= E * (d + o) /\ E * r >= E * (d - o) /\ r \in Int BY <1>1, <1>2, <1>3, <2>1
  <2>3. E * (d + o) = E * d + E * o /\ E * (d - o) = E * d - E * o BY <1>1, <1>2, <1>3
  <2>4. E * r <= (E + 1) * d /\ E * r >= (E - 1) * d BY <1>1, <1>2, <1>3, <2>2, <2>3
  <2>5. r >= 1
    <3>1. (E - 1) * d >= 1 BY <1>1, <1>2
    <3> QED BY <1>1, <2>2, <2>4, <3>1
  <2> QED BY <1>1, <1>5, <2>1, <2>2, <2>4, <2>5 DEF E
<1> QED BY <1>4, <1>5

(* A product with a factor that is not negative is the exact one but for    *)
(* rounding, and on the same side of the rounded duration.                  *)
LEMMA ScaledFacts ==
    ASSUME NEW num \in Nat, NEW den \in Nat \ {0}, NEW d \in 1 .. MaxInt,
           NEW r \in Rounded(d), NEW q \in Scaled(num, den, r)
    PROVE  /\ q \in Nat
           /\ q * den * Exact <= num * d * (Exact + 5)
           /\ (q + 1) * den * Exact > num * d * (Exact - 5)
           /\ num <= den => q <= r
           /\ num >= den => q >= r
<1> DEFINE E == Exact
           a == num * r
           lo == (a * (E - 3)) \div (den * E)
           hi == (a * (E + 3)) \div (den * E)
<1>1. E \in Nat \ {0} /\ E >= 16 /\ MaxInt \in Nat BY WidthAssumption
<1>2. r \in Nat /\ d \in Nat /\ E * r <= (E + 1) * d /\ E * r >= (E - 1) * d
  BY <1>1, RoundedFacts
<1>3. q \in lo .. hi /\ (num <= den => q <= r) /\ (num >= den => q >= r) BY DEF Scaled
<1>4. a \in Nat /\ num * d \in Nat /\ den * E \in Nat \ {0} BY <1>1, <1>2
<1>5. a * (E + 3) \in Nat /\ a * (E - 3) \in Nat
  <2> HIDE DEF a
  <2> QED BY <1>1, <1>4
<1>6. /\ lo \in Nat /\ a * (E - 3) < (den * E) * lo + den * E
      /\ hi \in Nat /\ (den * E) * hi <= a * (E + 3)
  <2> DEFINE m == den * E
             x == a * (E - 3)
             y == a * (E + 3)
  <2>1. m \in Nat \ {0} /\ x \in Nat /\ y \in Nat BY <1>4, <1>5
  <2> HIDE DEF m, x, y
  <2>2. x \div m \in Nat /\ x < m * (x \div m) + m /\ y \div m \in Nat /\ m * (y \div m) <= y
    BY <2>1, DivFacts
  <2> QED BY <2>2 DEF m, x, y
<1>7. E * a <= (E + 1) * (num * d) /\ E * a >= (E - 1) * (num * d)
  <2>1. num * (E * r) <= num * ((E + 1) * d) /\ num * (E * r) >= num * ((E - 1) * d) BY <1>1, <1>2
  <2> QED BY <1>1, <1>2, <2>1
<1> HIDE DEF lo, hi, a
<1>8. q \in Nat BY <1>3, <1>6
<1>9. E * (q * den) <= (E + 3) * a
  <2>1. (den * E) * q <= (den * E) * hi BY <1>3, <1>4, <1>6, <1>8
  <2> QED BY <1>1, <1>4, <1>6, <1>8, <2>1
<1>10. E * ((q + 1) * den) > (E - 3) * a
  <2>1. (den * E) * lo <= (den * E) * q BY <1>3, <1>4, <1>6, <1>8
  <2> QED BY <1>1, <1>4, <1>6, <1>8, <2>1
<1> DEFINE b == num * d
           c == q * den
           e == (q + 1) * den
<1>11. b \in Nat /\ c \in Nat /\ e \in Nat BY <1>4, <1>8
<1>12. q * den * E = E * c /\ (q + 1) * den * E = E * e BY <1>1, <1>8
<1>13. E * c <= (E + 5) * b /\ E * e > (E - 5) * b
  <2> HIDE DEF b, c, e
  <2> QED BY <1>4, <1>7, <1>9, <1>10, <1>11, RoundingsAddUp DEF b, c, e
<1>14. num * d * (E + 5) = (E + 5) * b /\ num * d * (E - 5) = (E - 5) * b BY <1>1, <1>2
<1> HIDE DEF b, c, e
<1> QED BY <1>3, <1>8, <1>12, <1>13, <1>14 DEF E

-----------------------------------------------------------------------------
(* Windows, and what is drawn from them.                                    *)

(* Whatever a source has unset or improper gives way to a proper default.   *)
LEMMA SettingFacts ==
    ASSUME NEW s, Configured(s)
    PROVE  /\ MinIntervalOf(s) \in 1 .. MaxInt
           /\ IntervalOf(s) \in 1 .. MaxInt
           /\ JitterOf(s) \in Fraction /\ Proper(JitterOf(s)) /\ Precise(JitterOf(s))
<1>1. MaxInt \in Nat BY WidthAssumption
<1>2. MinIntervalOf(s) \in 1 .. MaxInt
  BY <1>1, DefaultsAssumption DEF MinIntervalOf, Configured, Int64, MinInt
<1>3. IntervalOf(s) \in 1 .. MaxInt
  BY <1>1, DefaultsAssumption DEF IntervalOf, Configured, Int64, MinInt
<1>4. JitterOf(s) \in Fraction /\ Proper(JitterOf(s)) /\ Precise(JitterOf(s))
  BY DefaultsAssumption DEF JitterOf, Configured
<1> QED BY <1>2, <1>3, <1>4

(* A window can be drawn from if its end is not below its base, nor too far *)
(* above it; what is drawn lies between the two, unless the minimum is       *)
(* longer.                                                                   *)
LEMMA DrawnFacts ==
    ASSUME NEW s, Configured(s), NEW base \in Int64, NEW top \in Int64,
           base <= top, top - base < MaxInt
    PROVE  /\ ~Panics(Window(base, top))
           /\ \A next \in Drawn(s, Window(base, top)) :
                 /\ next \in MinIntervalOf(s) .. MaxInt
                 /\ next >= base
                 /\ next = MinIntervalOf(s) \/ next <= top
<1>1. MaxInt \in Nat /\ MinInt = -MaxInt - 1 BY WidthAssumption DEF MinInt
<1>2. MinIntervalOf(s) \in 1 .. MaxInt BY SettingFacts
<1>3. Window(base, top).range = top - base + 1 /\ Window(base, top).base = base
  <2>1. top - base \in Int64 BY <1>1 DEF Int64
  <2>2. Wrap(top - base) = top - base BY <2>1, WrapFacts DEF Int64
  <2>3. top - base + 1 \in Int64 BY <1>1 DEF Int64
  <2>4. Wrap(top - base + 1) = top - base + 1 BY <2>3, WrapFacts DEF Int64
  <2> QED BY <2>2, <2>4 DEF Window
<1>4. ~Panics(Window(base, top)) BY <1>1, <1>3 DEF Panics, Int64
<1>5. ASSUME NEW next \in Drawn(s, Window(base, top))
      PROVE  /\ next \in MinIntervalOf(s) .. MaxInt
             /\ next >= base
             /\ next = MinIntervalOf(s) \/ next <= top
  <2>1. PICK r \in 0 .. top - base : next = AtLeastMin(s, Wrap(base + r))
    BY <1>1, <1>3, <1>5 DEF Drawn, Int64
  <2>2. base + r \in Int64 /\ base + r \in base .. top BY <1>1 DEF Int64
  <2>3. Wrap(base + r) = base + r BY <2>2, WrapFacts DEF Int64
  <2>4. base + r <= MaxInt BY <1>1, <2>2 DEF Int64
  <2>5. next = IF base + r < MinIntervalOf(s) THEN MinIntervalOf(s) ELSE base + r
    BY <2>1, <2>3 DEF AtLeastMin
  <2>6. base + r \in Int /\ base + r >= base /\ base + r <= top BY <1>1 DEF Int64
  <2>7. base \in Int /\ top \in Int BY <1>1 DEF Int64
  <2> DEFINE x == base + r
  <2> HIDE DEF x
  <2> QED BY <1>1, <1>2, <2>4, <2>5, <2>6, <2>7 DEF x
<1> QED BY <1>4, <1>5

(* What is later is not too soon, and what is sooner is not too late.        *)
LEMMA SoonerAndLater ==
    ASSUME NEW s, Configured(s), NEW d \in Int, NEW e \in Int, d <= e
    PROVE  /\ NotTooSoon(s, d) => NotTooSoon(s, e)
           /\ NotTooLate(s, e) => NotTooLate(s, d)
<1> DEFINE m == JitterOf(s).den * Exact
<1>1. /\ JitterOf(s).den \in Nat \ {0} /\ JitterOf(s).num \in Int
      /\ IntervalOf(s) \in Int /\ Exact \in Nat
  BY SettingFacts, WidthAssumption DEF Fraction
<1>2. m \in Nat BY <1>1
<1>3. /\ (d + 1) * JitterOf(s).den * Exact = (d + 1) * m /\ d * JitterOf(s).den * Exact = d * m
      /\ (e + 1) * JitterOf(s).den * Exact = (e + 1) * m /\ e * JitterOf(s).den * Exact = e * m
  BY <1>1
<1>4. (JitterOf(s).den - JitterOf(s).num) * IntervalOf(s) * (Exact - 5) \in Int BY <1>1
<1>5. (JitterOf(s).den + JitterOf(s).num) * IntervalOf(s) * (Exact + 5) \in Int BY <1>1
<1> HIDE DEF m
<1>6. (d + 1) * m <= (e + 1) * m /\ d * m <= e * m BY <1>2
<1>7. (d + 1) * m \in Int /\ (e + 1) * m \in Int /\ d * m \in Int /\ e * m \in Int BY <1>2
<1> QED BY <1>3, <1>4, <1>5, <1>6, <1>7 DEF NotTooSoon, NotTooLate

(* The two ends of the window for an interval, before they are converted;   *)
(* the first is positive if the other is near the largest int64.            *)
LEMMA EndFacts ==
    ASSUME NEW s, Configured(s), NEW r \in Rounded(IntervalOf(s)),
           NEW base \in Product(JitterOf(s).den - JitterOf(s).num, JitterOf(s).den, r),
           NEW top \in Product(JitterOf(s).den + JitterOf(s).num, JitterOf(s).den, r)
    PROVE  /\ base \in Nat /\ top \in Nat /\ base <= top
           /\ NotTooSoon(s, base) /\ NotTooLate(s, top)
           /\ top >= MaxInt => base >= 2 /\ Overflows(s)
<1> DEFINE num == JitterOf(s).num
           den == JitterOf(s).den
           i   == IntervalOf(s)
           E   == Exact
<1>1. /\ num \in Nat \ {0} /\ den \in Nat \ {0} /\ num < den
      /\ i \in 1 .. MaxInt /\ MaxInt \in Nat \ {0} /\ E \in Nat /\ E >= 16
      /\ (den - num) * MaxInt >= 8 * den
  BY SettingFacts, WidthAssumption DEF Fraction, Proper, Precise
<1>2. den - num \in Nat /\ den + num \in Nat /\ den - num <= den /\ den + num >= den BY <1>1
<1>3. base \in Scaled(den - num, den, r) /\ top \in Scaled(den + num, den, r)
  BY <1>2 DEF Product
<1>4. /\ base \in Nat /\ (base + 1) * den * E > (den - num) * i * (E - 5)
      /\ den - num <= den => base <= r
  BY <1>1, <1>2, <1>3, ScaledFacts
<1>5. /\ top \in Nat /\ top * den * E <= (den + num) * i * (E + 5)
      /\ den + num >= den => top >= r
  BY <1>1, <1>2, <1>3, ScaledFacts
<1>6. r \in Int BY <1>1, RoundedFacts
<1>7. base <= top BY <1>2, <1>4, <1>5, <1>6
<1>8. NotTooSoon(s, base) /\ NotTooLate(s, top) BY <1>4, <1>5 DEF NotTooSoon, NotTooLate
<1>9. ASSUME top >= MaxInt PROVE base >= 2 /\ Overflows(s)
  <2>1. Overflows(s) BY <1>1, <1>5, <1>8, <1>9, SoonerAndLater DEF Overflows
  <2>2. MaxInt * den * E <= (den + num) * i * (E + 5) BY <2>1 DEF Overflows, NotTooLate
  <2> HIDE DEF num, den, i, E
  <2>3. MaxInt * E <= 2 * i * (E + 5)
    <3> DEFINE x == MaxInt * E
               y == 2 * i * (E + 5)
    <3>1. x \in Nat /\ y \in Nat BY <1>1
    <3>2. (den + num) * (i * (E + 5)) <= (2 * den) * (i * (E + 5)) BY <1>1
    <3>3. den * x <= den * y BY <1>1, <2>2, <3>2
    <3> HIDE DEF x, y
    <3>4. x <= y BY <1>1, <3>1, <3>3
    <3> QED BY <3>4 DEF x, y
  <2>4. SUFFICES ASSUME base <= 1 PROVE FALSE BY <1>4, <2>1
  <2>5. 2 * den * E > (den - num) * i * (E - 5)
    <3>1. (base + 1) * (den * E) <= 2 * (den * E) BY <1>1, <1>4, <2>4
    <3>2. (den - num) * i * (E - 5) \in Int /\ den * E \in Int BY <1>1
    <3> QED BY <1>1, <1>4, <3>1, <3>2
  <2> DEFINE k == den - num
             a == k * (E - 5)
  <2>6. k \in Nat /\ a \in Nat BY <1>1
  <2>7. (E + 5) * (4 * (den * E)) > a * (2 * i * (E + 5))
    <3>1. 2 * den * E > a * i BY <1>1, <2>5
    <3>2. 2 * den * E \in Int /\ a * i \in Int BY <1>1
    <3> DEFINE x == 2 * den * E
               y == a * i
    <3> HIDE DEF x, y
    <3>3. (E + 5) * (2 * x) > (E + 5) * (2 * y) BY <1>1, <3>1, <3>2 DEF x, y
    <3> QED BY <1>1, <2>6, <3>3 DEF x, y
  <2>8. a * (2 * i * (E + 5)) >= a * (MaxInt * E)
    <3> DEFINE x == MaxInt * E
               y == 2 * i * (E + 5)
    <3>1. x \in Nat /\ y \in Nat BY <1>1
    <3> HIDE DEF x, y, a
    <3> QED BY <2>3, <2>6, <3>1 DEF x, y
  <2>9. a * (MaxInt * E) >= (E - 5) * (E * (8 * den))
    <3>1. k * MaxInt >= 8 * den BY <1>1
    <3>2. (E - 5) * E \in Nat BY <1>1
    <3>3. ((E - 5) * E) * (k * MaxInt) >= ((E - 5) * E) * (8 * den)
      <4> DEFINE x == k * MaxInt
                 y == 8 * den
                 z == (E - 5) * E
      <4>1. x \in Nat /\ y \in Nat /\ z \in Nat BY <1>1, <2>6, <3>2
      <4> HIDE DEF x, y, z
      <4>2. z * x >= z * y BY <3>1, <4>1 DEF x, y
      <4> QED BY <4>2 DEF x, y, z
    <3> QED BY <1>1, <2>6, <3>3
  <2>10. (E + 5) * (4 * (den * E)) > (E - 5) * (8 * (den * E))
    <3>1. (E - 5) * (E * (8 * den)) = (E - 5) * (8 * (den * E)) BY <1>1
    <3>2. /\ (E + 5) * (4 * (den * E)) \in Int /\ a * (2 * i * (E + 5)) \in Int
          /\ a * (MaxInt * E) \in Int /\ (E - 5) * (8 * (den * E)) \in Int
      BY <1>1, <2>6
    <3> QED BY <2>7, <2>8, <2>9, <3>1, <3>2
  <2>11. den * E \in Nat \ {0} BY <1>1
  <2> DEFINE m == den * E
  <2> HIDE DEF m
  <2>12. (E - 5) * (8 * m) = (8 * E - 40) * m /\ (E + 5) * (4 * m) = (4 * E + 20) * m
    BY <1>1, <2>11 DEF m
  <2>13. (4 * E + 20) * m <= (8 * E - 40) * m BY <1>1, <2>11 DEF m
  <2> QED BY <1>1, <2>10, <2>11, <2>12, <2>13 DEF m
<1> QED BY <1>4, <1>5, <1>7, <1>8, <1>9

(* A window for an interval can be drawn from, whatever the interval and    *)
(* the jitter are, and what is drawn is within the jitter, but for the      *)
(* minimum and for what overflows.                                          *)
LEMMA IntervalWindowFacts ==
    ASSUME NEW s, Configured(s), NEW w \in IntervalWindows(s)
    PROVE  /\ ~Panics(w)
           /\ \A next \in Drawn(s, w) :
                 /\ next \in MinIntervalOf(s) .. MaxInt
                 /\ NotTooSoon(s, next) \/ (next = MinIntervalOf(s) /\ Overflows(s))
                 /\ NotTooLate(s, next) \/ next = MinIntervalOf(s)
<1> DEFINE j   == JitterOf(s)
           min == MinIntervalOf(s)
           Fits == /\ ~Panics(w)
                   /\ \A next \in Drawn(s, w) :
                         /\ next \in min .. MaxInt
                         /\ NotTooSoon(s, next) \/ (next = min /\ Overflows(s))
                         /\ NotTooLate(s, next) \/ next = min
<1>1. /\ MaxInt \in Nat \ {0} /\ MinInt = -MaxInt - 1 /\ Size = 2 * MaxInt + 2
  BY WidthAssumption DEF MinInt, Size
<1>2. PICK r \in Rounded(IntervalOf(s)) :
         \E base \in Product(j.den - j.num, j.den, r), top \in Product(j.den + j.num, j.den, r),
            large \in TooLarge : w = Window(Converted(base, large), Converted(top, large))
  BY DEF IntervalWindows, Around
<1>3. PICK base \in Product(j.den - j.num, j.den, r), top \in Product(j.den + j.num, j.den, r),
            large \in TooLarge : w = Window(Converted(base, large), Converted(top, large))
  BY <1>2
<1>4. min \in 1 .. MaxInt BY SettingFacts
<1>5. /\ base \in Nat /\ top \in Nat /\ base <= top
      /\ NotTooSoon(s, base) /\ NotTooLate(s, top)
      /\ top >= MaxInt => base >= 2 /\ Overflows(s)
  BY EndFacts
<1>6. large = MinInt \/ large = MaxInt BY DEF TooLarge
<1>7. SUFFICES Fits OBVIOUS
<1> HIDE DEF min
<1>8. CASE top <= MaxInt
  <2>1. w = Window(base, top) BY <1>1, <1>3, <1>5, <1>8 DEF Converted
  <2>2. base \in Int64 /\ top \in Int64 /\ top - base < MaxInt BY <1>1, <1>5, <1>8 DEF Int64
  <2>3. ~Panics(w) BY <1>5, <2>1, <2>2, DrawnFacts
  <2>4. ASSUME NEW next \in Drawn(s, w)
        PROVE  next \in min .. MaxInt /\ NotTooSoon(s, next) /\ (NotTooLate(s, next) \/ next = min)
    <3>1. next \in min .. MaxInt /\ next >= base /\ (next = min \/ next <= top)
      BY <1>5, <2>1, <2>2, <2>4, DrawnFacts DEF min
    <3>2. next \in Int BY <1>4, <3>1
    <3> QED BY <1>5, <3>1, <3>2, SoonerAndLater
  <2> QED BY <2>3, <2>4
<1>9. CASE top > MaxInt /\ base <= MaxInt /\ large = MaxInt
  <2>1. w = Window(base, MaxInt) BY <1>1, <1>3, <1>5, <1>9 DEF Converted
  <2>2. base \in Int64 /\ MaxInt \in Int64 /\ MaxInt - base < MaxInt BY <1>1, <1>5, <1>9 DEF Int64
  <2>3. ~Panics(w) BY <1>9, <2>1, <2>2, DrawnFacts
  <2>4. ASSUME NEW next \in Drawn(s, w)
        PROVE  next \in min .. MaxInt /\ NotTooSoon(s, next) /\ NotTooLate(s, next)
    <3>1. next \in min .. MaxInt /\ next >= base
      BY <1>9, <2>1, <2>2, <2>4, DrawnFacts DEF min
    <3>2. next \in Int /\ next <= top BY <1>1, <1>4, <1>5, <1>9, <3>1
    <3> QED BY <1>5, <3>1, <3>2, SoonerAndLater
  <2> QED BY <2>3, <2>4
<1>10. CASE top > MaxInt /\ base <= MaxInt /\ large = MinInt
  <2>1. base >= 2 /\ base <= MaxInt /\ base \in Int /\ Overflows(s) BY <1>1, <1>5, <1>10
  <2>2. w.base = base /\ w.range = MaxInt + 2 - base
    <3>1. w = Window(base, MinInt) BY <1>1, <1>3, <1>5, <1>10 DEF Converted
    <3>2. MinInt - base \in Int /\ MinInt - base < MinInt /\ MinInt - base >= MinInt - Size
      BY <1>1, <2>1
    <3>3. Wrap(MinInt - base) = MaxInt + 1 - base BY <1>1, <2>1, <3>2, WrapFacts
    <3>4. MaxInt + 1 - base + 1 \in Int64 BY <1>1, <2>1 DEF Int64
    <3>5. Wrap(MaxInt + 1 - base + 1) = MaxInt + 1 - base + 1 BY <3>4, WrapFacts DEF Int64
    <3> QED BY <1>1, <2>1, <3>1, <3>3, <3>5 DEF Window
  <2>3. ~Panics(w) BY <1>1, <2>1, <2>2 DEF Panics
  <2>4. ASSUME NEW next \in Drawn(s, w)
        PROVE  /\ next \in min .. MaxInt
               /\ NotTooSoon(s, next) \/ next = min
               /\ NotTooLate(s, next)
    <3>1. PICK x \in 0 .. MaxInt + 1 - base : next = AtLeastMin(s, Wrap(base + x))
      BY <1>1, <2>1, <2>2, <2>4 DEF Drawn
    <3>2. CASE base + x <= MaxInt
      <4>1. base + x \in Int64 BY <1>1, <2>1, <3>1, <3>2 DEF Int64
      <4>2. Wrap(base + x) = base + x BY <4>1, WrapFacts DEF Int64
      <4>3. next \in min .. MaxInt /\ next >= base
        BY <1>1, <1>4, <2>1, <3>1, <3>2, <4>2 DEF AtLeastMin, min
      <4>4. next \in Int /\ next <= top BY <1>1, <1>4, <1>5, <1>10, <4>3
      <4> QED BY <1>5, <4>3, <4>4, SoonerAndLater
    <3>3. CASE base + x = MaxInt + 1
      <4>1. Wrap(MaxInt + 1) = MinInt BY <1>1, WrapFacts
      <4>2. next = min BY <1>1, <1>4, <3>1, <3>3, <4>1 DEF AtLeastMin, min
      <4>3. next \in Int /\ next <= top BY <1>1, <1>4, <1>5, <1>10, <4>2
      <4> QED BY <1>1, <1>4, <1>5, <4>2, <4>3, SoonerAndLater
    <3> QED BY <1>1, <2>1, <3>1, <3>2, <3>3
  <2> QED BY <2>1, <2>3, <2>4
<1>11. CASE base > MaxInt
  <2>1. w = Window(large, large) /\ Overflows(s) BY <1>1, <1>3, <1>5, <1>11 DEF Converted
  <2>2. large \in Int64 /\ large - large < MaxInt /\ large <= large BY <1>1, <1>6 DEF Int64
  <2>3. ~Panics(w) BY <2>1, <2>2, DrawnFacts
  <2>4. ASSUME NEW next \in Drawn(s, w)
        PROVE  /\ next \in min .. MaxInt
               /\ NotTooSoon(s, next) \/ next = min
               /\ NotTooLate(s, next)
    <3>1. next \in min .. MaxInt /\ next >= large /\ (next = min \/ next <= large)
      BY <2>1, <2>2, <2>4, DrawnFacts DEF min
    <3>2. next \in Int /\ next <= top BY <1>1, <1>4, <1>5, <1>11, <3>1
    <3>3. NotTooLate(s, next) BY <1>5, <3>2, SoonerAndLater
    <3>4. CASE large = MinInt BY <1>1, <1>4, <3>1, <3>3, <3>4
    <3>5. CASE large = MaxInt
      <4>1. next = MaxInt BY <1>1, <1>4, <3>1, <3>5
      <4>2. NotTooSoon(s, MaxInt)
        <5> DEFINE num == j.num
                   den == j.den
                   i   == IntervalOf(s)
                   E   == Exact
        <5>1. /\ num \in Nat \ {0} /\ den \in Nat \ {0} /\ num < den
              /\ i \in 1 .. MaxInt /\ E \in Nat /\ E >= 16
          BY SettingFacts, WidthAssumption DEF Fraction, Proper
        <5> HIDE DEF num, den, i, E
        <5>2. (den - num) * i <= den * (MaxInt + 1)
          <6>1. (den - num) * i <= den * i BY <1>1, <5>1
          <6>2. den * i <= den * (MaxInt + 1) BY <1>1, <5>1
          <6> QED BY <1>1, <5>1, <6>1, <6>2
        <5> DEFINE x == (den - num) * i
                   y == den * (MaxInt + 1)
        <5>3. x \in Nat /\ y \in Nat \ {0} BY <1>1, <5>1
        <5>4. (MaxInt + 1) * den * E = y * E BY <1>1, <5>1
        <5> HIDE DEF x, y
        <5>5. x * (E - 5) <= y * (E - 5) BY <5>1, <5>2, <5>3 DEF x, y
        <5>6. y * (E - 5) < y * E BY <5>1, <5>3
        <5>7. x * (E - 5) < y * E BY <5>1, <5>3, <5>5, <5>6
        <5> QED BY <5>4, <5>7 DEF NotTooSoon, x, num, den, i, E
      <4> QED BY <3>1, <3>3, <4>1, <4>2
    <3> QED BY <1>6, <3>4, <3>5
  <2> QED BY <2>1, <2>3, <2>4
<1> QED BY <1>1, <1>5, <1>6, <1>8, <1>9, <1>10, <1>11

(* A window for a TTL ends with it.  It can be drawn from unless it is too   *)
(* wide or too narrow.                                                      *)
LEMMA TTLWindowFacts ==
    ASSUME NEW s, Configured(s), NEW ttl \in 1 .. MaxInt, ttl # MaxInt,
           NEW w \in TTLWindows(s, ttl)
    PROVE  /\ Panics(w) => TooWide(s, ttl) \/ TooNarrow(s, ttl)
           /\ ~Panics(w) => \A next \in Drawn(s, w) :
                 /\ next \in MinIntervalOf(s) .. MaxInt
                 /\ next = MinIntervalOf(s) \/ next <= ttl
<1> DEFINE num == JitterOf(s).num
           den == JitterOf(s).den
           E   == Exact
           f   == den - 2 * num
<1>1. /\ MaxInt \in Nat \ {0} /\ MinInt = -MaxInt - 1 /\ Size = 2 * MaxInt + 2
      /\ E \in Nat /\ E >= 16
  BY WidthAssumption DEF MinInt, Size
<1>2. num \in Nat \ {0} /\ den \in Nat \ {0} /\ num < den
  BY SettingFacts DEF Fraction, Proper
<1>3. PICK r \in Rounded(ttl) : \E q \in Product(f, den, r), large \in TooLarge :
         w = Window(Converted(q, large), ttl)
  BY DEF TTLWindows
<1>4. PICK q \in Product(f, den, r), large \in TooLarge : w = Window(Converted(q, large), ttl)
  BY <1>3
<1>5. large = MinInt \/ large = MaxInt BY DEF TooLarge
<1>6. r \in 1 .. MaxInt + 1 /\ (ttl <= E => r = ttl) BY RoundedFacts
<1> HIDE DEF num, den, E
<1>7. CASE f >= 0
  <2> DEFINE c == q * den
  <2>1. q \in Nat /\ q * den * E <= f * ttl * (E + 5) /\ q <= r
    <3>1. q \in Scaled(f, den, r) /\ f \in Nat /\ f <= den BY <1>2, <1>4, <1>7 DEF Product
    <3> HIDE DEF f
    <3> QED BY <1>2, <3>1, ScaledFacts DEF E
  <2>2. q > ttl => TooNarrow(s, ttl)
    <3>1. SUFFICES ASSUME q > ttl PROVE TooNarrow(s, ttl) OBVIOUS
    <3>2. ttl > E BY <1>1, <1>6, <2>1, <3>1
    <3>3. ttl * (den * E) < ttl * (f * (E + 5))
      <4>1. ttl * (den * E) < q * (den * E)
        <5> DEFINE m == den * E
        <5>1. m \in Nat \ {0} BY <1>1, <1>2
        <5> HIDE DEF m
        <5>2. ttl * m < q * m BY <2>1, <3>1, <5>1
        <5> QED BY <5>2 DEF m
      <4> QED BY <1>1, <1>2, <1>7, <2>1, <4>1
    <3>4. den * E < f * (E + 5)
      <4> DEFINE x == den * E
                 y == f * (E + 5)
      <4>1. x \in Int /\ y \in Int /\ ttl \in Nat \ {0} BY <1>1, <1>2
      <4> HIDE DEF x, y
      <4>2. ttl * x < ttl * y BY <3>3 DEF x, y
      <4>3. x < y BY <4>1, <4>2
      <4> QED BY <4>3 DEF x, y
    <3>5. f * (E + 5) = den * E + 5 * den - 2 * num * E - 10 * num BY <1>1, <1>2
    <3>6. 2 * num * E < 5 * den BY <1>1, <1>2, <3>4, <3>5
    <3> QED BY <3>2, <3>6 DEF TooNarrow, num, den, E
  <2>3. CASE q <= ttl
    <3>1. w = Window(q, ttl) BY <1>1, <1>4, <2>1, <2>3 DEF Converted
    <3>2. q \in Int64 /\ ttl \in Int64 /\ ttl - q < MaxInt BY <1>1, <2>1, <2>3 DEF Int64
    <3> QED BY <2>3, <3>1, <3>2, DrawnFacts
  <2>4. CASE q > ttl
    <3>1. Panics(w)
      <4>1. ASSUME NEW b \in Int64, w = Window(b, ttl), b > ttl
            PROVE  w.range <= 0 /\ w.range \in Int
        <5>1. ttl - b \in Int64 /\ ttl - b + 1 \in Int64 BY <1>1, <4>1 DEF Int64
        <5>2. Wrap(ttl - b) = ttl - b BY <5>1, WrapFacts DEF Int64
        <5>3. Wrap(ttl - b + 1) = ttl - b + 1 BY <5>1, WrapFacts DEF Int64
        <5>4. w.range = ttl - b + 1 BY <4>1, <5>2, <5>3 DEF Window
        <5> QED BY <1>1, <4>1, <5>4 DEF Int64
      <4>2. ASSUME w = Window(MinInt, ttl) PROVE w.range <= 0 /\ w.range \in Int
        <5>1. ttl - MinInt \in Int /\ ttl - MinInt > MaxInt /\ ttl - MinInt <= MaxInt + Size
          BY <1>1
        <5>2. Wrap(ttl - MinInt) = ttl - MaxInt - 1 BY <1>1, <5>1, WrapFacts
        <5>3. ttl - MaxInt - 1 + 1 \in Int64 BY <1>1 DEF Int64
        <5>4. Wrap(ttl - MaxInt - 1 + 1) = ttl - MaxInt - 1 + 1 BY <5>3, WrapFacts DEF Int64
        <5>5. w.range = ttl - MaxInt BY <1>1, <4>2, <5>2, <5>4 DEF Window
        <5> QED BY <1>1, <5>5
      <4>3. CASE q <= MaxInt
        <5>1. w = Window(q, ttl) /\ q \in Int64 BY <1>1, <1>4, <2>1, <4>3 DEF Converted, Int64
        <5> QED BY <2>4, <4>1, <5>1 DEF Panics
      <4>4. CASE q > MaxInt /\ large = MaxInt
        <5>1. w = Window(MaxInt, ttl) /\ MaxInt \in Int64 /\ MaxInt > ttl
          BY <1>1, <1>4, <4>4 DEF Converted, Int64
        <5> QED BY <4>1, <5>1 DEF Panics
      <4>5. CASE q > MaxInt /\ large = MinInt
        <5>1. w = Window(MinInt, ttl) BY <1>4, <4>5 DEF Converted
        <5> QED BY <4>2, <5>1 DEF Panics
      <4> QED BY <1>1, <1>5, <2>1, <4>3, <4>4, <4>5
    <3> QED BY <2>2, <2>4, <3>1
  <2> QED BY <1>1, <2>1, <2>3, <2>4
<1>8. CASE f < 0
  <2> DEFINE p == -q
             g == -f
  <2>1. g \in Nat /\ g <= den /\ g = 2 * num - den BY <1>2, <1>8
  <2>2. PICK x \in Scaled(g, den, r) : q = -x BY <1>8, <1>2 DEF Product
  <2>3. x \in Nat /\ x * den * E <= g * ttl * (E + 5) /\ x <= r
    <3> HIDE DEF g
    <3> QED BY <1>2, <2>1, <2>2, ScaledFacts DEF E
  <2>4. w = Window(q, ttl) /\ q \in Int64 /\ q <= ttl /\ ttl \in Int64
    BY <1>1, <1>4, <1>6, <2>2, <2>3 DEF Converted, Int64
  <2>5. CASE ttl - q < MaxInt BY <2>4, <2>5, DrawnFacts
  <2>6. CASE ttl - q >= MaxInt
    <3>1. x >= MaxInt - ttl /\ MaxInt - ttl \in Nat BY <1>1, <2>2, <2>3, <2>6
    <3>2. (MaxInt - ttl) * (den * E) <= x * (den * E)
      <4> DEFINE m == den * E
                 k == MaxInt - ttl
      <4>1. m \in Nat /\ k \in Nat BY <1>1, <1>2, <3>1
      <4> HIDE DEF m, k
      <4>2. k * m <= x * m BY <2>3, <3>1, <4>1 DEF k
      <4> QED BY <4>2 DEF m, k
    <3>3. (MaxInt - ttl) * den * E <= (2 * num - den) * ttl * (E + 5)
      <4>1. (MaxInt - ttl) * den * E = (MaxInt - ttl) * (den * E) /\ x * den * E = x * (den * E)
        BY <1>1, <1>2, <2>3, <3>1
      <4>2. (MaxInt - ttl) * (den * E) \in Int /\ x * (den * E) \in Int /\ g * ttl * (E + 5) \in Int
        BY <1>1, <1>2, <2>1, <2>3, <3>1
      <4>3. (MaxInt - ttl) * den * E <= g * ttl * (E + 5) BY <2>3, <3>2, <4>1, <4>2
      <4> QED BY <2>1, <4>3
    <3>4. TooWide(s, ttl) BY <1>2, <1>8, <3>3 DEF TooWide, num, den, E
    <3>5. Panics(w)
      <4>1. CASE ttl - q = MaxInt
        <5>1. Wrap(MaxInt) = MaxInt BY <1>1, WrapFacts DEF Int64
        <5>2. Wrap(MaxInt + 1) = MinInt BY <1>1, WrapFacts
        <5> QED BY <1>1, <2>4, <4>1, <5>1, <5>2 DEF Window, Panics
      <4>2. CASE ttl - q > MaxInt
        <5>1. ttl - q \in Int /\ ttl - q <= 2 * MaxInt BY <1>1, <2>4 DEF Int64
        <5>2. Wrap(ttl - q) = ttl - q - Size BY <1>1, <4>2, <5>1, WrapFacts
        <5>3. ttl - q - Size + 1 \in Int64 /\ ttl - q - Size + 1 < 0 BY <1>1, <4>2, <5>1 DEF Int64
        <5>4. Wrap(ttl - q - Size + 1) = ttl - q - Size + 1 BY <5>3, WrapFacts DEF Int64
        <5>5. w.range = Wrap((ttl - q - Size) + 1) BY <2>4, <5>2 DEF Window
        <5>6. w.range < 0 /\ w.range \in Int BY <5>3, <5>4, <5>5 DEF Int64
        <5> QED BY <5>6 DEF Panics
      <4> QED BY <1>1, <2>4, <2>6, <4>1, <4>2 DEF Int64
    <3> QED BY <3>4, <3>5
  <2> QED BY <1>1, <2>4, <2>5, <2>6 DEF Int64
<1> QED BY <1>2, <1>7, <1>8

-----------------------------------------------------------------------------
(* The TTL of a header. *)

(* Of some natural numbers one is the smallest. *)
LEMMA Smallest ==
    ASSUME NEW S \in SUBSET Nat, S # {}
    PROVE  \E n \in S : \A m \in S : n <= m
<1> DEFINE R == OpToRel(<, Nat)
<1>1. IsWellFoundedOn(R, Nat) BY NatLessThanWellFounded
<1>2. \A m, n \in Nat : m < n => <<m, n>> \in R BY DEF R, OpToRel
<1> HIDE DEF R
<1>3. \E n \in S : \A m \in S : ~ (<<m, n>> \in R) BY <1>1, WFMin
<1>4. PICK n \in S : \A m \in S : ~ (<<m, n>> \in R) BY <1>3
<1>5. \A m \in S : ~ (m < n) BY <1>2, <1>4
<1>6. \A m \in S : m \in Int /\ n \in Int OBVIOUS
<1> HIDE <1>2
<1>7. \A m \in S : n <= m BY <1>5, <1>6, SMT
<1> QED BY <1>7

(* The first max-age that has a value has one that is a number or a bad one. *)
LEMMA FirstAgeType ==
    ASSUME NEW header \in Seq(Directive), AgesAt(header) # {}
    PROVE  FirstAge(header) \in Int \cup {Bad}
<1>1. AgesAt(header) \in SUBSET Nat BY DEF AgesAt
<1>2. \E i \in AgesAt(header) : \A k \in AgesAt(header) : i <= k BY <1>1, Smallest
<1>3. \A i \in AgesAt(header) : header[i].value \in Int \cup {Bad}
  <2>1. ASSUME NEW i \in AgesAt(header) PROVE header[i].value \in Int \cup {Bad}
    <3>1. header[i] \in Directive /\ header[i].value # NoValue BY <2>1 DEF AgesAt
    <3> QED BY <3>1 DEF Directive
  <2> QED BY <2>1
<1> QED BY <1>2, <1>3 DEF FirstAge

(* A TTL is never the largest int64, and a positive age that gives no TTL   *)
(* is longer than any int64.                                                *)
LEMMA TTLFacts ==
    ASSUME NEW header \in Seq(Directive)
    PROVE  /\ TTL(header) \in Int64 /\ TTL(header) # MaxInt
           /\ AgesAt(header) # {} /\ FirstAge(header) # Bad =>
                 /\ FirstAge(header) \in Int
                 /\ FirstAge(header) > 0 /\ TTL(header) <= 0 => FirstAge(header) * Second > MaxInt
                 /\ FirstAge(header) > 0 => TTL(header) <= FirstAge(header) * Second
<1>1. /\ MaxInt \in Nat \ {0} /\ MinInt = -MaxInt - 1 /\ Second \in Nat \ {0} /\ Second % 2 = 0
  BY WidthAssumption DEF MinInt
<1>2. CASE AgesAt(header) = {} \/ FirstAge(header) = Bad BY <1>1, <1>2 DEF TTL, Int64
<1>3. CASE ~(AgesAt(header) = {} \/ FirstAge(header) = Bad)
  <2> DEFINE a == FirstAge(header)
             n == a * Second
  <2>1. a \in Int BY <1>3, FirstAgeType
  <2>2. TTL(header) = Wrap(n) BY <1>3 DEF TTL
  <2>3. PICK h \in Int : Second = 2 * h
    <3>1. Second \in Int /\ 2 \in Nat \ {0} BY <1>1
    <3>2. \E h \in Int : Second = 2 * h + (Second % 2) BY ONLY <3>1, ModFacts
    <3> QED BY <1>1, <3>2
  <2> HIDE DEF a
  <2>4. n \in Int /\ a * h \in Int /\ n = 2 * (a * h) BY <2>1, <2>3
  <2>5. a > 0 => n > 0 BY <1>1, <2>1
  <2> HIDE DEF n
  <2>6. Wrap(n) # MaxInt BY <2>4, EvenIsNotLargest
  <2>7. Wrap(n) \in Int64 /\ (n \in Int64 => Wrap(n) = n) BY <2>4, WrapFacts
  <2>8. n > 0 => Wrap(n) <= n BY <1>1, <2>4, <2>7 DEF Int64
  <2>9. n > 0 /\ Wrap(n) <= 0 => n > MaxInt BY <1>1, <2>4, <2>7 DEF Int64
  <2> QED BY <1>3, <2>1, <2>2, <2>5, <2>6, <2>7, <2>8, <2>9 DEF n, a
<1> QED BY <1>2, <1>3

-----------------------------------------------------------------------------
(* With a jitter from 2^-51 up to one half, the default among them, Int63n  *)
(* does not panic: for any interval, any header and any failure of a fetch, *)
(* whatever is rounded or wraps around on the way.  Nor does it with a       *)
(* smaller one if the TTL is at most 2^53 ns.                               *)
THEOREM OrdinaryJittersNeverPanic ==
    ASSUME NEW s, Configured(s), 2 * JitterOf(s).num <= JitterOf(s).den,
           NEW header \in Seq(Directive), NEW err \in BOOLEAN,
           4 * JitterOf(s).den <= JitterOf(s).num * Exact \/ TTL(header) <= Exact,
           NEW w \in Windows(s, TTL(header), err)
    PROVE  ~Panics(w)
<1>1. /\ JitterOf(s).num \in Int /\ JitterOf(s).den \in Nat \ {0}
      /\ Exact \in Nat /\ JitterOf(s).num * Exact \in Int
  BY SettingFacts, WidthAssumption DEF Fraction
<1>2. TTL(header) \in Int64 /\ TTL(header) # MaxInt /\ MaxInt \in Nat /\ MinInt = -MaxInt - 1
  BY TTLFacts, WidthAssumption DEF MinInt
<1>3. CASE err \/ TTL(header) <= 0
  <2>1. w \in IntervalWindows(s) BY <1>3 DEF Windows
  <2> QED BY <2>1, IntervalWindowFacts
<1>4. CASE ~(err \/ TTL(header) <= 0)
  <2>1. w \in TTLWindows(s, TTL(header)) BY <1>4 DEF Windows
  <2>2. TTL(header) \in 1 .. MaxInt BY <1>2, <1>4 DEF Int64
  <2>3. Panics(w) => TooWide(s, TTL(header)) \/ TooNarrow(s, TTL(header))
    BY <1>2, <2>1, <2>2, TTLWindowFacts
  <2>4. ~TooWide(s, TTL(header)) BY <1>1 DEF TooWide
  <2>5. ~TooNarrow(s, TTL(header))
    <3> DEFINE j == JitterOf(s)
    <3>1. 2 * j.num * Exact = 2 * (j.num * Exact) BY <1>1
    <3>2. TTL(header) \in Int BY <2>2, <1>2
    <3>3. CASE TTL(header) <= Exact BY <1>1, <3>2, <3>3 DEF TooNarrow
    <3>4. CASE 4 * j.den <= j.num * Exact
      <4> DEFINE n == j.num * Exact
                 d == j.den
      <4>1. n \in Int /\ d \in Nat \ {0} /\ 4 * d <= n BY <1>1, <3>4
      <4> HIDE DEF n, d
      <4>2. ~(2 * n < 5 * d) BY ONLY <4>1
      <4>3. ~(2 * j.num * Exact < 5 * j.den) BY ONLY <3>1, <4>2 DEF n, d
      <4> QED BY ONLY <4>3 DEF TooNarrow
    <3> QED BY <3>3, <3>4
  <2> QED BY <2>3, <2>4, <2>5
<1> QED BY <1>3, <1>4
=============================================================================
