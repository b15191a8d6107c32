------------------------------ MODULE Jitterer ------------------------------
(***************************************************************************)
(* How long a refreshTask waits between two fetches: jitterer.go, the      *)
(* defaults of config.go, and the time to live that an HTTP response gives *)
(* (loader.go).                                                            *)
(*                                                                         *)
(* Durations are int64, and wrap around.  A jitter is a fraction, and its  *)
(* products with a duration are float64: what rounding may make of them.   *)
(***************************************************************************)
EXTENDS Integers, Sequences

CONSTANTS
    MaxInt,              \* the largest int64
    Exact,               \* 2^53: a float64 holds any integer up to it
    Second,              \* the length of time.Second
    DefaultInterval,     \* DefaultRefreshInterval
    DefaultMinInterval,  \* DefaultRefreshMinInterval
    DefaultJitter,       \* DefaultRefreshJitter, [num |-> 1, den |-> 10]
    Bad, NoValue         \* a value of max-age that is not a number, and none

MinInt == -MaxInt - 1
Int64  == MinInt .. MaxInt

Fraction == [num : Int, den : Nat \ {0}]

(* Between 0 and 1, exclusive. *)
Proper(j) == 0 < j.num /\ j.num < j.den

(* A float64 below 1 is at least 2^-53 below it: MaxInt is long enough to   *)
(* tell them apart.                                                         *)
Precise(j) == (j.den - j.num) * MaxInt >= 8 * j.den

(* 2^w - 1 and 10^9 are an odd and an even number. *)
ASSUME WidthAssumption ==
    /\ MaxInt \in Nat \ {0} /\ MaxInt % 2 = 1
    /\ Exact \in Nat /\ Exact >= 16
    /\ Second \in Nat \ {0} /\ Second % 2 = 0
ASSUME DefaultsAssumption ==
    /\ DefaultInterval \in 1 .. MaxInt
    /\ DefaultMinInterval \in 1 .. MaxInt
    /\ DefaultJitter \in Fraction /\ Proper(DefaultJitter) /\ Precise(DefaultJitter)
ASSUME ValuesAssumption == Bad \notin Int /\ NoValue \notin Int

Size == 2 * (MaxInt + 1)
Wrap(n) == ((n + MaxInt + 1) % Size) - (MaxInt + 1)

(* float64(d), for a duration that is not negative: d, if it is short       *)
(* enough; else an integer that differs from d by at most one in 2^53, and  *)
(* is no larger than 2^63, which is a float64.                              *)
Rounded(d) ==
    IF d <= Exact THEN {d}
    ELSE {r \in d - (d \div Exact) .. d + (d \div Exact) : r <= MaxInt + 1}

(* f * r towards zero, for a float64 r that is an integer and the fraction  *)
(* f = num/den.  Both f and the product are rounded, which is monotone: a   *)
(* factor of at most, or at least, one keeps the product on its side of r.  *)
Scaled(num, den, r) ==
    {q \in (num * r * (Exact - 3)) \div (den * Exact) .. (num * r * (Exact + 3)) \div (den * Exact) :
        /\ num <= den => q <= r
        /\ num >= den => q >= r}

Product(num, den, r) ==
    IF num >= 0 THEN Scaled(num, den, r) ELSE {-q : q \in Scaled(-num, den, r)}

(* What the processor makes an int64 of if it is too large for one: on      *)
(* amd64 the smallest int64, on arm64 the nearest.                          *)
TooLarge == {MinInt, MaxInt}

Converted(q, large) == IF q > MaxInt THEN large ELSE q

-----------------------------------------------------------------------------
(* What a RefreshSource may hold: any int64, and any float64 but NaN.       *)
Configured(s) ==
    /\ s.interval \in Int64
    /\ s.minInterval \in Int64
    /\ s.jitter \in Fraction
    /\ Proper(s.jitter) => Precise(s.jitter)

(* newJitterer, for a RefreshSource: what is not positive, or no proper     *)
(* fraction, gives way to the default.                                      *)
MinIntervalOf(s) == IF s.minInterval <= 0 THEN DefaultMinInterval ELSE s.minInterval
IntervalOf(s)    == IF s.interval <= 0 THEN DefaultInterval ELSE s.interval
JitterOf(s)      == IF Proper(s.jitter) THEN s.jitter ELSE DefaultJitter

(* A window is what a random duration is drawn from: its first, and         *)
(* Int63n's argument.                                                       *)
Window(base, top) == [base |-> base, range |-> Wrap(Wrap(top - base) + 1)]

(* From (1-jitter)*d to (1+jitter)*d. *)
Around(j, d) ==
    UNION {{Window(Converted(base, large), Converted(top, large)) :
               base \in Product(j.den - j.num, j.den, r),
               top \in Product(j.den + j.num, j.den, r),
               large \in TooLarge} : r \in Rounded(d)}

IntervalWindows(s) == Around(JitterOf(s), IntervalOf(s))

TTLWindowsAround(s, ttl) == Around(JitterOf(s), ttl)   \* a fault: the TTL is an interval

(* For a TTL the window ends with it: a refresh should not come later.      *)
TTLWindows(s, ttl) ==
    LET j == JitterOf(s)
    IN  UNION {{Window(Converted(base, large), ttl) :
                   base \in Product(j.den - 2 * j.num, j.den, r),
                   large \in TooLarge} : r \in Rounded(ttl)}

WindowsUnlessZero(s, ttl, err) ==   \* a fault: only a TTL of zero is none
    IF err \/ ttl = 0 THEN IntervalWindows(s) ELSE TTLWindows(s, ttl)

(* nextInterval, given the TTL of the last good fetch or an error.          *)
Windows(s, ttl, err) == IF err \/ ttl <= 0 THEN IntervalWindows(s) ELSE TTLWindows(s, ttl)

(* rand.Int63n panics unless its argument is positive. *)
Panics(w) == w.range <= 0

AtLeastConfigured(s, next) ==  \* a fault: the default minimum is not taken
    IF next < s.minInterval THEN s.minInterval ELSE next

AtLeastMin(s, next) == IF next < MinIntervalOf(s) THEN MinIntervalOf(s) ELSE next

Drawn(s, w) == {AtLeastMin(s, Wrap(w.base + r)) : r \in 0 .. w.range - 1}

-----------------------------------------------------------------------------
(* newMeta: the TTL is the value of the first max-age directive that has    *)
(* one, times a second; none if that is not a number.                       *)
Directive == [name : {"max-age", "other"}, value : Int \cup {Bad, NoValue}]

AgesAt(header) == {i \in DOMAIN header : header[i].name = "max-age" /\ header[i].value # NoValue}

FirstAge(header) ==
    header[CHOOSE i \in AgesAt(header) : \A k \in AgesAt(header) : i <= k].value

TTL(header) ==
    IF AgesAt(header) = {} \/ FirstAge(header) = Bad THEN 0 ELSE Wrap(FirstAge(header) * Second)
-----------------------------------------------------------------------------
(* Within [1-Jitter,1+Jitter]*Interval, but for what rounding may make of   *)
(* the two ends and the fraction of a nanosecond that is cut off.           *)
NotTooSoon(s, d) ==
    LET j == JitterOf(s)
    IN  (d + 1) * j.den * Exact > (j.den - j.num) * IntervalOf(s) * (Exact - 5)

NotTooLate(s, d) ==
    LET j == JitterOf(s)
    IN  d * j.den * Exact <= (j.den + j.num) * IntervalOf(s) * (Exact + 5)

(* (1+Jitter)*Interval is longer than any int64, or may be rounded to it. *)
Overflows(s) == NotTooLate(s, MaxInt)

(* The TTLs for which Int63n may panic.  With a jitter above one half, the  *)
(* window may be longer than any int64, which takes a TTL of 146 years or   *)
(* more; with one below 2^-51, a TTL above 2^53 ns, or 104 days, may be     *)
(* rounded past itself, and the window ends before it begins.               *)
TooWide(s, ttl) ==
    LET j == JitterOf(s)
    IN  /\ 2 * j.num > j.den
        /\ (MaxInt - ttl) * j.den * Exact <= (2 * j.num - j.den) * ttl * (Exact + 5)

TooNarrow(s, ttl) ==
    LET j == JitterOf(s)
    IN  /\ 2 * j.num * Exact < 5 * j.den
        /\ ttl > Exact
=============================================================================
