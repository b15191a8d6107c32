------------------------- MODULE ApplicationProofs -------------------------
(***************************************************************************)
(* Application, proved for every width of integers, application and        *)
(* header.  What is said of the timers of its tasks is inductive with the  *)
(* types, since a timer is set in one step with what it is set for.  What  *)
(* is said of its components is what their constructors return, whatever   *)
(* the number of options: an option counts only if no later one undoes it, *)
(* and the first list of options for which that failed would have one      *)
(* fewer before it for which it did not.                                   *)
(***************************************************************************)
EXTENDS Application, JittererProofs

TimersInv == TypeOK /\ WaitsAsConfigured /\ NotAfterExpiry /\ CrashesNeedLongTTLs

(* Before anything is built, no task sleeps. *)
LEMMA InitTimers == Init => TimersInv
<1> SUFFICES ASSUME Init PROVE TimersInv OBVIOUS
<1>1. MaxInt \in Nat BY WidthAssumption
<1>2. TypeOK BY <1>1 DEF Init, TypeOK, Nothing
<1>3. \A t \in Tasks : ~Sleeps(t) BY DEF Init, Sleeps
<1> QED BY <1>2, <1>3 DEF Init, TimersInv, WaitsAsConfigured, NotAfterExpiry, CrashesNeedLongTTLs

(* What a task that heard h sleeps for, or how it panics. *)
LEMMA FetchFacts ==
    ASSUME NEW s, Configured(s), NEW h \in Heard, NEW w \in Windows(s, TTL(h.header), h.err)
    PROVE  /\ Panics(w) => /\ ~h.err
                           /\ TooWide(s, TTL(h.header)) \/ TooNarrow(s, TTL(h.header))
           /\ ~Panics(w) => \A next \in Drawn(s, w) :
                 /\ next \in MinIntervalOf(s) .. MaxInt
                 /\ HasNoTTL(h) =>
                       /\ NotTooSoon(s, next) \/ (next = MinIntervalOf(s) /\ Overflows(s))
                       /\ NotTooLate(s, next) \/ next = MinIntervalOf(s)
                 /\ HasAge(h) /\ MaxAge(h) > 0 =>
                       next = MinIntervalOf(s) \/ next <= MaxAge(h) * Second
<1> DEFINE ttl == TTL(h.header)
<1>1. h.header \in Seq(Directive) /\ h.err \in BOOLEAN BY HeadersAssumption DEF Heard
<1>2. ttl \in Int64 /\ ttl # MaxInt /\ MaxInt \in Nat /\ MinInt = -MaxInt - 1 /\ Second \in Nat
  BY <1>1, TTLFacts, WidthAssumption DEF MinInt
<1>3. HasAge(h) => MaxAge(h) \in Int
  BY <1>1, TTLFacts DEF HasAge, MaxAge
<1>4. HasAge(h) /\ MaxAge(h) > 0 => /\ ttl <= 0 => MaxAge(h) * Second > MaxInt
                                    /\ ttl <= MaxAge(h) * Second
  BY <1>1, TTLFacts DEF HasAge, MaxAge
<1>5. MinIntervalOf(s) \in 1 .. MaxInt BY SettingFacts
<1>6. HasNoTTL(h) <=> h.err \/ ttl <= 0 BY DEF HasNoTTL
<1> HIDE DEF ttl
<1>7. CASE h.err \/ ttl <= 0
  <2>1. w \in IntervalWindows(s) BY <1>7 DEF Windows, ttl
  <2>2. ~Panics(w) BY <2>1, IntervalWindowFacts
  <2>3. ASSUME NEW next \in Drawn(s, w), HasAge(h), MaxAge(h) > 0
        PROVE  next <= MaxAge(h) * Second
    <3>1. next \in MinIntervalOf(s) .. MaxInt BY <2>1, <2>3, IntervalWindowFacts
    <3>2. ttl <= 0 BY <1>7, <2>3 DEF HasAge
    <3>3. MaxAge(h) * Second > MaxInt /\ MaxAge(h) * Second \in Int BY <1>2, <1>3, <1>4, <2>3, <3>2
    <3> QED BY <1>2, <1>5, <3>1, <3>3
  <2> QED BY <2>1, <2>2, <2>3, IntervalWindowFacts
<1>8. CASE ~(h.err \/ ttl <= 0)
  <2>1. w \in TTLWindows(s, ttl) BY <1>8 DEF Windows, ttl
  <2>2. ttl \in 1 .. MaxInt BY <1>2, <1>8 DEF Int64
  <2>3. Panics(w) => TooWide(s, ttl) \/ TooNarrow(s, ttl)
    BY <1>2, <2>1, <2>2, TTLWindowFacts
  <2>4. ASSUME ~Panics(w), NEW next \in Drawn(s, w)
        PROVE  /\ next \in MinIntervalOf(s) .. MaxInt
               /\ HasAge(h) /\ MaxAge(h) > 0 =>
                     next = MinIntervalOf(s) \/ next <= MaxAge(h) * Second
    <3>1. next \in MinIntervalOf(s) .. MaxInt /\ (next = MinIntervalOf(s) \/ next <= ttl)
      BY <1>2, <2>1, <2>2, <2>4, TTLWindowFacts
    <3>2. next \in Int /\ ttl \in Int BY <1>2, <1>5, <2>2, <3>1
    <3>3. ASSUME HasAge(h), MaxAge(h) > 0, next <= ttl PROVE next <= MaxAge(h) * Second
      <4>1. MaxAge(h) * Second \in Int BY <1>2, <1>3, <3>3
      <4> QED BY <1>4, <3>2, <3>3, <4>1
    <3> QED BY <3>1, <3>3
  <2>5. ~HasNoTTL(h) BY <1>6, <1>8
  <2> QED BY <1>8, <2>3, <2>4, <2>5 DEF ttl
<1> QED BY <1>7, <1>8

(* Every source that an application may name has values of their types. *)
LEMMA SourcesConfigured ==
    ASSUME TypeOK, NEW t \in Tasks PROVE Configured(SourceOf(t))
BY ApplicationsAssumption DEF TypeOK, Tasks, SourceOf

(* A step that leaves the timers alone keeps what is said of them. *)
LEMMA SameTimers ==
    ASSUME TimersInv, UNCHANGED <<supplied, pc, timer, told>>, phase' # "crashed"
    PROVE  WaitsAsConfigured' /\ NotAfterExpiry' /\ CrashesNeedLongTTLs'
<1>1. Tasks' = Tasks /\ \A t : SourceOf(t)' = SourceOf(t) BY DEF Tasks, SourceOf
<1>2. WaitsAsConfigured'
  BY <1>1 DEF TimersInv, WaitsAsConfigured, Sleeps, HasNoTTL
<1>3. NotAfterExpiry'
  BY <1>1 DEF TimersInv, NotAfterExpiry, Sleeps, HasAge, MaxAge
<1> QED BY <1>2, <1>3 DEF CrashesNeedLongTTLs

(* A fetch sets one timer for what it heard, or ends the program.           *)
LEMMA FetchStep ==
    ASSUME TimersInv, NEW t \in Tasks, Fetch(t)
    PROVE  TimersInv'
<1>0. PICK h \in Heard : \E w \in Windows(SourceOf(t), TTL(h.header), h.err) :
         /\ told' = [told EXCEPT ![t] = h]
         /\ IF Panics(w)
            THEN phase' = "crashed" /\ UNCHANGED <<pc, timer>>
            ELSE /\ pc' = [pc EXCEPT ![t] = "sleep"]
                 /\ \E next \in Drawn(SourceOf(t), w) : timer' = [timer EXCEPT ![t] = next]
                 /\ UNCHANGED phase
  BY DEF Fetch
<1>1. PICK w \in Windows(SourceOf(t), TTL(h.header), h.err) :
         /\ told' = [told EXCEPT ![t] = h]
         /\ IF Panics(w)
            THEN phase' = "crashed" /\ UNCHANGED <<pc, timer>>
            ELSE /\ pc' = [pc EXCEPT ![t] = "sleep"]
                 /\ \E next \in Drawn(SourceOf(t), w) : timer' = [timer EXCEPT ![t] = next]
                 /\ UNCHANGED phase
  BY <1>0
<1>2. supplied' = supplied /\ phase = "running" /\ pc[t] = "fetch" BY DEF Fetch
<1>3. Tasks' = Tasks /\ \A u : SourceOf(u)' = SourceOf(u) BY <1>2 DEF Tasks, SourceOf
<1>4. TypeOK BY DEF TimersInv
<1>5. Configured(SourceOf(t)) BY <1>4, SourcesConfigured
<1>6. h \in [err : BOOLEAN, header : Headers \cup {<<>>}] BY DEF Heard
<1>7. told' \in [Tasks -> [err : BOOLEAN, header : Headers \cup {<<>>}]]
  BY <1>1, <1>4, <1>6 DEF TypeOK
<1>8. told'[t] = h /\ \A u \in Tasks \ {t} : told'[u] = told[u] BY <1>1, <1>4 DEF TypeOK
<1>9. CASE Panics(w)
  <2>1. phase' = "crashed" /\ pc' = pc /\ timer' = timer BY <1>1, <1>9
  <2>2. TypeOK' BY <1>2, <1>3, <1>4, <1>7, <2>1 DEF TypeOK
  <2>3. \A u \in Tasks : Sleeps(u)' => u # t /\ Sleeps(u) /\ told'[u] = told[u] /\ timer'[u] = timer[u]
    BY <1>2, <1>8, <2>1 DEF Sleeps
  <2>4. WaitsAsConfigured'
    BY <1>3, <2>3 DEF TimersInv, WaitsAsConfigured, HasNoTTL
  <2>5. NotAfterExpiry'
    BY <1>3, <2>3 DEF TimersInv, NotAfterExpiry, HasAge, MaxAge
  <2>6. CrashesNeedLongTTLs'
    BY <1>3, <1>5, <1>8, <1>9, FetchFacts DEF CrashesNeedLongTTLs
  <2> QED BY <2>2, <2>4, <2>5, <2>6 DEF TimersInv
<1>10. CASE ~Panics(w)
  <2>1. PICK next \in Drawn(SourceOf(t), w) : timer' = [timer EXCEPT ![t] = next] BY <1>1, <1>10
  <2>2. pc' = [pc EXCEPT ![t] = "sleep"] /\ phase' = phase BY <1>1, <1>10
  <2>3. MinIntervalOf(SourceOf(t)) \in 1 .. MaxInt /\ MaxInt \in Nat
    BY <1>5, SettingFacts, WidthAssumption
  <2>4. next \in MinIntervalOf(SourceOf(t)) .. MaxInt BY <1>5, <1>10, <2>1, FetchFacts
  <2>5. next \in 0 .. MaxInt BY <2>3, <2>4
  <2>6. TypeOK' BY <1>2, <1>3, <1>4, <1>7, <2>1, <2>2, <2>5 DEF TypeOK
  <2>7. timer'[t] = next /\ \A u \in Tasks \ {t} : timer'[u] = timer[u] BY <1>4, <2>1 DEF TypeOK
  <2>8. \A u \in Tasks \ {t} : Sleeps(u)' => Sleeps(u) BY <1>4, <2>2 DEF TypeOK, Sleeps
  <2>9. WaitsAsConfigured'
    <3>1. SUFFICES ASSUME NEW u \in Tasks, Sleeps(u)'
                   PROVE  LET s == SourceOf(u)
                          IN  /\ timer'[u] >= MinIntervalOf(s)
                              /\ HasNoTTL(told'[u]) =>
                                    /\ \/ NotTooSoon(s, timer'[u])
                                       \/ timer'[u] = MinIntervalOf(s) /\ Overflows(s)
                                    /\ NotTooLate(s, timer'[u]) \/ timer'[u] = MinIntervalOf(s)
      BY <1>3 DEF WaitsAsConfigured, HasNoTTL
    <3>2. CASE u = t
      <4>1. timer'[u] = next /\ told'[u] = h BY <1>8, <2>7, <3>2
      <4>2. next >= MinIntervalOf(SourceOf(t)) BY <2>3, <2>4
      <4> QED BY <1>5, <1>10, <2>1, <3>2, <4>1, <4>2, FetchFacts
    <3>3. CASE u # t BY <1>8, <2>7, <2>8, <3>1, <3>3 DEF TimersInv, WaitsAsConfigured
    <3> QED BY <3>2, <3>3
  <2>10. NotAfterExpiry'
    <3>1. SUFFICES ASSUME NEW u \in Tasks, Sleeps(u)', HasAge(told'[u]), MaxAge(told'[u]) > 0
                   PROVE  \/ timer'[u] = MinIntervalOf(SourceOf(u))
                          \/ timer'[u] <= MaxAge(told'[u]) * Second
      BY <1>3 DEF NotAfterExpiry, HasAge, MaxAge
    <3>2. CASE u = t BY <1>5, <1>8, <1>10, <2>1, <2>7, <3>1, <3>2, FetchFacts
    <3>3. CASE u # t BY <1>8, <2>7, <2>8, <3>1, <3>3 DEF TimersInv, NotAfterExpiry
    <3> QED BY <3>2, <3>3
  <2>11. CrashesNeedLongTTLs' BY <1>2, <2>2 DEF CrashesNeedLongTTLs
  <2> QED BY <2>6, <2>9, <2>10, <2>11 DEF TimersInv
<1> QED BY <1>9, <1>10

(* A task that wakes up has no timer. *)
LEMMA WakeStep ==
    ASSUME TimersInv, NEW t \in Tasks, Wake(t)
    PROVE  TimersInv'
<1>1. Tasks' = Tasks /\ \A u : SourceOf(u)' = SourceOf(u) BY DEF Wake, Tasks, SourceOf
<1>2. TypeOK /\ MaxInt \in Nat BY WidthAssumption DEF TimersInv
<1>3. TypeOK'
  <2>1. 0 \in 0 .. MaxInt /\ Nothing \in [err : BOOLEAN, header : Headers \cup {<<>>}]
    BY <1>2 DEF Nothing
  <2> QED BY <1>1, <1>2, <2>1 DEF Wake, TypeOK
<1>4. \A u \in Tasks : Sleeps(u)' => u # t /\ Sleeps(u) BY <1>2 DEF Wake, TypeOK, Sleeps
<1>5. \A u \in Tasks \ {t} : timer'[u] = timer[u] /\ told'[u] = told[u] BY <1>2 DEF Wake, TypeOK
<1>6. WaitsAsConfigured'
  BY <1>1, <1>4, <1>5 DEF TimersInv, WaitsAsConfigured, HasNoTTL
<1>7. NotAfterExpiry'
  BY <1>1, <1>4, <1>5 DEF TimersInv, NotAfterExpiry, HasAge, MaxAge
<1>8. CrashesNeedLongTTLs' BY DEF Wake, CrashesNeedLongTTLs
<1> QED BY <1>3, <1>6, <1>7, <1>8 DEF TimersInv

(* Every step keeps the invariant. *)
LEMMA TimersStep ==
    ASSUME TimersInv, [Next]_vars
    PROVE  TimersInv'
<1>1. TypeOK BY DEF TimersInv
<1>2. ASSUME UNCHANGED <<supplied, pc, timer, told>>, phase' # "crashed",
             phase' \in {"new", "building", "running", "stopped", "refused", "crashed"}
      PROVE  TimersInv'
  <2>1. Tasks' = Tasks BY <1>2 DEF Tasks
  <2>2. TypeOK' BY <1>1, <1>2, <2>1 DEF TypeOK
  <2>3. WaitsAsConfigured' /\ NotAfterExpiry' /\ CrashesNeedLongTTLs' BY <1>2, SameTimers
  <2> QED BY <2>2, <2>3 DEF TimersInv
<1>3. CASE ProvideFetcher BY <1>2, <1>3 DEF ProvideFetcher
<1>4. CASE ProvideRefresher
  <2>1. phase' \in {"refused", "building"} BY <1>4 DEF ProvideRefresher, Provided
  <2> QED BY <1>2, <1>4, <2>1 DEF ProvideRefresher
<1>5. CASE ProvideResolver
  <2>1. phase' \in {"refused", "building"} BY <1>5 DEF ProvideResolver, Provided
  <2> QED BY <1>2, <1>5, <2>1 DEF ProvideResolver
<1>6. CASE Start
  <2>1. Tasks' = Tasks /\ \A u : SourceOf(u)' = SourceOf(u) BY <1>6 DEF Start, Tasks, SourceOf
  <2>2. TypeOK' BY <1>1, <1>6, <2>1 DEF Start, TypeOK
  <2>3. \A u \in Tasks : ~Sleeps(u)' BY <1>6, <2>1 DEF Start, Sleeps
  <2> QED BY <1>6, <2>1, <2>2, <2>3
      DEF Start, TimersInv, WaitsAsConfigured, NotAfterExpiry, CrashesNeedLongTTLs
<1>7. CASE Stop BY <1>2, <1>7 DEF Stop
<1>8. ASSUME NEW t \in Tasks, Fetch(t) PROVE TimersInv' BY <1>8, FetchStep
<1>9. ASSUME NEW t \in Tasks, Wake(t) PROVE TimersInv' BY <1>9, WakeStep
<1>10. CASE UNCHANGED vars
  <2>1. /\ Tasks' = Tasks /\ \A u : SourceOf(u)' = SourceOf(u)
    BY <1>10 DEF vars, Tasks, SourceOf
  <2>2. TypeOK' BY <1>1, <1>10, <2>1 DEF vars, TypeOK
  <2>3. WaitsAsConfigured'
    BY <1>10, <2>1 DEF vars, TimersInv, WaitsAsConfigured, Sleeps, HasNoTTL
  <2>4. NotAfterExpiry'
    BY <1>10, <2>1 DEF vars, TimersInv, NotAfterExpiry, Sleeps, HasAge, MaxAge
  <2>5. CrashesNeedLongTTLs' BY <1>10, <2>1 DEF vars, TimersInv, CrashesNeedLongTTLs
  <2> QED BY <2>2, <2>3, <2>4, <2>5 DEF TimersInv
<1>11. CASE Over BY <1>10, <1>11 DEF Over
<1> QED BY <1>3, <1>4, <1>5, <1>6, <1>7, <1>8, <1>9, <1>10, <1>11 DEF Next

-----------------------------------------------------------------------------
(* Types and timers stay as TimersInv says. *)
THEOREM TimersInvHolds == Spec => []TimersInv
<1> QED BY InitTimers, TimersStep, PTL DEF Spec

(* Every variable keeps its type, and no timer is negative, whatever a      *)
(* source is configured with and a server answers.                          *)
THEOREM TypeCorrect == Spec => []TypeOK
<1>1. TimersInv => TypeOK BY DEF TimersInv
<1> QED BY <1>1, TimersInvHolds, PTL

(* Tasks never wait less than MinInterval, and without a TTL within their   *)
(* jitter of Interval or, if all of that is shorter or (1+Jitter)*Interval  *)
(* overflows, MinInterval (the fields' comments in config.go, nextInterval). *)
THEOREM WaitsAsConfiguredHolds == Spec => []WaitsAsConfigured
<1>1. TimersInv => WaitsAsConfigured BY DEF TimersInv
<1> QED BY <1>1, TimersInvHolds, PTL

(* No task waits longer than the max-age it was told, unless the minimum is *)
(* longer, even when max-age wraps around (newMeta, nextInterval).          *)
THEOREM NotAfterExpiryHolds == Spec => []NotAfterExpiry
<1>1. TimersInv => NotAfterExpiry BY DEF TimersInv
<1> QED BY <1>1, TimersInvHolds, PTL

(* Only a jitter above one half with a TTL of 146 years or more, or one     *)
(* below 2^-51 with a TTL above 2^53 ns, can make Int63n panic (jitterer.go). *)
THEOREM CrashesNeedLongTTLsHolds == Spec => []CrashesNeedLongTTLs
<1>1. TimersInv => CrashesNeedLongTTLs BY DEF TimersInv
<1> QED BY <1>1, TimersInvHolds, PTL
-----------------------------------------------------------------------------
(* Options.  They are applied one after the other, and none adds a field or *)
(* takes one away.                                                          *)
LEMMA AppliedInTurn ==
    ASSUME NEW x, NEW options, NEW S, options \in Seq(S)
    PROVE  \E f : /\ Applied(x, options) = f[Len(options)]
                  /\ f[0] = x
                  /\ \A i \in 1 .. Len(options) : f[i] = Apply(f[i - 1], options[i])
               /\ \A i \in 0 .. Len(options) : DOMAIN f[i] = DOMAIN x
<1> DEFINE Body(f, i) == IF i = 0 THEN x ELSE Apply(f[i - 1], options[i])
           Defined(n) == \E f : f = [i \in 0 .. n |-> Body(f, i)]
           Missing    == {n \in Nat : ~Defined(n)}
<1>1. \A n \in Nat : Defined(n)
  <2>1. SUFFICES ASSUME Missing # {} PROVE FALSE OBVIOUS
  <2>2. Missing \in SUBSET Nat OBVIOUS
  <2>3. PICK n \in Missing : \A m \in Missing : n <= m BY <2>1, <2>2, Smallest
  <2>4. n \in Nat /\ ~Defined(n) BY <2>3
  <2>5. Defined(0)
    <3> DEFINE g == [i \in 0 .. 0 |-> x]
    <3>1. g = [i \in 0 .. 0 |-> Body(g, i)] OBVIOUS
    <3> QED BY <3>1
  <2>6. n # 0 BY <2>4, <2>5
  <2>7. n - 1 \in Nat /\ ~(n <= n - 1) BY <2>4, <2>6
  <2>8. Defined(n - 1) BY <2>3, <2>7
  <2>9. PICK g : g = [i \in 0 .. n - 1 |-> Body(g, i)] BY <2>8
  <2>10. Defined(n)
    <3> DEFINE h == [i \in 0 .. n |-> IF i = n THEN Body(g, n) ELSE g[i]]
    <3>1. ASSUME NEW i \in 0 .. n PROVE h[i] = Body(h, i)
      <4>1. CASE i = 0 BY <2>4, <2>6, <2>9, <3>1, <4>1
      <4>2. CASE i # 0
        <5>1. i - 1 \in 0 .. n /\ i - 1 # n /\ i - 1 \in 0 .. n - 1 BY <2>4, <3>1, <4>2
        <5>2. h[i - 1] = g[i - 1] BY <5>1
        <5>3. Body(h, i) = Body(g, i) BY <4>2, <5>2
        <5>4. i # n => i \in 0 .. n - 1 BY <2>4, <3>1
        <5>5. i # n => g[i] = Body(g, i) BY <2>9, <5>4
        <5> QED BY <3>1, <5>3, <5>5
      <4> QED BY <4>1, <4>2
    <3>2. h = [i \in 0 .. n |-> h[i]] OBVIOUS
    <3> HIDE DEF h
    <3>3. h = [i \in 0 .. n |-> Body(h, i)] BY <3>1, <3>2
    <3> QED BY <3>3
  <2> QED BY <2>4, <2>10
<1> DEFINE f == CHOOSE f : f = [i \in 0 .. Len(options) |-> Body(f, i)]
<1>2. Len(options) \in Nat OBVIOUS
<1>3. f = [i \in 0 .. Len(options) |-> Body(f, i)] BY <1>1, <1>2
<1>4. Applied(x, options) = f[Len(options)] BY DEF Applied
<1> HIDE DEF f
<1>5. f[0] = x /\ \A i \in 1 .. Len(options) : f[i] = Apply(f[i - 1], options[i])
  <2>1. \A i \in 0 .. Len(options) : f[i] = Body(f, i) BY <1>3
  <2> QED BY <1>2, <2>1
<1>6. \A i \in 0 .. Len(options) : DOMAIN f[i] = DOMAIN x
  <2> DEFINE Wrong == {i \in 0 .. Len(options) : DOMAIN f[i] # DOMAIN x}
  <2>1. SUFFICES ASSUME Wrong # {} PROVE FALSE OBVIOUS
  <2>2. Wrong \in SUBSET Nat BY <1>2
  <2>3. PICK i \in Wrong : \A k \in Wrong : i <= k BY <2>1, <2>2, Smallest
  <2>4. i \in 1 .. Len(options) /\ i - 1 \in 0 .. Len(options) /\ ~(i <= i - 1) BY <1>2, <1>5, <2>3
  <2>5. DOMAIN f[i - 1] = DOMAIN x BY <2>3, <2>4
  <2>6. f[i] = Apply(f[i - 1], options[i]) BY <1>5, <2>4
  <2>7. DOMAIN f[i] = DOMAIN f[i - 1] BY <2>6 DEF Apply
  <2> QED BY <2>3, <2>5, <2>7
<1> QED BY <1>4, <1>5, <1>6

(* The last option has the last word. *)
LEMMA LastOptionStays ==
    ASSUME NEW x, NEW options, NEW S, options \in Seq(S), options # <<>>,
           NEW field \in DOMAIN x \ {"sources"}, NEW v,
           options[Len(options)] = Option(field, v)
    PROVE  DOMAIN Applied(x, options) = DOMAIN x /\ Applied(x, options)[field] = v
<1> DEFINE n == Len(options)
<1>1. PICK f : /\ Applied(x, options) = f[n]
               /\ f[0] = x
               /\ \A i \in 1 .. n : f[i] = Apply(f[i - 1], options[i])
               /\ \A i \in 0 .. n : DOMAIN f[i] = DOMAIN x
  BY AppliedInTurn
<1>2. n \in Nat \ {0} BY options \in Seq(S), options # <<>>
<1>3. n \in 1 .. n /\ n - 1 \in 0 .. n BY <1>2
<1>4. DOMAIN f[n - 1] = DOMAIN x BY <1>1, <1>3
<1>5. f[n] = Apply(f[n - 1], options[n]) BY <1>1, <1>3
<1>6. f[n] = [f[n - 1] EXCEPT ![field] = v] BY <1>5 DEF Apply, Option, n
<1>7. DOMAIN f[n] = DOMAIN x /\ f[n][field] = v BY <1>3, <1>4, <1>6
<1> QED BY <1>1, <1>7
(* An injected parser is the parser of the fetcher, whatever the options    *)
(* are that were supplied with it.                                          *)
LEMMA FetcherHasParser ==
    ASSUME NEW a \in Applications, a.parser # Nil
    PROVE  NewFetcher(FetcherOptions(a)).parser = a.parser
<1> DEFINE options == FetcherOptions(a)
           last    == WithParser(a.parser)
           S       == {a.fetcherOptions[i] : i \in DOMAIN a.fetcherOptions} \cup {last}
           x       == [loader |-> Nil, parser |-> Nil, keyIDHash |-> SHA256]
<1>1. a.fetcherOptions \in Seq(S)
  <2> DEFINE T == {a.fetcherOptions[i] : i \in DOMAIN a.fetcherOptions}
  <2>1. a.fetcherOptions \in Seq(T) BY ApplicationsAssumption DEF IsList
  <2>2. T \subseteq S OBVIOUS
  <2> HIDE DEF S, T
  <2> QED BY <2>1, <2>2
<1>2. <<last>> \in Seq(S) /\ <<>> \in Seq(S) OBVIOUS
<1>3. \/ options = (a.fetcherOptions \o <<last>>) \o <<>>
      \/ options = (a.fetcherOptions \o <<last>>) \o <<last>>
  BY DEF FetcherOptions
<1> HIDE DEF last, S
<1>4. options \in Seq(S) /\ options # <<>> /\ options[Len(options)] = last
  <2> DEFINE most == a.fetcherOptions \o <<last>>
  <2>1. most \in Seq(S) /\ Len(most) = Len(a.fetcherOptions) + 1 /\ most[Len(most)] = last
    BY <1>1, <1>2
  <2>2. Len(a.fetcherOptions) \in Nat BY <1>1
  <2> HIDE DEF most
  <2>3. most \o <<>> = most BY <2>1
  <2>4. Len(most \o <<last>>) = Len(most) + 1 /\ (most \o <<last>>)[Len(most) + 1] = last
    BY <1>2, <2>1
  <2>5. most \o <<last>> \in Seq(S) BY <1>2, <2>1
  <2>6. most # <<>> /\ most \o <<last>> # <<>> BY <2>1, <2>2, <2>4
  <2>7. options = most \o <<>> \/ options = most \o <<last>> BY <1>3 DEF most
  <2> HIDE DEF options
  <2> QED BY <2>1, <2>3, <2>4, <2>5, <2>6, <2>7
<1>5. last = Option("parser", a.parser) BY DEF last, WithParser
<1> HIDE DEF options
<1>6. "parser" \in DOMAIN x \ {"sources"} OBVIOUS
<1>7. DOMAIN Applied(x, options) = DOMAIN x /\ Applied(x, options)["parser"] = a.parser
  BY <1>4, <1>5, <1>6, LastOptionStays
<1>8. NewFetcher(options) = [Applied(x, options) EXCEPT !.loader = Default(@, DefaultLoader),
                                                        !.parser = Default(@, DefaultParser)]
  BY DEF NewFetcher
<1>9. NewFetcher(options).parser = Default(a.parser, DefaultParser)
  BY <1>6, <1>7, <1>8
<1> QED BY <1>9 DEF Default, options

(* A refresher made from a fetcher and a configuration has both, and is an  *)
(* error if and only if validateRefreshSources says so.                     *)
LEMMA RefresherFacts ==
    ASSUME NEW made, made # Nil, NEW cfg, IsList(cfg.sources)
    PROVE  LET r == NewRefresher(<<WithFetcher(made), RefresherConfig(cfg)>>)
           IN  /\ r.fetcher = made
               /\ r.sources = cfg.sources
               /\ r.err <=> Invalid(cfg.sources)
<1> DEFINE options == <<WithFetcher(made), RefresherConfig(cfg)>>
           S       == {WithFetcher(made), RefresherConfig(cfg)}
           x       == [fetcher |-> Nil, sources |-> <<>>, err |-> FALSE]
           y       == [fetcher |-> made, sources |-> <<>>, err |-> FALSE]
           z       == [fetcher |-> made, sources |-> cfg.sources, err |-> FALSE]
<1>0. options \in Seq(S) OBVIOUS
<1>1. /\ Len(options) = 2
      /\ options[1] = WithFetcher(made) /\ options[2] = RefresherConfig(cfg)
  OBVIOUS
<1> HIDE DEF options, S, x
<1>2. PICK g : /\ Applied(x, options) = g[Len(options)]
               /\ g[0] = x
               /\ \A i \in 1 .. Len(options) : g[i] = Apply(g[i - 1], options[i])
               /\ \A i \in 0 .. Len(options) : DOMAIN g[i] = DOMAIN x
  BY <1>0, AppliedInTurn
<1>3. g[1] = Apply(x, WithFetcher(made)) /\ g[2] = Apply(g[1], RefresherConfig(cfg)) BY <1>1, <1>2
<1>4. g[1] = y BY <1>2, <1>3 DEF Apply, WithFetcher, Option, x
<1>5. <<>> \o cfg.sources = cfg.sources BY DEF IsList
<1>6. g[2] = z
  <2>1. g[2] = [y EXCEPT !["sources"] = y["sources"] \o cfg.sources]
    BY <1>3, <1>4 DEF Apply, RefresherConfig, WithSources, Option
  <2>2. y["sources"] \o cfg.sources = cfg.sources BY <1>5
  <2> QED BY <2>1, <2>2
<1>7. Applied(x, options) = z BY <1>1, <1>2, <1>6
<1>8. NewRefresher(options) = [z EXCEPT !.fetcher = Default(z.fetcher, NewFetcher(<<>>)),
                                        !.err = z.err \/ Invalid(z.sources)]
  <2> HIDE DEF z
  <2> QED BY <1>7 DEF NewRefresher, x
<1>9. z.fetcher = made /\ z.sources = cfg.sources /\ ~z.err /\ DOMAIN z = {"fetcher", "sources", "err"} OBVIOUS
<1> HIDE DEF z
<1>10. Default(z.fetcher, NewFetcher(<<>>)) = made BY <1>9 DEF Default
<1> QED BY <1>8, <1>9, <1>10 DEF options

(* A resolver made from a fetcher, a key ring and a configuration has that  *)
(* fetcher.                                                                 *)
LEMMA ResolverFacts ==
    ASSUME NEW made, made # Nil, NEW keys, NEW cfg
    PROVE  NewResolver(<<WithFetcher(made), WithKeyRing(keys), ResolverConfig(cfg)>>).fetcher = made
<1> DEFINE options == <<WithFetcher(made), WithKeyRing(keys), ResolverConfig(cfg)>>
           S == {WithFetcher(made), WithKeyRing(keys), ResolverConfig(cfg)}
           x == [fetcher |-> Nil, keyRing |-> Nil, keyIDExpander |-> Nil, err |-> FALSE]
           y == [fetcher |-> made, keyRing |-> Nil, keyIDExpander |-> Nil, err |-> FALSE]
           z == [fetcher |-> made, keyRing |-> keys, keyIDExpander |-> Nil, err |-> FALSE]
<1>0. options \in Seq(S) OBVIOUS
<1>1. /\ Len(options) = 3
      /\ options[1] = WithFetcher(made) /\ options[2] = WithKeyRing(keys)
      /\ options[3] = ResolverConfig(cfg)
  OBVIOUS
<1> HIDE DEF options, S, x
<1>2. PICK g : /\ Applied(x, options) = g[Len(options)]
               /\ g[0] = x
               /\ \A i \in 1 .. Len(options) : g[i] = Apply(g[i - 1], options[i])
               /\ \A i \in 0 .. Len(options) : DOMAIN g[i] = DOMAIN x
  BY <1>0, AppliedInTurn
<1>3. /\ g[1] = Apply(x, WithFetcher(made))
      /\ g[2] = Apply(g[1], WithKeyRing(keys))
      /\ g[3] = Apply(g[2], ResolverConfig(cfg))
  BY <1>1, <1>2
<1>4. g[1] = y BY <1>2, <1>3 DEF Apply, WithFetcher, Option, x
<1>5. g[2] = z
  <2>1. g[2] = [y EXCEPT !["keyRing"] = keys] BY <1>3, <1>4 DEF Apply, WithKeyRing, Option
  <2> QED BY <2>1
<1>6. \/ g[3] = [z EXCEPT !.err = TRUE]
      \/ g[3] = [z EXCEPT !.keyIDExpander = cfg.template]
  BY <1>3, <1>5 DEF Apply, ResolverConfig, WithKeyIDTemplate, WithKeyIDExpander, Option
<1>7. \/ Applied(x, options) = [z EXCEPT !.err = TRUE]
      \/ Applied(x, options) = [z EXCEPT !.keyIDExpander = cfg.template]
  BY <1>1, <1>2, <1>6
<1> QED BY <1>7 DEF NewResolver, Default, options, x

-----------------------------------------------------------------------------
(* What newFetcher, newRefresher and newResolver return is what is provided *)
(* and stays so; fx starts no refresher whose constructor failed.           *)
WiringInv ==
    /\ supplied \in Applications
    /\ phase = "new" => refresher = Nil /\ resolver = Nil
    /\ phase # "new" => fetcher = NewFetcher(FetcherOptions(supplied))
    /\ refresher # Nil =>
          /\ refresher = NewRefresher(<<WithFetcher(fetcher), RefresherConfig(supplied.config)>>)
          /\ refresher.err => phase = "refused"
    /\ resolver # Nil =>
          resolver = NewResolver(<<WithFetcher(fetcher), WithKeyRing("ring"),
                                   ResolverConfig(supplied.config)>>)
    /\ phase \in {"running", "stopped", "crashed"} => refresher # Nil

(* Nothing is provided at first. *)
LEMMA InitWiring == Init => WiringInv
BY DEF Init, WiringInv

(* The components are provided once, and the phases come in this order. *)
LEMMA WiringStep ==
    ASSUME WiringInv, [Next]_vars
    PROVE  WiringInv'
<1> USE DEF WiringInv
<1>1. CASE ProvideFetcher BY <1>1 DEF ProvideFetcher
<1>2. CASE ProvideRefresher BY <1>2 DEF ProvideRefresher, Provided
<1>3. CASE ProvideResolver BY <1>3 DEF ProvideResolver, Provided
<1>4. CASE Start BY <1>4 DEF Start
<1>5. CASE Stop BY <1>5 DEF Stop
<1>6. ASSUME NEW t \in Tasks, Fetch(t) PROVE WiringInv'
  <2>1. /\ phase = "running" /\ phase' \in {"running", "crashed"}
        /\ UNCHANGED <<supplied, fetcher, resolver, refresher>>
    BY <1>6 DEF Fetch
  <2> QED BY <2>1
<1>7. ASSUME NEW t \in Tasks, Wake(t) PROVE WiringInv' BY <1>7 DEF Wake
<1>8. CASE UNCHANGED vars BY <1>8 DEF vars
<1>9. CASE Over BY <1>8, <1>9 DEF Over
<1> QED BY <1>1, <1>2, <1>3, <1>4, <1>5, <1>6, <1>7, <1>8, <1>9 DEF Next

(* The components stay what their constructors returned. *)
THEOREM WiringInvHolds == Spec => []WiringInv
BY InitWiring, WiringStep, PTL DEF Spec

(* What newRefresher hands to fx to start has all the sources of the one    *)
(* configuration it takes them from, one for a URI: validateRefreshSources  *)
(* compares every two.                                                      *)
THEOREM SourcesAreDistinctHolds == Spec => []SourcesAreDistinct
<1>1. ASSUME WiringInv PROVE SourcesAreDistinct
  <2>1. SUFFICES ASSUME phase \in {"running", "stopped", "crashed"}
                 PROVE  /\ refresher.sources = supplied.config.sources
                        /\ \A t, u \in Tasks : SourceOf(t).uri = SourceOf(u).uri => t = u
                        /\ \A t \in Tasks : SourceOf(t).uri # NoURI
    BY DEF SourcesAreDistinct
  <2>2. /\ supplied \in Applications
        /\ refresher # Nil /\ ~refresher.err
        /\ fetcher = NewFetcher(FetcherOptions(supplied))
        /\ refresher = NewRefresher(<<WithFetcher(fetcher), RefresherConfig(supplied.config)>>)
    BY <1>1, <2>1 DEF WiringInv
  <2>3. fetcher # Nil BY <2>2, FetcherAssumption
  <2>4. IsList(supplied.config.sources) BY <2>2, ApplicationsAssumption
  <2>5. refresher.sources = supplied.config.sources /\ ~Invalid(supplied.config.sources)
    BY <2>2, <2>3, <2>4, RefresherFacts
  <2>6. Tasks \in SUBSET Int /\ \A t \in Tasks : 1 .. t - 1 \in SUBSET Tasks
    BY <2>4 DEF IsList, Tasks
  <2>7. \A t \in Tasks : /\ SourceOf(t).uri # NoURI
                         /\ \A k \in 1 .. t - 1 : SourceOf(k).uri # SourceOf(t).uri
    BY <2>5 DEF Invalid, Tasks, SourceOf
  <2>8. \A t, u \in Tasks : t < u => t \in 1 .. u - 1 BY <2>4 DEF IsList, Tasks
  <2>9. \A t, u \in Tasks : t # u => t \in 1 .. u - 1 \/ u \in 1 .. t - 1 BY <2>6, <2>8
  <2> QED BY <2>5, <2>7, <2>9
<1> QED BY <1>1, WiringInvHolds, PTL

(* With an injected parser, newFetcher's is that one, and newRefresher and  *)
(* newResolver keep newFetcher's.                                           *)
THEOREM InjectedParserIsUsedHolds == Spec => []InjectedParserIsUsed
<1>1. ASSUME WiringInv PROVE InjectedParserIsUsed
  <2>1. SUFFICES ASSUME supplied.parser # Nil, NEW x \in {resolver, refresher} \ {Nil}
                 PROVE  x.fetcher.parser = supplied.parser
    BY DEF InjectedParserIsUsed
  <2>2. supplied \in Applications /\ fetcher = NewFetcher(FetcherOptions(supplied))
    BY <1>1, <2>1 DEF WiringInv
  <2>3. fetcher # Nil /\ fetcher.parser = supplied.parser
    BY <2>1, <2>2, FetcherAssumption, FetcherHasParser
  <2>4. IsList(supplied.config.sources) BY <2>2, ApplicationsAssumption
  <2>5. CASE x = refresher BY <1>1, <2>1, <2>3, <2>4, <2>5, RefresherFacts DEF WiringInv
  <2>6. CASE x = resolver BY <1>1, <2>1, <2>3, <2>6, ResolverFacts DEF WiringInv
  <2> QED BY <2>1, <2>5, <2>6
<1> QED BY <1>1, WiringInvHolds, PTL
=============================================================================
