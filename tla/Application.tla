---------------------------- MODULE Application ----------------------------
(***************************************************************************)
(* An application built by clorthofx (clorthofx/provide.go): fx makes the  *)
(* components out of what the application supplies, its lifecycle starts   *)
(* and stops the refresher, and each of the refresher's tasks fetches and  *)
(* waits in turn.                                                          *)
(*                                                                         *)
(* What a fetch brings is only whether it failed and the header that came  *)
(* with the content; Refresher has the rest of a task.                     *)
(***************************************************************************)
EXTENDS Jitterer, Options

CONSTANTS
    Applications,  \* what the applications supply
    Headers        \* the Cache-Control headers that sources give

IsList(s) == s \in Seq({s[i] : i \in DOMAIN s})

ASSUME ApplicationsAssumption ==
    \A a \in Applications :
        /\ IsList(a.fetcherOptions)
        /\ IsList(a.config.sources)
        /\ \A i \in DOMAIN a.config.sources : Configured(a.config.sources[i])
ASSUME HeadersAssumption == Headers \subseteq Seq(Directive)

VARIABLES
    supplied,   \* the application
    phase,      \* how far it has got
    fetcher, resolver, refresher,   \* its components, Nil until provided
    pc,         \* per task: whether it fetches or sleeps
    timer,      \* the duration it sleeps for, else 0
    told        \* history: what the fetch before told it

vars == <<supplied, phase, fetcher, resolver, refresher, pc, timer, told>>

Tasks == DOMAIN supplied.config.sources
SourceOf(t) == supplied.config.sources[t]

Nothing == [err |-> FALSE, header |-> <<>>]

Init ==
    /\ supplied \in Applications
    /\ phase = "new"
    /\ fetcher = Nil /\ resolver = Nil /\ refresher = Nil
    /\ pc = [t \in Tasks |-> "none"]
    /\ timer = [t \in Tasks |-> 0]
    /\ told = [t \in Tasks |-> Nothing]

-----------------------------------------------------------------------------
(* newFetcher: an injected parser comes after the options, and so does,     *)
(* once more, if there is an injected loader.                               *)
OptionsFirst(in) ==        \* a fault: the options come last
    (IF in.parser = Nil THEN <<>> ELSE <<WithParser(in.parser)>>)
    \o (IF in.loader = Nil THEN <<>> ELSE <<WithParser(in.parser)>>)
    \o in.fetcherOptions

FetcherOptions(in) ==
    in.fetcherOptions
    \o (IF in.parser = Nil THEN <<>> ELSE <<WithParser(in.parser)>>)
    \o (IF in.loader = Nil THEN <<>> ELSE <<WithParser(in.parser)>>)

(* newFetcher returns one, which is not nil. *)
ASSUME FetcherAssumption == \A a \in Applications : NewFetcher(FetcherOptions(a)) # Nil

ProvideFetcher ==
    /\ phase = "new"
    /\ phase' = "building"
    /\ fetcher' = NewFetcher(FetcherOptions(supplied))
    /\ UNCHANGED <<supplied, resolver, refresher, pc, timer, told>>

(* A constructor that fails ends the application before it has started.     *)
(* The refresher is always made, a resolver if any part of it asks for one. *)
Provided(component, r) == component' = r /\ phase' = IF r.err THEN "refused" ELSE phase

ProvideRefresher ==
    /\ phase = "building" /\ refresher = Nil
    /\ Provided(refresher, NewRefresher(<<WithFetcher(fetcher), RefresherConfig(supplied.config)>>))
    /\ UNCHANGED <<supplied, fetcher, resolver, pc, timer, told>>

ProvideResolver ==
    /\ phase = "building" /\ resolver = Nil
    /\ Provided(resolver, NewResolver(<<WithFetcher(fetcher), WithKeyRing("ring"),
                                        ResolverConfig(supplied.config)>>))
    /\ UNCHANGED <<supplied, fetcher, refresher, pc, timer, told>>

-----------------------------------------------------------------------------
Start ==
    /\ phase = "building" /\ refresher # Nil
    /\ phase' = "running"
    /\ pc' = [t \in Tasks |-> "fetch"]
    /\ UNCHANGED <<supplied, fetcher, resolver, refresher, timer, told>>

Stop ==
    /\ phase = "running"
    /\ phase' = "stopped"
    /\ UNCHANGED <<supplied, fetcher, resolver, refresher, pc, timer, told>>

(* A task's fetch returns, and it sets its timer.  A panic is nobody's to   *)
(* recover, and ends the program.                                           *)
Heard == [err : BOOLEAN, header : Headers]

Fetch(t) ==
    /\ phase = "running" /\ pc[t] = "fetch"
    /\ \E h \in Heard : \E w \in Windows(SourceOf(t), TTL(h.header), h.err) :
          /\ told' = [told EXCEPT ![t] = h]
          /\ IF Panics(w)
             THEN phase' = "crashed" /\ UNCHANGED <<pc, timer>>
             ELSE /\ pc' = [pc EXCEPT ![t] = "sleep"]
                  /\ \E next \in Drawn(SourceOf(t), w) : timer' = [timer EXCEPT ![t] = next]
                  /\ UNCHANGED phase
    /\ UNCHANGED <<supplied, fetcher, resolver, refresher>>

Wake(t) ==
    /\ phase = "running" /\ pc[t] = "sleep"
    /\ pc' = [pc EXCEPT ![t] = "fetch"]
    /\ timer' = [timer EXCEPT ![t] = 0]
    /\ told' = [told EXCEPT ![t] = Nothing]
    /\ UNCHANGED <<supplied, phase, fetcher, resolver, refresher>>

Over ==
    /\ phase \in {"refused", "crashed", "stopped"}
    /\ UNCHANGED vars

Next ==
    \/ ProvideFetcher \/ ProvideRefresher \/ ProvideResolver
    \/ Start \/ Stop
    \/ \E t \in Tasks : Fetch(t) \/ Wake(t)
    \/ Over

Spec == Init /\ [][Next]_vars

-----------------------------------------------------------------------------
TypeOK ==
    /\ supplied \in Applications
    /\ phase \in {"new", "building", "running", "stopped", "refused", "crashed"}
    /\ pc \in [Tasks -> {"none", "fetch", "sleep"}]
    /\ timer \in [Tasks -> 0 .. MaxInt]
    /\ told \in [Tasks -> [err : BOOLEAN, header : Headers \cup {<<>>}]]

(* A configuration that lists a URI twice, or a source without one, is      *)
(* refused before anything is started: of what is started no two tasks poll *)
(* one URI, each of which would report the other's keys as its own.         *)
SourcesAreDistinct ==
    phase \in {"running", "stopped", "crashed"} =>
        /\ refresher.sources = supplied.config.sources
        /\ \A t, u \in Tasks : SourceOf(t).uri = SourceOf(u).uri => t = u
        /\ \A t \in Tasks : SourceOf(t).uri # NoURI

(* "This will override any parser described in FetcherOptions": both the    *)
(* refresher and the resolver parse with an injected parser.                *)
InjectedParserIsUsed ==
    supplied.parser # Nil =>
        \A x \in {resolver, refresher} \ {Nil} : x.fetcher.parser = supplied.parser

(* "This will override any loader described in FetcherOptions." *)
InjectedLoaderIsUsed ==
    supplied.loader # Nil =>
        \A x \in {resolver, refresher} \ {Nil} : x.fetcher.loader = supplied.loader

Sleeps(t)     == pc[t] = "sleep"
HasNoTTL(h)   == h.err \/ TTL(h.header) <= 0
MaxAge(h)     == FirstAge(h.header)
HasAge(h)     == ~h.err /\ AgesAt(h.header) # {} /\ MaxAge(h) # Bad

(* "Regardless of HTTP headers, the Interval field, etc, key refreshes will *)
(* not occur more often than" MinInterval; after an error, or without a     *)
(* TTL, a task waits within [1-Jitter,1+Jitter]*Interval.  The minimum is   *)
(* what it waits if all of that is shorter, and it may be, although that is *)
(* longer, only if (1+Jitter)*Interval overflows an int64.                  *)
WaitsAsConfigured ==
    \A t \in Tasks : Sleeps(t) =>
        LET s == SourceOf(t)
        IN  /\ timer[t] >= MinIntervalOf(s)
            /\ HasNoTTL(told[t]) =>
                  /\ NotTooSoon(s, timer[t]) \/ (timer[t] = MinIntervalOf(s) /\ Overflows(s))
                  /\ NotTooLate(s, timer[t]) \/ timer[t] = MinIntervalOf(s)

(* "We don't want to refresh after the TTL has elapsed": a task does not    *)
(* wait longer than a positive max-age, unless the minimum is longer, not   *)
(* even if max-age is too long for an int64 and wraps around.               *)
NotAfterExpiry ==
    \A t \in Tasks : Sleeps(t) /\ HasAge(told[t]) /\ MaxAge(told[t]) > 0 =>
        \/ timer[t] = MinIntervalOf(SourceOf(t))
        \/ timer[t] <= MaxAge(told[t]) * Second

(* No configuration or header makes a task panic but these.                 *)
CrashesNeedLongTTLs ==
    phase = "crashed" =>
        \E t \in Tasks :
            LET ttl == TTL(told[t].header)
            IN  /\ ~told[t].err
                /\ TooWide(SourceOf(t), ttl) \/ TooNarrow(SourceOf(t), ttl)
=============================================================================
