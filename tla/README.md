# A TLA+ model of clortho

clortho (package `clortho` and its `clorthofx`, `clorthozap` and `clorthometrics`
subpackages) gets cryptographic keys from servers and files, keeps them in a
client-side ring, refreshes them on a schedule and resolves single ones on
demand.  This directory models it in TLA+, checks the model with TLC on small
instances, and proves what matters most with TLAPS for all instances.

## The system

| Component | State | Operations | Talks to |
|---|---|---|---|
| `Key`, `Keys` (key.go, keys.go) | immutable keys: an optional ID, material | conversion from JWK, `EnsureKeyID`, sorting | the JWK library |
| `KeyRing` (keyRing.go) | map from key ID to key, an RWMutex | `Get`, `Len`, `Add`, `Remove`, `OnRefreshEvent` | shared by resolver, refresher, clients |
| `Loader` (loader.go) | none | `LoadContent` by scheme: HTTP (conditional requests, timeout, status, length) and files | servers, file systems |
| `Parser` (parser.go, format.go) | table of formats | `Parse` by format: JWK, JWK set, PEM | the JWK library |
| `Fetcher` (fetcher.go) | none | `Fetch`: load, parse, give every key an ID | `Loader`, `Parser` |
| `Resolver` (resolver.go) | map of pending requests, `resolveLock` | `Resolve`, `AddListener` | ring, `Fetcher`, listeners |
| `Refresher` (refresher.go) | the running tasks' cancel function; per task the last good keys and metadata | `Start`, `Stop`, `AddListener`, a goroutine per source | `Fetcher`, jitterer, listeners |
| `listeners` (listeners.go) | list of listeners, a mutex | add, cancel, visit | callbacks into ring, logs, metrics, applications |
| `jitterer` (jitterer.go) | precomputed window | `nextInterval` | `Refresher` |
| configuration (config.go, options.go) | none after construction | options, validation | all constructors |
| `clorthofx` | none | wires the above into an application's lifecycle | all |
| `clorthozap`, `clorthometrics` | logger; counters | one log entry or increment per event | listeners |

The hard parts are the resolver's coalescing of concurrent requests (two looks
at the ring, a lock, a pending map, a channel, contexts that end at any time,
fetches that fail), the refresher's tasks, which Stop cancels and does not wait
for, so that tasks of several runs are alive together, the metadata of
conditional requests, which must never vouch for keys a task has not got, the ring
that resolver and refresher write without any order between a fetch and its result's
arrival, listeners that are called with a mutex held, and the 64-bit and floating-point
arithmetic between a header and a timer.
PROJECT.json lists under "hazards" each place where this can go wrong, and
the properties that would catch it.

What makes each component correct:

- **KeyRing**: entries are filed under their own ID; after an event the ring has
  the keys of that event and none of its deleted ones.
- **Resolver**: one fetch per key ID at a time; no lost wakeup; waiters agree with
  their leader; calls wait in a circle only behind a listener whose own call of `Resolve`
  leads a fetch; a fetched key is not fetched again; calls return.
- **Refresher**: events are exact differences; errors keep the last good keys;
  at most one run is alive; stopped tasks end; the ring converges to the sources.
- **Fetcher**: keys have IDs; no key is dropped silently; "not modified" never
  hides content the task has not read.
- **listeners**: an event reaches all listeners before the next reaches any;
  after a cancellation no event reaches the listener; a callback that panics costs only
  the listeners behind it that event, and never the mutex.
- **jitterer**: intervals stay within what `RefreshSource` documents until they overflow; no
  header makes the task poll without pause, nor panic unless its jitter is extreme.
- **configuration**: what is started is what was configured: distinct sources, the
  injected parser and loader.
- **the whole**: each part keeps its promises beside the others; the ring holds what
  was stored in it last and comes to hold what is served; the metrics are right.

## The modules

`Keys` declares keys: a record of an ID and material. `NoID` is the empty ID,
`NoKey` the nil key. A slice of keys is a set.

`KeyRing` extends it with the variable `ring` and an operator per method.
Every method holds the mutex for its whole body, so each is one atomic step of
whoever calls it; `Resolver` and `Refresher` extend `KeyRing` and use its
operators in their actions.

`Resolver` models `Resolve` for a set `Calls` of goroutines. Program locations
and code:

| location | where the goroutine is |
|---|---|
| `check` | before the first look at the ring (resolver.go:223) |
| `lock` | before `resolveLock.Lock()` (227) |
| `elect` | holding the lock, after the second look (233) |
| `wait` | in the select of `waitForKey` (170) |
| `fetch` | in `fetchKey` (185) |
| `publish` | before `keyRing.Add` and `value.Store` (243) |
| `cleanup` | before the second `Lock` (251) |
| `dispatch` | before `visit` takes the mutex of the listeners (255, listeners.go:53) |
| `notify` | in `visit`, with that mutex, while the listeners are called (listeners.go:60-62) |
| `aborted` | ended by a panic of a listener, which gives the mutex back |

Looking at the ring under the lock and taking the lock are one step, `keyRing.Add`
and `value.Store` are one step: no other goroutine can see between them anything
it could not see before or after (the value is read only once the channel is
closed). Only calls that led a fetch notify the listeners. `listenersLock` is the mutex
that `visit` holds meanwhile, and a listener may call `Resolve` itself (`Reenter`); `caller`
remembers which call's notification that was from, and a notification is not over while
such a call is not (`Busy`). What else is done to the list of listeners is in `Listeners`.
A fetch or a listener that panics under a caller that recovers (as `net/http` does for its
handlers) is `FetchPanics` or `ListenerPanics`, enabled by a constant.
Expansion of the URI template is part of the fetch.

`Refresher` models `Start`, `Stop` and `refreshTask.run`. A task is a pair of a
run (the how-manieth `Start`) and a source; it goes through `fetch`, `dispatch`
and `sleep`. What a source serves and its modification stamp are variables of
the model and may change at any time. `latest` and `late` are history: the last
good event per task, and how many events a task sent after it was stopped.
A source may serve two keys under one ID: `newKeyMap` (refresher.go:187-194) keeps the last
of them, keys are a set here, and so `GoodEvents` lets the event name either (`Missing`).
A 304 is an error, as it is to the JSON parsers; what it is to others is in `Fetcher`.
The look at the context follows the return of `Fetch` at once, so a `Stop` between
the two is the same as one just before. Time is abstract: a timer fires whenever
it is waited for, which covers every interval the jitterer can give.

`Fetcher` models `Fetch` as a pure computation (`Loads`, `Parse`, `EnsureKeyID`,
`Fetched`) under a task that polls one source whose content, format, stamp and
headers vary. `EmptyIsValid` names the parsers that take no content for
no keys. The built-in PEM parser is one, since `jwk.Parse` with PEM makes an empty set of
empty data, and the run has it so: a PEM response without a length, or a 304 that says to be
PEM, is a good fetch without keys, which the properties except by name (`EmptyFetch`,
`TakesNothing`). A server that is `strict` answers 304 only to a conditional request that
warrants it; another may at any time, which `HTTPLoader` accepts. A custom parser's keys
are not clortho's own, and `EnsureKeyID` panics on one without an ID (`PollPanics`).
`Coarse` allows content to change under one stamp.

`Listeners` models listeners.go for a set of goroutines. The list is the set of its
elements, ordered by the rank they were added in; the list that is created lazily
is the empty set before. A goroutine goes from `idle` to `add`, `cancel` or
`dispatch`, where it waits for the mutex; `Visit` takes it, `Call` and `Return`
alternate while the visit is at `visit` and in a `callback`, and `EndVisit` gives it
back. A callback may take any time; it may call back (`Reenter`), after which its
goroutine waits for a mutex it holds itself; and it may panic (`CallbackPanics`) under a
caller that recovers, as callers of `Resolve` may, which ends the visit by its deferred
`Unlock`. `joined` and `cut` are history: the visits that had begun when a listener was
added, and those that a panic ended. `Broadcast` is what the list is for:
an event reaches everyone who is registered in one step, which is how `Refresher` delivers
its own. `Resolver` holds the mutex while its listeners are told, since its calls wait for it. `ImplementsBroadcast` maps a list in use to a
broadcast: who is registered is who is in the list, and the events a listener was
told of are those it was called with and, if the visit under way has yet to come to
it (`Due`), that visit's. So the broadcast's `Send` is `Visit`, calls are stutters, and a
panic is `CutShort`: some lose again an event that they have not been called with yet.
A listener behind a callback that called back stays due for ever: it has the event in
the broadcast and never in the code. That is a question of liveness, and
`OnlyReentryBlocks` answers it.

`Flights` is what the resolver's pending requests are for: calls that want one key ID
share a flight, one at a time for an ID, and whoever stays aboard shares its outcome.
`ImplementsFlights` maps the pending map to the flights in the air, a call's request to
the flight it boarded, a closed channel to a flight that has landed, and a leader's
result, once its channel is closed, to the outcome. The ring is not in it: `Hit` says only
that a key with the right ID was found. Lock, `publish` and fetch are stutters, so the
refinement is where one sees that their order does not matter to callers. `FlightsShared`
is the same of the calls in `Clortho`, where hits come from a ring the refresher changes.

`Clortho` composes `Resolver` and `Refresher` by `INSTANCE`, over one ring and with one set of
servers behind both: a call of `Resolve` finds what some source serves at that moment and
stores it at any later one. The metrics' gauge is a second listener of the refresher.
`overlay` is history: for each key ID, the call that stored its key after the last event
about it. A step of either part leaves the other's variables as they are, but for the ring.

`Jitterer` has the arithmetic of jitterer.go and of `max-age` in loader.go as operators, on
integers that wrap around at `MaxInt`. A window is a base and the argument of `Int63n`; it
is a set of windows where the conversion of a float that does not fit is up to the
processor (`TooLarge`: the smallest int64 or the largest, one of the two for both ends of a
window). A product with the jitter is any integer that float64 may make of it: the duration
is converted (`Rounded`: exact up to `Exact`, 2^53, then off by at most one part in
`Exact`), the factor and the product are rounded (`Scaled`: three parts in `Exact` for both, and
on their side of the duration as rounding is monotone), and the fraction is cut off. A jitter
is any fraction; NaN, which passes `newJitterer`'s comparisons as neither too small nor too
large, is left out.

`Options` has the options, what they do to what is being constructed and in which order,
the constructors with their defaults, and the validation of sources. `Application` is a
state machine over both: fx provides the fetcher, the refresher and, if anything asks for it,
the resolver; a constructor that fails refuses the application; `Start` and `Stop` are its
hooks; and each task fetches, is told an error or a header, and draws the time it sleeps.
What else a task does is in `Refresher`, whose timers may fire whenever they are waited for,
so that whatever `Application` draws is among its behaviours.

`ResolverProofs`, `RefresherProofs`, `FetcherProofs`, `ListenersProofs`,
`BroadcastProofs`, `ClorthoProofs`, `JittererProofs` and `ApplicationProofs` hold the theorems. `MCResolver`, `MCRefresher`, `MCFetcher`,
`MCListeners`, `MCClortho` and `MCApplication` give TLC its instances.

A module also has, above the definitions they are variants of, a few definitions
with a single mistake in them. Nothing uses them; PROJECT.json pairs each with a
property that the mistake violates, which shows that the property watches that code.

## The runs

| Run | Checks | Shows |
|---|---|---|
| `Resolver_faithful` | `AnswersHaveRequestedID`, `NoSecondFetch`, `PendingIsInFlight`, `CallsReturn`, `CancelledWaitersReturn`, `LockIsGranted` | Three calls of Resolve for one key ID, a ring and a faithful server; goroutines are scheduled fairly and fetches may hang: no second fetch once a key is in the ring, no key under another ID, nothing left pending, a cancelled waiter returns, resolveLock is not held across a fetch, and if fetches and listeners return, so does every call, but for those behind a listener's own call that led a fetch. |
| `Resolver_shared` | `IInv`, `SingleFlight`, `WaitersCanBeWoken`, `WaitersAgree`, `NoCircularWait`, `ImplementsFlights` | Three calls, two key IDs, any response, clients that change the ring, and fetches that panic under callers that recover: the inductive invariant, one fetch per key ID at a time, no lost wakeup, what waiters return, that calls wait in a circle only where a listener's own call has led a fetch, and that all of it implements shared flights. |
| `Resolver_panic` | `PendingIsInFlight` | A fetch that panics under a caller that recovers leaves its request pending with nobody in flight. *Violated.* |
| `Refresher_first` | `RingTracksEvents`, `Converges` | One run of two sources, one with coarse stamps, that share a key, rotate, withdraw and bring back their keys and fail: the ring has all the keys last reported and no others, and left alone the run brings it to what the sources serve. |
| `Refresher_restart` | `IInv`, `AtMostOneLateEvent`, `OneLiveRun`, `ErrKeysAreLastKnown`, `DiffsAreExact`, `StoppedTasksExit` | A restart while the source rotates and withdraws keys, with tasks of both runs alive together: the inductive invariant, events that are exact differences and errors that keep the last keys in either run, at most one late event, one run that is not stopped, and stopped tasks that end. |
| `Refresher_not_modified` | `NotModifiedIsNoError` | A source that answers that its keys have not changed makes the task send an event with an error. *Violated.* |
| `Fetcher_polls` | `TypeOK`, `KeysHaveIDs`, `NotModifiedMissesNothing`, `NeverTwoNotModified`, `NothingIsDropped` | A task polls sources of every kind, over HTTP and from files, with the built-in parsers, of which PEM takes empty content, and a custom one: its keys have IDs, a stamp it sends is that of keys it has, a 304 is followed by an unconditional request, and no key of a good fetch is lost, but for what empty content does. |
| `Listeners_visits` | `IInv`, `NoGapsAtRest`, `ImplementsBroadcast`, `CancelIsFinal`, `OnlyReentryBlocks` | Goroutines add, cancel and dispatch at once, also from callbacks, which may panic: the inductive invariant, the listeners implement a broadcast, only who is behind a callback that panics misses an event, a cancelled listener is not called, and only a callback that calls back blocks anyone. |
| `Clortho_shared` | `TypeOK`, `RingIsExplained`, `GaugeIsLastKnown`, `ServedKeysAreFresh` | A call of Resolve beside a refresher, over one ring, with sources that rotate and withdraw their key, fetches that fail, hang or panic, and a Stop: every variable keeps its type, the ring holds what the last of the two stored, the gauge is the number of keys, and outdated keys are replaced in time. |
| `Clortho_ghost` | `RingConverges` | A key that a call of Resolve has stored, and that its source has withdrawn before the refresher saw it, stays in the ring for good. *Violated.* |
| `Application_intervals` | `TypeOK`, `SourcesAreDistinct`, `InjectedParserIsUsed`, `WaitsAsConfigured`, `NotAfterExpiry`, `CrashesNeedLongTTLs` | Applications wired in every way, with an int64 of 8 bits, float64s that are rounded above 64, and intervals, minimums, jitters and max-ages on both sides of where they are defaulted or overflow: the sources of a configuration are distinct, an injected parser is used, tasks wait as documented until an interval overflows, and only a long TTL with a jitter above one half or close to none panics. |
| `Application_loader` | `InjectedLoaderIsUsed` | An application that supplies a Loader gets components with another one. *Violated.* |

Bounds. Three calls are the least with a leader and two waiters, or with a
leader, a waiter and a goroutine that arrives after cleanup; two key IDs the
least for a response with another ID. `Resolver_faithful` has one ID, as faithful servers
never mix two up; `Resolver_shared` has two. Two materials tell a rotated key from the
one before. Two sources are the least that can share or not share a key. Two starts give
the task of a stopped run, with its late event, beside the live one's of the same source.
Two changes let a source withdraw a key and bring it back. A stamp of 3 leaves room for two
changes after a first poll.

`Clortho_shared` has one call and one run. For what it checks, which is about the ring, the
gauge and what is served, a second call adds only another writer: with
two changes of one source, a key is rotated between the call's fetch and its `Publish`, with
a poll in between or not, and withdrawn after. `PartsHold` and `FlightsShared` would be
vacuous with one call and one run, since they are about calls and runs beside each other, and
with two the run is too long: they are proved, and not run. What a restart does to the ring
is in `Refresher_restart`, what it does to the whole in the proof of `RingIsExplained`. `Application_intervals` has an `int64` of 8
bits, a second of 4 units, so that 32 seconds overflow, and an `Exact` of 64, so that floats
are rounded for the longer half of the durations; unset, improper, small and
overflowing values of every field meet all headers.

Three goroutines can be one that visits, one that waits to visit and one that cancels
or adds; two listeners the least where one is called before the other is cancelled;
and with two visits a listener may miss an event between two it gets.
`Listeners_visits` checks no deadlock, because a callback that calls back is one.

Fairness. `ScheduledSpec` assumes weak fairness of every step of a call that
depends on the Go scheduler and on `sync.Mutex` only (which hands over to a starving
waiter). `Dispatch` is one of these, since it is no more than taking the mutex of the listeners;
it is not enabled while another call holds it. `CallsReturn` takes two premises besides:
`FetchesReturn`, as no code in resolver.go bounds a fetch, and `ListenersReturn`, that a
listener returns once the calls it has made have. Even so calls may hang behind a listener
whose own call leads a fetch, and the property says which. `CancelledWaitersReturn` and
`LockIsGranted` need neither. `FairSpec` of `Refresher` assumes that a task moves on
(fetches return, listeners return, timers fire); `AnsweringSpec` adds strong fairness
of successful fetches, that is, a source that is asked for ever answers some day.
`FairSpec` of `Clortho` assumes of each part what that part's own does, and nothing of a
resolver's fetch, which may hang. `Application` states no fairness.
`FairSpec` of `Listeners` assumes that the Go scheduler and the mutex let every
goroutine on and that callbacks return, not that anyone adds, cancels or dispatches, nor
that a callback panics or does not.

## The proofs

- **Resolver.** `IInv` is the conjunction of the type invariant; `LockInv` (the
  lock is held exactly in `elect`); `PendingInv` (the pending map has exactly
  the unfinished leaders, each under its ID); `RequestInv` (a waiter's request
  was made by a leader of the same ID, and is pending or closed); `ClosedInv`
  and `ValueInv` (a closed request's value is the leader's result); `ListenersInv` (the
  mutex of the listeners is held exactly in `notify`, and until the listeners' own calls are
  over); `PanicInv`; and `WaitersAgree`. `SingleFlight` is not inductive: that the pending map has one
  entry per ID, and that all unfinished leaders are in it, is. `NoSecondFetch` needs
  `FetchedInv` besides: a found key stays in the ring, and a call that holds
  the lock has not overlooked it. Assumed of the constants are only their types,
  in `PendingIsInFlightHolds` also that no panic is recovered. `NoCircularWait` says more of
  deadlocks than TLC's own check, to which the end of a context is a way out; it follows from the same invariant (`WaitsEnd`): who
  holds `resolveLock` is in `elect` and waits for nobody, a pending request's maker has yet to
  fetch or to clean up, and who holds the listeners' mutex waits only for a call that its
  listener has made: which closes a circle just if that call has led a fetch
  (`ReentrantLeadersHang`). `FlightsImplemented` needs no more invariant than `IInv`: every action of `Resolver` is shown to be one of `Flights`
  or a stutter; `AnswersOf` and `ReturnAnswers` relate what the two call an answer.
- **Refresher.** `RunInv` (the started runs but the active one are cancelled),
  `LateInv` (a task that has spent its late event is not about to send another),
  `MemoryInv` (of every task of every run: what it remembers is what its listeners were
  told last, and the event it has ready is relative to that), and what the ring holds:
  `NothingStale`, that each key in it is one of some task's last good event, and
  `NothingLost`, that none of the latest run's is missing under an ID that only its source
  has, unless a task of an earlier run has sent its late event (`UndisturbedBefore`: a run
  begins with nothing to lose; `OthersAreSilent`: while no late event is sent, nobody else
  sends for that source). What the properties say of events follows (`TasksPromise`),
  restarts or not.
- **Fetcher.** A stamp that is kept is no newer than the source's, and if it is
  the source's, the keys kept are those one would read again (`StampInv`).
  `NothingIsDroppedHolds` follows from `GoodFetchIsWhole`, that a fetch without an
  error has converted every JWK it was given, and `NoContent`, what no content is taken for;
  both are for any parsers, those that take empty content included.
- **Listeners.** `LockInv` (the mutex is held exactly during a visit), `VisitInv` (a
  visit's element is in the list, for nobody could remove it), `AddInv` and `RankInv`
  (places in the list are distinct), and `GotInv` (a visit has called those in the list who
  are not due any more, and nobody else). Who is due, and how that changes, is in lemmas of
  its own (`AllDue`, `CallDue`, `GoingOn`, `DueStays`). `EldersHearFirst`, that whoever has
  heard an event has everyone before it in the list beside it, is part of the induction; it
  holds in the middle of a visit and after a panic. `BroadcastImplemented` shows that
  additions, cancellations, beginnings of visits and panics map to the broadcast's steps
  (`AddsRefine`, `VisitRefines`, `PanicRefines`) and all else to none (`CallsStutter`,
  `Requests`); `NoGapsAtRestHolds` then takes over what `NoGapsHolds` proves of any broadcast.
- **Clortho.** Both parts' proof modules are instantiated (`ResP`, `RefP`), so that what they
  prove of a step is used and not proved again: a step of one part is a step of its module,
  and for the other a step of its environment, which may change only the ring (the lemmas
  called Same, `CallSteps`, `TaskSteps`, `CallStepsKeepTasks`, `TaskStepsKeepCalls`). So
  `PartsHold` is shown by an induction over `Kept`, the parts' own invariants but for what
  `Refresher` says of a ring of its own, and its promises follow from these as they do for
  each part alone (`InvariantsSuffice`): of the resolver `SingleFlight`,
  `WaitersCanBeWoken`, `NoCircularWait`, `WaitersAgree`, `AnswersHaveRequestedID` and, without
  recovered panics, `PendingIsInFlight`; of the refresher `AtMostOneLateEvent`, `OneLiveRun`,
  `ErrKeysAreLastKnown` and `DiffsAreExact`. `NoSecondFetch` and `RingTracksEvents` are not
  among them: they are about a ring that nobody else writes, and `RingIsExplained` is what
  is left of them.
  `FlightsSharedHolds` is the refinement of `Flights` again, by `FlightsStep`: no step of a
  task, and no key one puts into the ring, makes a call's step other than it was.
  `RingIsExplained`, in all runs, takes over the lemmas on undisturbed tasks
  (`UndisturbedTasks`) and needs `OverlayInv` too, that a call whose key lies over an event's is past
  its publication and no longer changes its result.
- **Jitterer and Application.** `JittererProofs` is about one computation for any width of
  integers: what wraps around and where to (`WrapFacts`), how far roundings may move a product
  (`RoundedFacts`, `ScaledFacts`; together by less than 5 in `Exact`, `RoundingsAddUp`), between
  what a window's two ends lie (`EndFacts`), when Int63n accepts it and what may be drawn
  (`IntervalWindowFacts`, `TTLWindowFacts`), and that a TTL that overflowed belongs to an age
  longer than any timer (`TTLFacts`). `ApplicationProofs` shows that a timer is always one so
  drawn. `WiringInv` says that the components are what their constructors return for what was
  supplied. Constructors apply a list of options of any length, by a recursive function;
  where induction would be needed, `LastOptionStays` and `FetcherHasParser` take the shortest
  list that fails, which has one option fewer before it for which nothing did, and
  `AppliedInTurn` says what that one more option makes of it. Facts about 64 bits are assumptions, which TLC checks of its 8: the largest
  integer is odd and a second even, so that no TTL is the largest integer, with which a
  jitter of one half would panic; a float64 below 1 is not so near to it that the largest
  int64 times their difference vanishes (`Precise`); and `Exact` is at least 16.

Only model-checked is liveness (`CallsReturn`, `CancelledWaitersReturn`,
`LockIsGranted`, `StoppedTasksExit`, `Converges`, `OnlyReentryBlocks`,
`ServedKeysAreFresh`), which is out of reach of the provers; every other property of a
passing run is a theorem (the types of `Clortho` as a part of `PartsHold`). Only proved, and in no run, are `PartsHold` and `FlightsShared`.
The proofs are about any number of calls, key IDs, sources, runs, changes, listeners,
events and options.

## Where the code and its documentation differ

- resolver.go:251 (code bug, run `Resolver_panic`): cleanup is not deferred: when Fetch, Expand or KeyRing.Add panics and a caller recovers (net/http does), the request stays in the map for good and every later call for that key ID waits until its own context ends; resolver.go:117-118 says "this is an existing request that is already in-flight within another goroutine".
- refresher.go:246 (doc code divergence, run `Refresher_not_modified`): the empty content of a 304 goes to the parser, which fails, so every other poll of an unchanged source that honors If-Modified-Since is reported as an error; loader.go:216-218 says "because we honor the Last-Modified header, the server can legitimately response with this status code."
- resolver.go:245 (doc code divergence, run `Clortho_ghost`): Resolve adds the key it fetched to the ring without the refresher's knowing; if the source withdraws that key before the refresher has polled it, no event ever names it as Deleted, because a task compares only with its own previous keys, and the ring serves a withdrawn key for good; clorthofx/provide.go:187-188 says of the ring "this is also used as the cache for the resolver and is refreshed using the injected clortho.Config configuration."
- clorthofx/provide.go:59 (code bug, run `Application_loader`): an injected Loader makes newFetcher append WithParser(in.Parser) a second time, and never WithLoader: the loader is not used, and a parser given in the options is replaced by the default one; clorthofx/provide.go:39-40 says of Loader "This will override any loader described in FetcherOptions."

## Further observations

These have no run of their own.

- A waiter gets `ErrKeyNotFound` for any error of its leader, the end of the leader's own
  context included (resolver.go:179; `WaitersAgree` states it).
- A restart forgets a task's previous keys: all keys are New again, and what was withdrawn
  while the refresher was stopped is never Deleted from the ring (refresher.go:216). So an
  event's difference is exact within its run, and not from one run to the next; what stays
  in the ring beyond what is served are keys of the last good event of a stopped task
  (`NothingStale`); and if the first fetch after a restart fails, the gauge falls to 0 while
  the ring keeps its keys.
- A task may send one event after `Stop` has returned (`AtMostOneLateEvent`). After a quick
  restart such an event may delete from the ring keys that the new run has reported, until
  that run's next good event (`Undisturbed`).
- The documentation of `Jitter` promises [1-Jitter,1+Jitter] "No matter how the interval is
  determined" (config.go:50-52); with a TTL the window is [1-2*Jitter,1] of it.
- `max-age=0` counts as no TTL, so that content that is not to be cached is refreshed
  after the default interval (jitterer.go:57); `Expires`, which a comment mentions
  (loader.go:251), is never read.
- The minimum interval holds between two fetches of one run, not across `Stop` and `Start`.
- Nothing reads `ResolveConfig.Timeout` (config.go:93).
- A listener of a resolver that calls `Resolve` from `OnResolveEvent` and leads a fetch waits
  for the visit it was called from (resolver.go:155-159, listeners.go:53), and so does every
  later leader (`ReentrantLeadersHang`). Nothing in the documentation forbids or promises it.
- A 200 response without a Content-Length is read as empty (loader.go:224; `HTTPLoads` has it
  so). The JSON parsers reject it. The PEM parser does not (parser.go:87-91): all keys of such a
  source are lost without an error, and its stamp may keep them away for as long as the source
  does not change.
- A 304 is accepted in answer to any request, conditional or not (loader.go:215).
- `EnsureKeyID` panics on a key without an ID that a custom `Parser` made (key.go:150), which
  ends the program when a refresher's task has fetched it.
- Of two keys with one ID in a set, the events name the last (refresher.go:187-194), and the
  ring may hold the other.
- If (1+Jitter)\*Interval is longer than an int64, the interval may wrap around, and the task
  then polls at the minimum interval (`Overflows`). With a TTL of 146 years or more a
  jitter above one half makes `Int63n` panic, and with one above 104 days a jitter below
  2^-51 may (`TooWide`, `TooNarrow`; jitterer.go:62-63).
- A callback that panics under a caller of `Resolve` that recovers ends the visit, so that
  the listeners after it miss the event (listeners.go:61). `NoGapsAtRest` and
  `EldersHearFirst` say what is left to them: every other event, and none that those before
  them have not heard.
- clorthozap's `WithLevel` is documented for refresh and resolve events alike, and
  `OnResolveEvent` ignores it (clorthozap/listener.go:108).
- clorthometrics' `NewListener` without options is documented as a no-op and is a listener
  without metrics, which panics on its first event; and it keeps only the last option's error
  (clorthometrics/listener.go:62-68).

## Not modelled, and the plan

What is left, in this order:

1. Several tasks, calls and runs at once in the runs of `Clortho`, which have one of each:
   its theorems cover them, and TLC has not looked for what no theorem says.
2. `Keys.Less` as a strict weak order, and sorted events: events are sets of keys here, and
   no property is about their order.
3. The level of log entries in clorthozap.

`WithSchemes` and `WithFormats` only fill the tables that `Fetcher` takes as constants.
Key type, usage and raw forms, log text, metric names and the spelling of
headers are data that no property tells apart, and are left out. Of `clorthometrics` only
the gauge is modelled; the rest is counted in an external library.
