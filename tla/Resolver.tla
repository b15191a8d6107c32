------------------------------ MODULE Resolver ------------------------------
(***************************************************************************)
(* resolver.Resolve (resolver.go): a read-through lookup of a key that     *)
(* coalesces concurrent requests for one key ID into a single fetch.       *)
(*                                                                         *)
(* Each member of Calls is one goroutine's call of Resolve, cut where      *)
(* another goroutine may be observed: the two looks at the ring, the hold  *)
(* of resolveLock, the fetch, the wait.  Its context may be cancelled at   *)
(* any time.  The ring is shared with clients that Add and Remove keys     *)
(* (the Refresher is one of them).  Fetcher and Expander are external to   *)
(* this file: a fetch answers with any set of keys Responses allows, fails,*)
(* or, when PanicsRecovered, panics under a caller that recovers.          *)
(*                                                                         *)
(* The pending request a call creates is named after the call.             *)
(***************************************************************************)
EXTENDS KeyRing

CONSTANTS
    Calls,            \* the calls of Resolve
    NoCall,           \* the nil *pendingResolverRequest
    HasRing,          \* whether WithKeyRing was used, r.keyRing != nil
    Responses,        \* Responses[id]: the sets of keys a fetch of id may give
    ClientKeys,       \* keys that clients of the ring add and remove
    PanicsRecovered   \* whether a panic in Fetch leaves the process running

ASSUME NoCallAssumption  == NoCall \notin Calls
ASSUME FlagsAssumption   == HasRing \in BOOLEAN /\ PanicsRecovered \in BOOLEAN
ASSUME ResponseAssumption ==
    /\ Responses \in [KeyIDs -> SUBSET SUBSET Key]
    /\ ClientKeys \in SUBSET {k \in Key : k.kid \in KeyIDs}

VARIABLES
    lock,        \* the call that holds resolveLock, or NoCall
    pending,     \* r.pending: the request in flight for each key ID, or NoCall
    pc,          \* where each call is
    arg,         \* its keyID argument
    cancelled,   \* the calls whose context is done
    request,     \* the call whose request it got from requestFor, or NoCall
    value,       \* request.value, NoKey until stored
    closed,      \* the requests whose done channel is closed
    result,      \* the (Key, error) each call returns or is about to
    listenersLock,   \* the call that holds listeners.lock, or NoCall
    caller       \* the call whose listener made this one, or NoCall

notifyVars == <<listenersLock, caller>>
vars == <<ring, lock, pending, pc, arg, cancelled, request, value, closed, result, notifyVars>>

(* A panic in Fetch leaves a call "panicked", one in a listener "aborted".  *)
Locations == {"idle", "check", "lock", "elect", "wait", "fetch", "publish", "cleanup",
              "dispatch", "notify", "done", "panicked", "aborted"}
Over      == {"done", "panicked", "aborted"}
Errors    == {"nil", "ErrKeyNotFound", "fetch", "ctx"}
Result    == [key : Key \cup {NoKey}, err : Errors]

Found(k)  == [key |-> k, err |-> "nil"]
Failed(e) == [key |-> NoKey, err |-> e]

Init ==
    /\ ring = EmptyRing
    /\ lock = NoCall
    /\ pending = [id \in KeyIDs |-> NoCall]
    /\ pc = [c \in Calls |-> "idle"]
    /\ arg = [c \in Calls |-> NoID]
    /\ cancelled = {}
    /\ request = [c \in Calls |-> NoCall]
    /\ value = [c \in Calls |-> NoKey]
    /\ closed = {}
    /\ result = [c \in Calls |-> Failed("nil")]
    /\ listenersLock = NoCall
    /\ caller = [c \in Calls |-> NoCall]

-----------------------------------------------------------------------------
Goto(c, from, to) == pc[c] = from /\ pc' = [pc EXCEPT ![c] = to]
Return(c, from, r) == Goto(c, from, "done") /\ result' = [result EXCEPT ![c] = r]

(* checkKeyRing: without a ring nothing is ever cached. *)
InRing(id) == HasRing /\ Cached(id)

(* Single faults: each is an action or helper below with one mistake in it. *)
SelectAny(keys, id) == keys

LeadUnrecorded(c) ==      \* requestFor does not store what it made
    /\ Goto(c, "elect", "fetch")
    /\ pending[arg[c]] = NoCall
    /\ request' = [request EXCEPT ![c] = c]
    /\ lock' = NoCall
    /\ UNCHANGED <<ring, pending, arg, cancelled, value, closed, result, notifyVars>>

LeadHoldingLock(c) ==     \* the lock is held until the fetch is over
    /\ Goto(c, "elect", "fetch")
    /\ pending[arg[c]] = NoCall
    /\ request' = [request EXCEPT ![c] = c]
    /\ pending' = [pending EXCEPT ![arg[c]] = c]
    /\ UNCHANGED <<ring, lock, arg, cancelled, value, closed, result, notifyVars>>

LockWithoutRecheck(c) ==  \* the ring is not looked at under the lock
    /\ Goto(c, "lock", "elect")
    /\ lock = NoCall
    /\ lock' = c
    /\ UNCHANGED <<ring, pending, arg, cancelled, request, value, closed, result, notifyVars>>

WaitForLeaderOnly(c) == FALSE   \* a wait that ignores its context

FindNothingPublishes(c) ==      \* no key, and no error either
    /\ Goto(c, "fetch", "publish")
    /\ \E keys \in Responses[arg[c]] : ~\E k \in keys : k.kid = arg[c]
    /\ result' = [result EXCEPT ![c] = Failed("nil")]
    /\ UNCHANGED <<ring, lock, pending, arg, cancelled, request, value, closed, notifyVars>>

FailWithoutCleanup(c) ==        \* an early return on a fetch error
    /\ Goto(c, "fetch", "dispatch")
    /\ result' = [result EXCEPT ![c] = Failed("fetch")]
    /\ UNCHANGED <<ring, lock, pending, arg, cancelled, request, value, closed, notifyVars>>

PublishToRingOnly(c) ==         \* the value is not stored in the request
    /\ Goto(c, "publish", "cleanup")
    /\ IF HasRing THEN Add({result[c].key}) ELSE UNCHANGED ring
    /\ UNCHANGED <<lock, pending, arg, cancelled, request, value, closed, result, notifyVars>>

CleanupKeepingEntry(c) ==       \* closed, but still in the map
    /\ Goto(c, "cleanup", "dispatch")
    /\ lock = NoCall
    /\ closed' = closed \cup {c}
    /\ UNCHANGED <<ring, lock, pending, arg, cancelled, request, value, result, notifyVars>>

CleanupWithoutClose(c) ==       \* out of the map, never closed
    /\ Goto(c, "cleanup", "dispatch")
    /\ lock = NoCall
    /\ pending' = [pending EXCEPT ![arg[c]] = NoCall]
    /\ UNCHANGED <<ring, lock, arg, cancelled, request, value, closed, result, notifyVars>>

-----------------------------------------------------------------------------
Invoke(c, id) ==
    /\ Goto(c, "idle", "check")
    /\ arg' = [arg EXCEPT ![c] = id]
    /\ UNCHANGED <<ring, lock, pending, cancelled, request, value, closed, result, notifyVars>>

(* The first look at the ring, before the lock. *)
CheckHit(c) ==
    /\ Return(c, "check", Found(ring[arg[c]]))
    /\ InRing(arg[c])
    /\ UNCHANGED <<ring, lock, pending, arg, cancelled, request, value, closed, notifyVars>>

CheckMiss(c) ==
    /\ Goto(c, "check", "lock")
    /\ ~InRing(arg[c])
    /\ UNCHANGED <<ring, lock, pending, arg, cancelled, request, value, closed, result, notifyVars>>

(* Lock, and the second look.  A hit unlocks; a miss keeps the lock. *)
RecheckHit(c) ==
    /\ Return(c, "lock", Found(ring[arg[c]]))
    /\ lock = NoCall
    /\ InRing(arg[c])
    /\ UNCHANGED <<ring, lock, pending, arg, cancelled, request, value, closed, notifyVars>>

RecheckMiss(c) ==
    /\ Goto(c, "lock", "elect")
    /\ lock = NoCall
    /\ ~InRing(arg[c])
    /\ lock' = c
    /\ UNCHANGED <<ring, pending, arg, cancelled, request, value, closed, result, notifyVars>>

(* requestFor and Unlock: join the request in flight, or create it. *)
Join(c) ==
    /\ Goto(c, "elect", "wait")
    /\ pending[arg[c]] # NoCall
    /\ request' = [request EXCEPT ![c] = pending[arg[c]]]
    /\ lock' = NoCall
    /\ UNCHANGED <<ring, pending, arg, cancelled, value, closed, result, notifyVars>>

Lead(c) ==
    /\ Goto(c, "elect", "fetch")
    /\ pending[arg[c]] = NoCall
    /\ request' = [request EXCEPT ![c] = c]
    /\ pending' = [pending EXCEPT ![arg[c]] = c]
    /\ lock' = NoCall
    /\ UNCHANGED <<ring, arg, cancelled, value, closed, result, notifyVars>>

(* waitForKey: whichever of the two channels is ready, either if both are.  *)
(* A request whose value was never stored gives ErrKeyNotFound.             *)
WaitDone(c) ==
    /\ LET k == value[request[c]]
       IN  Return(c, "wait", IF k = NoKey THEN Failed("ErrKeyNotFound") ELSE Found(k))
    /\ request[c] \in closed
    /\ UNCHANGED <<ring, lock, pending, arg, cancelled, request, value, closed, notifyVars>>

WaitCancelled(c) ==
    /\ Return(c, "wait", Failed("ctx"))
    /\ c \in cancelled
    /\ UNCHANGED <<ring, lock, pending, arg, cancelled, request, value, closed, notifyVars>>

(* fetchKey.  The only key of a response is taken as it is; of several, one *)
(* with the requested ID.                                                   *)
Selected(keys, id) ==
    IF \E k \in keys : keys = {k} THEN keys ELSE {k \in keys : k.kid = id}

FetchFinds(c) ==
    /\ Goto(c, "fetch", "publish")
    /\ \E keys \in Responses[arg[c]] : \E k \in Selected(keys, arg[c]) :
          result' = [result EXCEPT ![c] = Found(k)]
    /\ UNCHANGED <<ring, lock, pending, arg, cancelled, request, value, closed, notifyVars>>

FetchFindsNothing(c) ==
    /\ Goto(c, "fetch", "cleanup")
    /\ \E keys \in Responses[arg[c]] : Selected(keys, arg[c]) = {}
    /\ result' = [result EXCEPT ![c] = Failed("ErrKeyNotFound")]
    /\ UNCHANGED <<ring, lock, pending, arg, cancelled, request, value, closed, notifyVars>>

(* Expand or Fetch returns an error; Fetch may return the context's. *)
FetchFails(c) ==
    /\ Goto(c, "fetch", "cleanup")
    /\ \E e \in {"fetch"} \cup (IF c \in cancelled THEN {"ctx"} ELSE {}) :
          result' = [result EXCEPT ![c] = Failed(e)]
    /\ UNCHANGED <<ring, lock, pending, arg, cancelled, request, value, closed, notifyVars>>

(* Nothing in Resolve is deferred: a panic leaves the request where it is. *)
FetchPanics(c) ==
    /\ PanicsRecovered
    /\ Goto(c, "fetch", "panicked")
    /\ UNCHANGED <<ring, lock, pending, arg, cancelled, request, value, closed, result, notifyVars>>

(* keyRing.Add, then value.Store.  No one loads the value before the channel *)
(* is closed, so the two are one step.                                       *)
Publish(c) ==
    /\ Goto(c, "publish", "cleanup")
    /\ IF HasRing THEN Add({result[c].key}) ELSE UNCHANGED ring
    /\ value' = [value EXCEPT ![c] = result[c].key]
    /\ UNCHANGED <<lock, pending, arg, cancelled, request, closed, result, notifyVars>>

(* Lock, cleanup, Unlock. *)
Cleanup(c) ==
    /\ lock = NoCall
    /\ Goto(c, "cleanup", "dispatch")
    /\ pending' = [pending EXCEPT ![arg[c]] = NoCall]
    /\ closed' = closed \cup {c}
    /\ UNCHANGED <<ring, lock, arg, cancelled, request, value, result, notifyVars>>

(* The ResolveEvent goes to the listeners: visit takes their mutex and keeps *)
(* it while they are called, and Resolve returns after that.  A listener is  *)
(* busy while a call of Resolve it has made itself is not over.              *)
Busy(c) == \E d \in Calls : caller[d] = c /\ pc[d] \notin Over

Dispatch(c) ==
    /\ Goto(c, "dispatch", "notify")
    /\ listenersLock = NoCall
    /\ listenersLock' = c
    /\ UNCHANGED <<ring, lock, pending, arg, cancelled, request, value, closed, result, caller>>

Reenter(c, d, id) ==
    /\ Goto(c, "idle", "check")
    /\ pc[d] = "notify" /\ ~Busy(d)
    /\ arg' = [arg EXCEPT ![c] = id]
    /\ caller' = [caller EXCEPT ![c] = d]
    /\ UNCHANGED <<ring, lock, pending, cancelled, request, value, closed, result,
                   listenersLock>>

Notified(c) ==
    /\ Goto(c, "notify", "done")
    /\ ~Busy(c)
    /\ listenersLock' = NoCall
    /\ UNCHANGED <<ring, lock, pending, arg, cancelled, request, value, closed, result, caller>>

(* visit unlocks in a deferred call, so that its mutex survives a panic.     *)
ListenerPanics(c) ==
    /\ PanicsRecovered
    /\ Goto(c, "notify", "aborted")
    /\ ~Busy(c)
    /\ listenersLock' = NoCall
    /\ UNCHANGED <<ring, lock, pending, arg, cancelled, request, value, closed, result, caller>>

-----------------------------------------------------------------------------
(* The rest of the program: contexts that end, clients of the ring. *)
Cancel(c) ==
    /\ pc[c] \notin Over \cup {"idle"}
    /\ cancelled' = cancelled \cup {c}
    /\ UNCHANGED <<ring, lock, pending, pc, arg, request, value, closed, result, notifyVars>>

ClientAdd(k) ==
    /\ Add({k})
    /\ UNCHANGED <<lock, pending, pc, arg, cancelled, request, value, closed, result, notifyVars>>

ClientRemove(k) ==
    /\ Remove({k.kid})
    /\ UNCHANGED <<lock, pending, pc, arg, cancelled, request, value, closed, result, notifyVars>>

AllReturned ==
    /\ \A c \in Calls : pc[c] \in Over
    /\ UNCHANGED vars

-----------------------------------------------------------------------------
Fetching(c) == FetchFinds(c) \/ FetchFindsNothing(c) \/ FetchFails(c)

(* The steps of a call that need only the Go scheduler and a mutex: neither *)
(* a fetch nor a listener.                                                  *)
Scheduled(c) ==
    \/ CheckHit(c) \/ CheckMiss(c) \/ RecheckHit(c) \/ RecheckMiss(c)
    \/ Join(c) \/ Lead(c) \/ WaitDone(c) \/ WaitCancelled(c)
    \/ Publish(c) \/ Cleanup(c) \/ Dispatch(c)

Next ==
    \/ \E c \in Calls :
          \/ \E id \in KeyIDs : Invoke(c, id)
          \/ \E d \in Calls, id \in KeyIDs : Reenter(c, d, id)
          \/ Scheduled(c) \/ Fetching(c) \/ FetchPanics(c) \/ Cancel(c)
          \/ Notified(c) \/ ListenerPanics(c)
    \/ \E k \in ClientKeys : ClientAdd(k) \/ ClientRemove(k)
    \/ AllReturned

Spec == Init /\ [][Next]_vars

(* Every goroutine that can run does: Go's mutex is fair to its waiters.    *)
ScheduledSpec == Spec /\ \A c \in Calls : WF_vars(Scheduled(c))

-----------------------------------------------------------------------------
(* Every variable holds a value of its Go type. *)
TypeOK ==
    /\ ring \in Rings /\ WellFiled(ring)
    /\ lock \in Calls \cup {NoCall}
    /\ pending \in [KeyIDs -> Calls \cup {NoCall}]
    /\ pc \in [Calls -> Locations]
    /\ arg \in [Calls -> KeyIDs \cup {NoID}]
    /\ \A c \in Calls : arg[c] = NoID <=> pc[c] = "idle"
    /\ cancelled \in SUBSET Calls
    /\ request \in [Calls -> Calls \cup {NoCall}]
    /\ value \in [Calls -> Key \cup {NoKey}]
    /\ closed \in SUBSET Calls
    /\ result \in [Calls -> Result]
    /\ listenersLock \in Calls \cup {NoCall}
    /\ caller \in [Calls -> Calls \cup {NoCall}]
    /\ \A c \in Calls : pc[c] = "publish" => result[c].key \in Key

Leading(c)  == pc[c] \in {"fetch", "publish", "cleanup"}
Led(c)      == request[c] = c
Waited(c)   == request[c] \notin {c, NoCall}
Answered(c) == pc[c] = "done"

(* The point of pendingResolverRequests: at no time do two goroutines fetch *)
(* the same key ID, however their looks at the ring and the lock interleave.*)
SingleFlight ==
    \A c, d \in Calls : Leading(c) /\ Leading(d) /\ arg[c] = arg[d] => c = d

(* No wakeup is lost: the request a goroutine waits on is for the ID it was *)
(* asked for, and is closed, or is still the pending one.  That cleanup will*)
(* close, unless its leader's fetch panicked: then it stays pending.        *)
WaitersCanBeWoken ==
    \A c \in Calls : pc[c] = "wait" =>
        LET d == request[c]
        IN  /\ d \in Calls \ {c}
            /\ arg[d] = arg[c]
            /\ d \in closed \/ pending[arg[c]] = d

(* A waiter whose own context did not end it returns the key the leader     *)
(* returns, and ErrKeyNotFound when the leader returns any error.           *)
WaitersAgree ==
    \A c \in Calls : Answered(c) /\ Waited(c) /\ result[c].err # "ctx" =>
        LET r == result[request[c]]
        IN  result[c] = IF r.err = "nil" THEN r ELSE Failed("ErrKeyNotFound")

(* Who a call cannot go on without: the holder of the mutex it takes, the   *)
(* maker of the request it waits on, the call its listener has made.        *)
WaitsFor(c, d) ==
    \/ pc[c] \in {"lock", "cleanup"} /\ lock = d
    \/ pc[c] = "wait" /\ request[c] = d /\ d \notin closed /\ c \notin cancelled
    \/ pc[c] = "dispatch" /\ listenersLock = d
    \/ pc[c] = "notify" /\ caller[d] = c /\ pc[d] \notin Over

(* A listener's call that has led a fetch, and is to tell the listeners     *)
(* while they are still being told what its caller has found.               *)
SelfBlocked(c) == pc[c] = "dispatch" /\ caller[c] # NoCall /\ listenersLock = caller[c]

(* There is one way for calls to wait in a circle: a listener whose own     *)
(* call of Resolve leads a fetch, which then waits for the mutex that its   *)
(* caller's visit of the listeners holds.  And there is one way for a call  *)
(* to wait for another that is over: the leader's fetch has panicked.       *)
NoCircularWait ==
    /\ \A S \in (SUBSET Calls) \ {{}} :
          (\A c \in S : \E d \in S : WaitsFor(c, d)) =>
              \E c \in S : SelfBlocked(c) /\ caller[c] \in S
    /\ \A c, d \in Calls : WaitsFor(c, d) /\ pc[d] \in Over =>
          pc[c] = "wait" /\ pc[d] = "panicked"

(* A source is faithful when what it gives for an ID, if it is only one key,*)
(* is the key with that ID.                                                 *)
Faithful == \A id \in KeyIDs : \A keys \in Responses[id] :
                \A k \in keys : keys = {k} => k.kid = id

(* Faithful sources never make Resolve return a key under another ID,       *)
(* through the ring, the fetch or another call's request.                   *)
AnswersHaveRequestedID ==
    Faithful =>
        \A c \in Calls : result[c].key # NoKey => result[c].key.kid = arg[c]

(* With a ring no client removes keys from, and faithful sources, a key ID  *)
(* that was fetched is never fetched again: a goroutine that missed in the  *)
(* ring before the leader published finds the leader's request under the    *)
(* lock, and one that takes the lock later finds the key.                   *)
OnlyResolversFill == Faithful /\ HasRing /\ ClientKeys = {}

Fetched(c) == Led(c) /\ result[c].key # NoKey

NoSecondFetch ==
    OnlyResolversFill =>
        \A c, d \in Calls :
            Fetched(c) /\ Leading(d) /\ arg[c] = arg[d] => c = d

(* "This is an existing request that is already in-flight within another    *)
(* goroutine": what requestFor finds pending, a goroutine is working on.    *)
PendingIsInFlight ==
    \A id \in KeyIDs : pending[id] # NoCall => Leading(pending[id])

-----------------------------------------------------------------------------
(* The inductive invariant behind the above, part by part.                  *)

(* A leader that has not cleaned up, for good when the fetch panicked. *)
Unfinished(c) == Leading(c) \/ pc[c] = "panicked"

LockInv == \A c \in Calls : pc[c] = "elect" <=> lock = c

PendingInv ==
    /\ \A id \in KeyIDs : pending[id] # NoCall =>
          arg[pending[id]] = id /\ Unfinished(pending[id])
    /\ \A c \in Calls : Unfinished(c) => pending[arg[c]] = c

RequestInv == \A c \in Calls :
    /\ pc[c] \in {"idle", "check", "lock", "elect"} => request[c] = NoCall
    /\ Unfinished(c) \/ pc[c] \in {"dispatch", "notify", "aborted"} => Led(c)
    /\ pc[c] = "wait" => Waited(c)
    /\ Waited(c) => Led(request[c]) /\ arg[request[c]] = arg[c]
    /\ Waited(c) => request[c] \in closed \/ pending[arg[c]] = request[c]

ClosedInv == \A c \in Calls :
    /\ c \in closed <=> Led(c) /\ pc[c] \in {"dispatch", "notify", "done", "aborted"}
    /\ Answered(c) /\ Waited(c) /\ result[c].err # "ctx" => request[c] \in closed

ValueInv == \A c \in Calls :
    /\ result[c].key # NoKey =>
          pc[c] \in {"publish", "cleanup", "dispatch", "notify", "done", "aborted"}
    /\ value[c] # NoKey => pc[c] \in {"cleanup", "dispatch", "notify", "done", "aborted"}
    /\ pc[c] = "cleanup" \/ c \in closed =>
          /\ value[c] = result[c].key
          /\ result[c].err = "nil" <=> result[c].key # NoKey
          /\ result[c] = IF result[c].err = "nil" THEN Found(value[c])
                                                  ELSE Failed(result[c].err)
    /\ pc[c] = "publish" => result[c] = Found(result[c].key)

(* What a listener that calls Resolve must know: if that call leads a fetch,*)
(* it hangs once it has cleaned up, and so does the call that notifies.     *)
ReentrantLeadersHang ==
    \A c \in Calls : caller[c] # NoCall /\ Led(c) =>
        /\ Unfinished(c) \/ pc[c] = "dispatch"
        /\ pc[c] = "dispatch" => SelfBlocked(c)

(* A visit holds the mutex until every call its listeners make is over.     *)
ListenersInv ==
    /\ \A c \in Calls : pc[c] = "notify" <=> listenersLock = c
    /\ \A c \in Calls : caller[c] # NoCall =>
          /\ pc[c] # "idle" /\ caller[c] # c
          /\ pc[c] \notin Over => listenersLock = caller[c]
    /\ ReentrantLeadersHang

PanicInv == \A c \in Calls : pc[c] \in {"panicked", "aborted"} => PanicsRecovered

IInv ==
    /\ TypeOK /\ LockInv /\ PendingInv /\ RequestInv /\ ClosedInv /\ ValueInv
    /\ ListenersInv /\ PanicInv /\ WaitersAgree

(* What NoSecondFetch needs besides: a key is in the ring from the time its *)
(* leader publishes it, and who holds the lock has not overlooked it.       *)
FetchedInv == OnlyResolversFill =>
    /\ \A c \in Calls : Fetched(c) => pc[c] = "publish" \/ Cached(arg[c])
    /\ \A c \in Calls : pc[c] = "elect" /\ Cached(arg[c]) => pending[arg[c]] # NoCall

-----------------------------------------------------------------------------
(* What all of it is for: the requests are flights that calls for one key   *)
(* ID share, whatever the lock, the ring, the channels and the order in     *)
(* which a leader publishes, cleans up and returns do in between.           *)
Outcomes == [c \in Calls |-> IF c \in closed THEN result[c] ELSE Failed("nil")]
Answers  == [c \in Calls |-> IF Answered(c) THEN result[c] ELSE Failed("nil")]

F == INSTANCE Flights WITH
        wants <- arg, flight <- pending, aboard <- request, landed <- closed,
        outcome <- Outcomes, answer <- Answers

ImplementsFlights == F!Spec

-----------------------------------------------------------------------------
(* Fetch returns, as its contract has it: its context and the timeouts of   *)
(* the HTTP client bound it, whatever the server does.                      *)
FetchesReturn == \A c \in Calls : WF_vars(Fetching(c))

(* A listener returns, if what it calls does. *)
ListenersReturn == \A c \in Calls : WF_vars(Notified(c))

(* If fetches and listeners return, every call does, but when a listener's  *)
(* own call leads a fetch: it never comes to an end, nor does any call that *)
(* has landed its flight and is to notify the listeners.  Those that find   *)
(* the key, or wait for another's fetch, return all the same.               *)
CallsReturn ==
    FetchesReturn /\ ListenersReturn =>
        \A c \in Calls : pc[c] # "idle" ~>
            Answered(c) \/ (c \in closed /\ \E d \in Calls : SelfBlocked(d))

(* With no help from any fetch: a waiter whose context ends returns, even   *)
(* when the listeners are stuck.                                            *)
CancelledWaitersReturn ==
    \A c \in Calls : (pc[c] = "wait" /\ c \in cancelled) ~> Answered(c)

(* No one is kept from the ring and the pending map, because resolveLock is *)
(* never held across a fetch, or while listeners are notified.              *)
LockIsGranted ==
    \A c \in Calls :
        /\ pc[c] = "lock" ~> pc[c] \in {"wait", "fetch"} \/ Answered(c)
        /\ pc[c] = "cleanup" ~> c \in closed
=============================================================================
