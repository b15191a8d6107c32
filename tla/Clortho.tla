------------------------------ MODULE Clortho ------------------------------
(***************************************************************************)
(* A resolver and a refresher that share a key ring, as clorthofx wires    *)
(* them (clorthofx/provide.go): one Fetcher and one ring for both, with    *)
(* the metrics and the ring listening to the refresher, and Start and Stop *)
(* as lifecycle hooks.                                                     *)
(*                                                                         *)
(* The servers behind the resolver's template are those the refresher      *)
(* polls: what a fetch of a single key finds is what some source serves at *)
(* that moment, and it is stored only later.                               *)
(***************************************************************************)
EXTENDS KeyRing, Naturals, FiniteSets

CONSTANTS
    Calls, NoCall, PanicsRecovered,                              \* Resolver
    Sources, Contents, Conditional, Reliable, MaxRuns, MaxChanges  \* Refresher

(* What Resolver and Refresher assume of theirs, and that a source serves   *)
(* only so many keys.                                                       *)
ASSUME CallsAssumption  == NoCall \notin Calls /\ PanicsRecovered \in BOOLEAN
ASSUME BoundsAssumption == MaxRuns \in Nat \ {0} /\ MaxChanges \in Nat
ASSUME KindsAssumption  == Conditional \subseteq Sources /\ Reliable \subseteq Sources
ASSUME ContentsAssumption ==
    /\ Contents \in [Sources -> SUBSET SUBSET Key]
    /\ \A s \in Sources : \A keys \in Contents[s] : IsFiniteSet(keys)

VARIABLES
    lock, pending, callPc, arg, callCancelled, request, value, closed, result,
    listenersLock, caller,
    active, starts, cancelled, pc, prevKeys, prevMeta, event, served, stamp, changes,
    latest, late,
    gauge,    \* the metric for the number of keys of each source
    overlay   \* history: the call that stored an ID's key after the last event about it

resolverVars  == <<lock, pending, callPc, arg, callCancelled, request, value, closed, result,
                   listenersLock, caller>>
refresherVars == <<active, starts, cancelled, pc, prevKeys, prevMeta, event, served, stamp,
                   changes, latest, late>>
vars == <<ring, resolverVars, refresherVars, gauge, overlay>>

(* A template names one key, and a server gives it or nothing. *)
Single == [id \in KeyIDs |-> {{}} \cup {{k} : k \in {l \in Key : l.kid = id}}]

Res == INSTANCE Resolver WITH
          pc <- callPc, cancelled <- callCancelled,
          HasRing <- TRUE, Responses <- Single, ClientKeys <- {}

Ref == INSTANCE Refresher

Init ==
    /\ Res!Init
    /\ Ref!Init
    /\ gauge = [s \in Sources |-> 0]
    /\ overlay = [id \in KeyIDs |-> NoCall]

-----------------------------------------------------------------------------
Served(id) == {k \in UNION {served[s] : s \in Sources} : k.kid = id}

(* The IDs an event is about, to the ring. *)
About(e) == IF Ignored(e) THEN {} ELSE Ids(e.keys) \cup Ids(e.deleted)

(* Single faults: each is an action below with one mistake in it. *)
GaugeOfGoodEvents(t) ==     \* on an error the number of new keys, which is none
    /\ Ref!Dispatch(t)
    /\ gauge' = [gauge EXCEPT ![t[2]] = IF event[t].err THEN 0 ELSE Cardinality(event[t].keys)]
    /\ overlay' = [id \in KeyIDs |-> IF id \in About(event[t]) THEN NoCall ELSE overlay[id]]
    /\ UNCHANGED resolverVars

PublishUnlessCached(c) ==   \* the ring keeps the key it has
    /\ Res!Goto(c, "publish", "cleanup")
    /\ IF Cached(arg[c]) THEN UNCHANGED ring ELSE Add({result[c].key})
    /\ value' = [value EXCEPT ![c] = result[c].key]
    /\ overlay' = [overlay EXCEPT ![result[c].key.kid] = c]
    /\ UNCHANGED <<lock, pending, arg, callCancelled, request, closed, result,
                   listenersLock, caller, refresherVars, gauge>>

-----------------------------------------------------------------------------
(* The resolver's steps.  Only its fetches and its Publish have to do with  *)
(* what is the refresher's too.  Its listeners are its own.                 *)
Call(c) ==
    /\ \/ Res!Cancel(c) \/ Res!Notified(c) \/ Res!ListenerPanics(c)
       \/ \E id \in KeyIDs : Res!Invoke(c, id) \/ \E d \in Calls : Res!Reenter(c, d, id)
    /\ UNCHANGED <<refresherVars, gauge, overlay>>

Fetch(c) ==
    /\ \/ Res!FetchFinds(c) /\ result'[c].key \in Served(arg[c])
       \/ Res!FetchFindsNothing(c) /\ Served(arg[c]) = {}
       \/ Res!FetchFails(c) \/ Res!FetchPanics(c)
    /\ UNCHANGED <<refresherVars, gauge, overlay>>

Publish(c) ==
    /\ Res!Publish(c)
    /\ overlay' = [overlay EXCEPT ![result[c].key.kid] = c]
    /\ UNCHANGED <<refresherVars, gauge>>

Proceed(c) ==
    /\ callPc[c] # "publish"
    /\ Res!Scheduled(c)
    /\ UNCHANGED <<refresherVars, gauge, overlay>>

(* The refresher's steps.  An event goes to the metrics, which set their    *)
(* gauge to the number of its keys, and to the ring.                        *)
Control ==
    /\ Ref!Start \/ Ref!Stop \/ \E s \in Sources : Ref!Change(s)
    /\ UNCHANGED <<resolverVars, gauge, overlay>>

Dispatch(t) ==
    /\ Ref!Dispatch(t)
    /\ gauge' = [gauge EXCEPT ![t[2]] = Cardinality(event[t].keys)]
    /\ overlay' = [id \in KeyIDs |-> IF id \in About(event[t]) THEN NoCall ELSE overlay[id]]
    /\ UNCHANGED resolverVars

Refresh(t) ==
    /\ Ref!Fetch(t) \/ Ref!Wake(t) \/ Ref!Exit(t)
    /\ UNCHANGED <<resolverVars, gauge, overlay>>

AllOver ==
    /\ \A c \in Calls : callPc[c] \in Res!Over
    /\ starts = MaxRuns /\ active = 0
    /\ \A t \in Ref!Tasks : pc[t] = "exited"
    /\ UNCHANGED vars

Next ==
    \/ \E c \in Calls : Call(c) \/ Fetch(c) \/ Publish(c) \/ Proceed(c)
    \/ \E t \in Ref!Tasks : Dispatch(t) \/ Refresh(t)
    \/ Control
    \/ AllOver

Spec == Init /\ [][Next]_vars

(* The Go scheduler lets calls and tasks on, timers fire, the sources the   *)
(* refresher asks answer some day.  A resolver's fetch may hang.            *)
FairSpec ==
    /\ Spec
    /\ \A c \in Calls : WF_vars(Publish(c) \/ Proceed(c))
    /\ \A t \in Ref!Tasks :
          /\ WF_vars(Dispatch(t) \/ Refresh(t))
          /\ SF_vars(Ref!FetchSucceeds(t) /\ UNCHANGED <<resolverVars, gauge, overlay>>)

-----------------------------------------------------------------------------
TypeOK ==
    /\ Res!TypeOK
    /\ Ref!TypeOK
    /\ gauge \in [Sources -> Nat]
    /\ overlay \in [KeyIDs -> Calls \cup {NoCall}]

(* For any number of calls and runs (ClorthoProofs): the ring's other user  *)
(* is no danger to what each promises alone of its own.  Of calls these are *)
(* SingleFlight, WaitersCanBeWoken, NoCircularWait, WaitersAgree,           *)
(* AnswersHaveRequestedID and, without recovered panics, PendingIsInFlight; *)
(* of tasks AtMostOneLateEvent, OneLiveRun, ErrKeysAreLastKnown and         *)
(* DiffsAreExact.  With them goes the invariant each rests on.  What each   *)
(* says of the ring, RingTracksEvents and NoSecondFetch, is not kept: the   *)
(* other writes it too, which RingIsExplained takes into account.           *)
PartsHold ==
    /\ TypeOK
    /\ Res!IInv /\ Ref!RunInv /\ Ref!LateInv /\ Ref!MemoryInv
    /\ Res!SingleFlight /\ Res!WaitersCanBeWoken /\ Res!NoCircularWait
    /\ Res!WaitersAgree /\ Res!AnswersHaveRequestedID
    /\ PanicsRecovered \/ Res!PendingIsInFlight
    /\ Ref!AtMostOneLateEvent /\ Ref!OneLiveRun
    /\ Ref!ErrKeysAreLastKnown /\ Ref!DiffsAreExact

(* The ring holds under an ID the key that a call of Resolve stored since   *)
(* the last event about the ID, or else one of the last good event of some  *)
(* task, or nothing.  In the latest run it has every key of a source's last *)
(* good event, but for IDs that other sources serve too and those with a    *)
(* key from a call, and unless an earlier run's task sent an event late.    *)
RingIsExplained ==
    /\ \A id \in KeyIDs :
          IF overlay[id] # NoCall
          THEN ring[id] = result[overlay[id]].key
          ELSE Cached(id) => \E t \in Ref!Tasks : ring[id] \in latest[t]
    /\ \A t \in Ref!Tasks : Ref!Undisturbed(t) =>
          \A id \in KeyIDs \cap Ids(latest[t]) :
             Ref!Owns(t[2], id) /\ overlay[id] = NoCall => ring[id] \in latest[t]

(* The gauge of a source is the number of keys it was last seen with in a   *)
(* run, errors or not: in the first, until there is another.                *)
GaugeIsLastKnown ==
    \A s \in Sources : \E r \in Ref!Runs :
        /\ r = 1 \/ r <= starts
        /\ gauge[s] = Cardinality(latest[<<r, s>>])

(* Calls share flights as they do alone, though the ring their hits come    *)
(* from is the refresher's too.                                             *)
FlightsShared == Res!ImplementsFlights

(* What RingIsExplained rests on besides: a call whose key lies over what   *)
(* the last event had, has stored it and keeps it for its answer.           *)
Settled    == {"cleanup", "dispatch", "notify", "done", "aborted"}
OverlayInv == \A id \in KeyIDs : overlay[id] # NoCall => callPc[overlay[id]] \in Settled

(* A call of Resolve may put an outdated key over a newer one, a stopped    *)
(* task an outdated set.  While a run is left alone and the sources do not  *)
(* change, both are healed: the ring comes to hold a key that is served for *)
(* each ID that is, and the gauge to be right.                              *)
ServedKeysAreFresh ==
    <>[](active # 0) => <>[]
        /\ \A id \in KeyIDs : Served(id) # {} => ring[id] \in Served(id)
        /\ \A s \in Sources : gauge[s] = Cardinality(served[s])

(* The ring "is refreshed": it would come to hold no other keys either.     *)
RingConverges == <>[](active # 0) => <>[]Ref!InSync
=============================================================================
