-------------------------- MODULE RefresherProofs --------------------------
(***************************************************************************)
(* What is true of Refresher for every set of sources, whatever they serve,*)
(* and any number of runs.                                                 *)
(***************************************************************************)
EXTENDS Refresher, TLAPS

(* What a source serves are keys. *)
LEMMA ContentsAreKeys ==
    ASSUME NEW s \in Sources, NEW keys \in Contents[s]
    PROVE  keys \subseteq Key
BY ContentsAssumption

(* A ring is well filed without some of its keys. *)
LEMMA DropRing ==
    ASSUME NEW r \in Rings, WellFiled(r), NEW ids
    PROVE  Drop(r, ids) \in Rings /\ WellFiled(Drop(r, ids))
BY DEF Drop, Rings, WellFiled

(* A ring is well filed with more keys, whichever of two with one ID is the *)
(* last.                                                                    *)
LEMMA PutRing ==
    ASSUME NEW r \in Rings, WellFiled(r), NEW keys, NEW f \in Put(r, keys)
    PROVE  f \in Rings /\ WellFiled(f)
BY DEF Put, WellFiled

(* Good and bad events are events. *)
LEMMA EventTypes ==
    ASSUME NEW keys \in SUBSET Key, NEW prev \in SUBSET Key
    PROVE  GoodEvents(keys, prev) \subseteq Event /\ BadEvent(prev) \in Event
BY DEF GoodEvents, BadEvent, Event, Missing

(* The kinds of steps there are. *)
LEMMA Steps ==
    ASSUME [Next]_vars
    PROVE  \/ Start \/ Stop
           \/ \E t \in Tasks : Step(t)
           \/ \E s \in Sources : Change(s)
           \/ UNCHANGED vars
BY DEF Next, AllExited

(* Every step keeps the types. *)
LEMMA TypeStep == TypeOK /\ RunInv /\ [Next]_vars => TypeOK'
<1> SUFFICES ASSUME TypeOK, RunInv, [Next]_vars PROVE TypeOK'
  OBVIOUS
<1> USE BoundsAssumption DEF TypeOK, Goto, Tasks, source
<1>1. CASE Start
  BY <1>1 DEF Start, Runs
<1>2. CASE Stop
  BY <1>2 DEF Stop
<1>3. ASSUME NEW t \in Tasks, FetchSucceeds(t) PROVE TypeOK'
  <2>1. served[t[2]] \in Contents[t[2]] /\ served[t[2]] \in SUBSET Key
    BY <1>3
  <2>2. PICK e \in GoodEvents(served[t[2]], prevKeys[t]) : event' = [event EXCEPT ![t] = e]
    BY <1>3 DEF FetchSucceeds
  <2>3. e \in Event /\ e.keys = served[t[2]]
    BY <2>1, <2>2, EventTypes DEF GoodEvents
  <2> QED
    BY <1>3, <2>1, <2>2, <2>3 DEF FetchSucceeds
<1>4. ASSUME NEW t \in Tasks, FetchFails(t) PROVE TypeOK'
  BY <1>4, EventTypes DEF FetchFails, BadEvent
<1>5. ASSUME NEW t \in Tasks, FetchInterrupted(t) \/ Wake(t) \/ Exit(t) PROVE TypeOK'
  BY <1>5 DEF FetchInterrupted, Wake, Exit
<1>6. ASSUME NEW t \in Tasks, Dispatch(t) PROVE TypeOK'
  <2>1. ring' \in Rings /\ WellFiled(ring)'
    BY <1>6, PutRing, DropRing DEF Dispatch, OnRefreshEvent, Merged
  <2>2. /\ latest' \in [Tasks -> SUBSET Key]
        /\ \A u \in Tasks : latest'[u] \in Contents[u[2]] \cup {{}}
    BY <1>6 DEF Dispatch, Event
  <2>3. late' \in [Tasks -> Nat]
    BY <1>6 DEF Dispatch
  <2> QED
    BY <1>6, <2>1, <2>2, <2>3 DEF Dispatch
<1>7. ASSUME NEW s \in Sources, Change(s) PROVE TypeOK'
  BY <1>7, ContentsAreKeys DEF Change
<1>8. CASE UNCHANGED vars
  BY <1>8 DEF vars
<1> QED
  BY <1>1, <1>2, <1>3, <1>4, <1>5, <1>6, <1>7, <1>8, Steps DEF Step, Fetch

(* Every step keeps RunInv: only Start begins a run, after the one before *)
(* was cancelled.                                                         *)
LEMMA RunStep == TypeOK /\ RunInv /\ [Next]_vars => RunInv'
<1> SUFFICES ASSUME TypeOK, RunInv, [Next]_vars PROVE RunInv'
  OBVIOUS
<1>1. CASE Start
  <2>1. starts \in Nat /\ starts' = starts + 1 /\ active' = starts + 1 /\ cancelled = 1 .. starts
    BY <1>1, BoundsAssumption DEF Start, TypeOK, RunInv
  <2>2. cancelled' = (1 .. starts') \ {active'}
    <3>1. (1 .. starts + 1) \ {starts + 1} = 1 .. starts
      BY <2>1
    <3> QED
      BY <1>1, <2>1, <3>1 DEF Start
  <2>3. ASSUME NEW t \in Tasks PROVE pc'[t] = "none" <=> t[1] > starts'
    <3>1. t[1] \in Nat
      BY BoundsAssumption DEF Tasks, Runs
    <3>2. pc'[t] = IF t[1] = starts + 1 THEN "fetch" ELSE pc[t]
      BY <1>1 DEF Start
    <3>3. pc[t] = "none" <=> t[1] > starts
      BY DEF RunInv
    <3> QED
      BY <2>1, <3>1, <3>2, <3>3
  <2> QED
    BY <2>1, <2>2, <2>3 DEF RunInv
<1> USE BoundsAssumption DEF TypeOK, RunInv, Goto, Tasks, Runs, source
<1>2. CASE Stop
  BY <1>2 DEF Stop
<1>3. ASSUME NEW t \in Tasks, Step(t) PROVE RunInv'
  BY <1>3 DEF Step, Fetch, FetchSucceeds, FetchFails, FetchInterrupted, Wake, Exit, Dispatch
<1>4. ASSUME NEW s \in Sources, Change(s) PROVE RunInv'
  BY <1>4 DEF Change
<1>5. CASE UNCHANGED vars
  BY <1>5 DEF vars
<1> QED
  BY <1>1, <1>2, <1>3, <1>4, <1>5, Steps

(* Every step keeps LateInv: a stopped task that has sent its late event *)
(* only exits.                                                           *)
LEMMA LateStep == TypeOK /\ RunInv /\ LateInv /\ [Next]_vars => LateInv'
<1> SUFFICES ASSUME TypeOK, RunInv, LateInv, [Next]_vars PROVE LateInv'
  OBVIOUS
<1> USE BoundsAssumption DEF TypeOK, LateInv, Goto, Stopped, source
<1>1. CASE Start
  BY <1>1 DEF Start, RunInv, Tasks, Runs
<1>2. CASE Stop
  BY <1>2 DEF Stop
<1>3. ASSUME NEW t \in Tasks, FetchSucceeds(t) \/ FetchFails(t) PROVE LateInv'
  BY <1>3 DEF FetchSucceeds, FetchFails
<1>4. ASSUME NEW t \in Tasks, FetchInterrupted(t) \/ Wake(t) \/ Exit(t) PROVE LateInv'
  BY <1>4 DEF FetchInterrupted, Wake, Exit
<1>5. ASSUME NEW t \in Tasks, Dispatch(t) PROVE LateInv'
  BY <1>5 DEF Dispatch
<1>6. ASSUME NEW s \in Sources, Change(s) PROVE LateInv'
  BY <1>6 DEF Change
<1>7. CASE UNCHANGED vars
  BY <1>7 DEF vars
<1> QED
  BY <1>1, <1>2, <1>3, <1>4, <1>5, <1>6, <1>7, Steps DEF Step, Fetch

(* Every step keeps MemoryInv: a task remembers exactly what it last sent *)
(* without an error.                                                      *)
LEMMA MemoryStep == TypeOK /\ RunInv /\ MemoryInv /\ [Next]_vars => MemoryInv'
<1> SUFFICES ASSUME TypeOK, RunInv, MemoryInv, [Next]_vars PROVE MemoryInv'
  OBVIOUS
<1> USE DEF TypeOK, MemoryInv, Goto, source
<1>1. CASE Start
  <2>1. ASSUME NEW t \in Tasks, t[1] = starts + 1 PROVE pc[t] = "none"
    BY <2>1, BoundsAssumption DEF RunInv
  <2>2. ASSUME NEW t \in Tasks PROVE pc'[t] = "dispatch" <=> pc[t] = "dispatch"
    BY <1>1, <2>1, <2>2 DEF Start
  <2> QED
    BY <1>1, <2>1, <2>2 DEF Start
<1>2. CASE Stop
  BY <1>2 DEF Stop
<1>3. ASSUME NEW t \in Tasks, FetchSucceeds(t) PROVE MemoryInv'
  <2>1. latest[t] = prevKeys[t]
    BY <1>3 DEF FetchSucceeds
  <2>2. event'[t] \in GoodEvents(prevKeys'[t], latest'[t]) /\ ~event'[t].err
    BY <1>3, <2>1 DEF FetchSucceeds, GoodEvents
  <2> QED
    BY <1>3, <2>2 DEF FetchSucceeds
<1>4. ASSUME NEW t \in Tasks, FetchFails(t) PROVE MemoryInv'
  <2>1. latest[t] = prevKeys[t]
    BY <1>4 DEF FetchFails
  <2>2. event'[t].err /\ event'[t].keys = latest'[t]
    BY <1>4, <2>1 DEF FetchFails, BadEvent
  <2> QED
    BY <1>4, <2>1, <2>2 DEF FetchFails
<1>5. ASSUME NEW t \in Tasks, FetchInterrupted(t) \/ Wake(t) \/ Exit(t) PROVE MemoryInv'
  BY <1>5 DEF FetchInterrupted, Wake, Exit
<1>6. ASSUME NEW t \in Tasks, Dispatch(t) PROVE MemoryInv'
  <2>1. latest'[t] = prevKeys'[t]
    BY <1>6 DEF Dispatch, GoodEvents
  <2>2. ASSUME NEW u \in Tasks, u # t PROVE latest'[u] = latest[u] /\ pc'[u] = pc[u]
    BY <1>6, <2>2 DEF Dispatch
  <2> QED
    BY <1>6, <2>1, <2>2 DEF Dispatch
<1>7. ASSUME NEW s \in Sources, Change(s) PROVE MemoryInv'
  BY <1>7 DEF Change
<1>8. CASE UNCHANGED vars
  BY <1>8 DEF vars
<1> QED
  BY <1>1, <1>2, <1>3, <1>4, <1>5, <1>6, <1>7, <1>8, Steps DEF Step, Fetch

-----------------------------------------------------------------------------
(* A good event names as new and deleted the IDs that make the difference   *)
(* between its keys and the task's last ones.                               *)
LEMMA GoodEventDiffs ==
    ASSUME TypeOK, MemoryInv, NEW t \in Tasks, pc[t] = "dispatch", ~event[t].err
    PROVE  /\ event[t] \in GoodEvents(prevKeys[t], latest[t])
           /\ Ids(event[t].new) = Ids(event[t].keys) \ Ids(latest[t])
           /\ Ids(event[t].deleted) = Ids(latest[t]) \ Ids(event[t].keys)
<1>1. event[t] \in GoodEvents(prevKeys[t], latest[t])
  BY DEF MemoryInv
<1>2. /\ event[t].keys = prevKeys[t]
      /\ event[t].new \in Missing(prevKeys[t], latest[t])
      /\ event[t].deleted \in Missing(latest[t], prevKeys[t])
  BY <1>1 DEF GoodEvents
<1> QED
  BY <1>1, <1>2 DEF Missing

(* What a good event does to the ring. *)
LEMMA GoodDispatch ==
    ASSUME TypeOK, MemoryInv, NEW t \in Tasks, Dispatch(t), ~event[t].err
    PROVE  /\ latest' = [latest EXCEPT ![t] = event[t].keys]
           /\ \A id \in KeyIDs :
                 IF id \in Ids(event[t].keys)   THEN ring'[id] \in event[t].keys
                 ELSE IF id \in Ids(latest[t])  THEN ring'[id] = NoKey
                                                ELSE ring'[id] = ring[id]
<1> DEFINE e == event[t]
<1>1. pc[t] = "dispatch" /\ OnRefreshEvent(e) /\ latest' = [latest EXCEPT ![t] = e.keys]
  BY DEF Dispatch, Goto
<1>2. e.keys \in SUBSET Key
  BY DEF TypeOK, Event
<1>3. Ids(e.deleted) = Ids(latest[t]) \ Ids(e.keys)
  BY <1>1, GoodEventDiffs
<1>4. ASSUME NEW id \in KeyIDs
      PROVE  ring'[id] \in
               IF id \in Ids(e.deleted) THEN {NoKey}
               ELSE IF id \in Ids(e.keys) THEN {k \in e.keys : k.kid = id}
               ELSE {ring[id]}
  <2>1. CASE Ignored(e)
    BY <1>1, <2>1 DEF OnRefreshEvent, Ignored, Ids
  <2>2. CASE ~Ignored(e)
    BY <1>1, <2>2 DEF OnRefreshEvent, Merged, Put, Drop
  <2> QED
    BY <2>1, <2>2
<1> QED
  BY <1>1, <1>3, <1>4

(* An error changes neither the ring nor what was last known. *)
LEMMA BadDispatch ==
    ASSUME NEW t \in Tasks, Dispatch(t), event[t].err
    PROVE  UNCHANGED <<ring, latest>>
BY DEF Dispatch, OnRefreshEvent, Ignored

(* A key that an event leaves in the ring is still some task's: it would be *)
(* among the deleted if the task no longer had it.                          *)
LEMMA StaleStep ==
    ASSUME TypeOK, MemoryInv, NothingStale, NEW t \in Tasks, Dispatch(t), ~event[t].err
    PROVE  NothingStale'
<1>1. SUFFICES ASSUME NEW id \in KeyIDs, ring'[id] # NoKey
               PROVE  \E u \in Tasks : ring'[id] \in latest'[u]
  BY DEF NothingStale, Cached
<1>2. /\ latest \in [Tasks -> SUBSET Key] /\ latest' = [latest EXCEPT ![t] = event[t].keys]
      /\ ring \in Rings /\ WellFiled(ring)
  BY GoodDispatch DEF TypeOK
<1>3. CASE id \in Ids(event[t].keys)
  BY <1>2, <1>3, GoodDispatch
<1>4. CASE id \notin Ids(event[t].keys)
  <2>1. id \notin Ids(latest[t]) /\ ring'[id] = ring[id]
    BY <1>1, <1>4, GoodDispatch
  <2>2. PICK u \in Tasks : ring[id] \in latest[u]
    BY <1>1, <2>1 DEF NothingStale, Cached
  <2>3. ring[id].kid = id
    BY <1>1, <1>2, <2>1 DEF WellFiled, Cached
  <2>4. u # t
    BY <2>1, <2>2, <2>3 DEF Ids
  <2> QED
    BY <1>2, <2>1, <2>2, <2>4
<1> QED
  BY <1>3, <1>4

(* The source's newest task is undisturbed only if it was before, or has    *)
(* just begun with nothing to lose.                                         *)
LEMMA UndisturbedBefore ==
    ASSUME TypeOK, RunInv, MemoryInv, [Next]_vars, NEW t \in Tasks, Undisturbed(t)'
    PROVE  Undisturbed(t) \/ latest'[t] = {}
<1> USE BoundsAssumption DEF Undisturbed, TypeOK, Tasks, Runs
<1>1. CASE Start
  <2>1. t[1] = starts + 1
    BY <1>1 DEF Start
  <2>2. pc[t] = "none"
    BY <2>1 DEF RunInv
  <2> QED
    BY <1>1, <2>2 DEF Start, MemoryInv
<1>2. CASE UNCHANGED <<starts, latest, late>>
  BY <1>2
<1>3. ASSUME NEW u \in Tasks, Dispatch(u) PROVE Undisturbed(t)
  <2>1. starts' = starts /\ \A v \in Tasks : late'[v] = 0 => late[v] = 0
    BY <1>3 DEF Dispatch
  <2> QED
    BY <2>1
<1> QED
  BY <1>1, <1>2, <1>3, Steps
  DEF Stop, Change, Step, Fetch, FetchSucceeds, FetchFails, FetchInterrupted, Wake, Exit, vars

(* While a task is undisturbed, nobody else sends for its source. *)
LEMMA OthersAreSilent ==
    ASSUME TypeOK, RunInv, NEW t \in Tasks, Undisturbed(t)',
           NEW u \in Tasks, Dispatch(u), u[2] = t[2]
    PROVE  u = t
<1>1. /\ starts' = starts /\ t[1] = starts /\ pc[u] = "dispatch"
      /\ late' = IF Stopped(u) THEN [late EXCEPT ![u] = @ + 1] ELSE late
      /\ \A v \in Tasks : v[2] = t[2] /\ v # t => late'[v] = 0
  BY DEF Undisturbed, Dispatch, Goto
<1>2. /\ t = <<t[1], t[2]>> /\ u = <<u[1], u[2]>>
      /\ t[1] \in Nat \ {0} /\ u[1] \in Nat \ {0}
  BY BoundsAssumption DEF Tasks, Runs
<1>3. u[1] <= starts /\ starts \in Nat
  BY <1>1, <1>2, BoundsAssumption DEF RunInv, TypeOK
<1>4. SUFFICES ASSUME u # t PROVE FALSE
  OBVIOUS
<1>5. u[1] \in (1 .. starts) \ {starts}
  BY <1>1, <1>2, <1>3, <1>4
<1>6. Stopped(u)
  BY <1>3, <1>5 DEF RunInv, Stopped
<1> QED
  BY <1>1, <1>4, <1>6 DEF TypeOK

(* Nobody but that task says what becomes of the IDs only its source has.   *)
LEMMA LostStep ==
    ASSUME TypeOK, RunInv, MemoryInv, NothingLost, [Next]_vars,
           NEW t \in Tasks, Dispatch(t), ~event[t].err
    PROVE  NothingLost'
<1>1. SUFFICES ASSUME NEW u \in Tasks, Undisturbed(u)',
                      NEW id \in KeyIDs \cap Ids(latest'[u]), Owns(u[2], id)
               PROVE  ring'[id] \in latest'[u]
  BY DEF NothingLost, Owns, Tasks, Runs
<1>2. t[2] \in Sources /\ u[2] \in Sources
  BY DEF Tasks
<1>3. /\ latest \in [Tasks -> SUBSET Key] /\ latest' = [latest EXCEPT ![t] = event[t].keys]
      /\ event[t].keys \in Contents[t[2]] \cup {{}}
      /\ latest[t] \in Contents[t[2]] \cup {{}}
  BY GoodDispatch DEF TypeOK
<1>4. CASE u = t
  <2>1. latest'[u] = event[t].keys
    BY <1>3, <1>4
  <2> QED
    BY <1>1, <2>1, GoodDispatch
<1>5. CASE u # t
  <2>1. t[2] # u[2]
    BY <1>1, <1>5, OthersAreSilent
  <2>2. latest'[u] = latest[u]
    BY <1>3, <1>5
  <2>3. id \notin Ids(event[t].keys) /\ id \notin Ids(latest[t])
    BY <1>1, <1>2, <1>3, <2>1 DEF Owns, Ids
  <2>4. ring'[id] = ring[id]
    BY <2>3, GoodDispatch
  <2>5. Undisturbed(u)
    BY <1>1, <2>2, UndisturbedBefore DEF Ids
  <2> QED
    BY <1>1, <2>2, <2>4, <2>5 DEF NothingLost
<1> QED
  BY <1>4, <1>5

(* Every step keeps RingTracksEvents: an event brings the ring from the     *)
(* task's last keys to its own.                                             *)
LEMMA RingStep ==
    TypeOK /\ RunInv /\ MemoryInv /\ RingTracksEvents /\ [Next]_vars => RingTracksEvents'
<1> SUFFICES ASSUME TypeOK, RunInv, MemoryInv, RingTracksEvents, [Next]_vars
             PROVE  RingTracksEvents'
  OBVIOUS
<1>1. NothingStale /\ NothingLost
  BY DEF RingTracksEvents
<1>2. CASE UNCHANGED <<ring, latest>>
  <2>1. NothingStale'
    BY <1>1, <1>2 DEF NothingStale, Cached
  <2>2. NothingLost'
    <3>1. SUFFICES ASSUME NEW t \in Tasks, Undisturbed(t)',
                          NEW id \in KeyIDs \cap Ids(latest[t]), Owns(t[2], id)
                   PROVE  ring[id] \in latest[t]
      BY <1>2 DEF NothingLost, Owns, Tasks, Runs
    <3>2. Undisturbed(t)
      BY <1>2, <3>1, UndisturbedBefore DEF Ids
    <3> QED
      BY <1>1, <3>1, <3>2 DEF NothingLost
  <2> QED
    BY <2>1, <2>2 DEF RingTracksEvents
<1>3. ASSUME NEW t \in Tasks, Dispatch(t) PROVE RingTracksEvents'
  <2>1. CASE event[t].err
    BY <1>2, <1>3, <2>1, BadDispatch
  <2>2. CASE ~event[t].err
    <3>1. NothingStale'
      BY <1>1, <1>3, <2>2, StaleStep
    <3>2. NothingLost'
      BY <1>1, <1>3, <2>2, LostStep
    <3> QED
      BY <3>1, <3>2 DEF RingTracksEvents
  <2> QED
    BY <2>1, <2>2
<1> QED
  BY <1>2, <1>3, Steps
  DEF Start, Stop, Change, Step, Fetch, FetchSucceeds, FetchFails, FetchInterrupted,
      Wake, Exit, vars

-----------------------------------------------------------------------------
(* Before the first Start there is nothing to remember. *)
LEMMA InitInv == Init => IInv
<1> SUFFICES ASSUME Init PROVE IInv
  OBVIOUS
<1>1. served \in [Sources -> SUBSET Key]
  BY ContentsAreKeys DEF Init
<1>2. TypeOK
  BY <1>1, BoundsAssumption
  DEF Init, TypeOK, EmptyRing, Rings, WellFiled, Event, NoEvent, source
<1>3. RunInv /\ LateInv
  BY BoundsAssumption DEF Init, RunInv, LateInv, Tasks, Runs, Stopped
<1>4. MemoryInv
  BY DEF Init, MemoryInv
<1>5. RingTracksEvents
  BY DEF Init, RingTracksEvents, NothingStale, NothingLost, Ids, Cached, EmptyRing
<1> QED
  BY <1>2, <1>3, <1>4, <1>5 DEF IInv

(* The parts of IInv hold initially and every step preserves them: a run's  *)
(* number says whether it is stopped, a task's memory what its listeners    *)
(* have been told, and the ring is one of those listeners.                  *)
THEOREM InductiveInvariant == Spec => []IInv
<1>1. IInv /\ [Next]_vars => IInv'
  BY TypeStep, RunStep, LateStep, MemoryStep, RingStep DEF IInv
<1> QED
  BY <1>1, InitInv, PTL DEF Spec

(* Every variable keeps its type; sources are never credited with keys they *)
(* do not serve.                                                            *)
THEOREM TypeCorrect == Spec => []TypeOK
<1>1. IInv => TypeOK
  BY DEF IInv
<1> QED
  BY <1>1, InductiveInvariant, PTL

(* What tasks promise, whoever else writes the ring. *)
LEMMA TasksPromise ==
    TypeOK /\ RunInv /\ LateInv /\ MemoryInv
        => AtMostOneLateEvent /\ OneLiveRun /\ ErrKeysAreLastKnown /\ DiffsAreExact
<1> SUFFICES ASSUME TypeOK, RunInv, LateInv, MemoryInv
             PROVE  AtMostOneLateEvent /\ OneLiveRun /\ ErrKeysAreLastKnown /\ DiffsAreExact
  OBVIOUS
<1>1. AtMostOneLateEvent
  BY DEF TypeOK, LateInv, AtMostOneLateEvent
<1>2. OneLiveRun
  BY BoundsAssumption DEF TypeOK, RunInv, OneLiveRun, Tasks, Runs, Stopped
<1>3. ErrKeysAreLastKnown
  BY DEF MemoryInv, ErrKeysAreLastKnown
<1>4. ASSUME NEW t \in Tasks, pc[t] = "dispatch", ~event[t].err
      PROVE  LET had == Ids(latest[t])
             IN  /\ Ids(event[t].keys) = (had \ Ids(event[t].deleted)) \cup Ids(event[t].new)
                 /\ Ids(event[t].deleted) \subseteq had
                 /\ Ids(event[t].new) \cap had = {}
  <2>1. /\ Ids(event[t].new) = Ids(event[t].keys) \ Ids(latest[t])
        /\ Ids(event[t].deleted) = Ids(latest[t]) \ Ids(event[t].keys)
    BY <1>4, GoodEventDiffs
  <2> QED
    BY <2>1
<1> QED
  BY <1>1, <1>2, <1>3, <1>4 DEF DiffsAreExact

(* A stopped task sends one event more, at most, however often Start and    *)
(* Stop are called.                                                         *)
THEOREM AtMostOneLateEventHolds == Spec => []AtMostOneLateEvent
<1>1. IInv => AtMostOneLateEvent
  BY TasksPromise DEF IInv
<1> QED
  BY <1>1, InductiveInvariant, PTL

(* Tasks that nobody told to stop belong to the active run. *)
THEOREM OneLiveRunHolds == Spec => []OneLiveRun
<1>1. IInv => OneLiveRun
  BY TasksPromise DEF IInv
<1> QED
  BY <1>1, InductiveInvariant, PTL

(* In every run, error events carry the last known keys. *)
THEOREM ErrKeysAreLastKnownHolds == Spec => []ErrKeysAreLastKnown
<1>1. IInv => ErrKeysAreLastKnown
  BY TasksPromise DEF IInv
<1> QED
  BY <1>1, InductiveInvariant, PTL

(* In every run, the diffs of good events are exact. *)
THEOREM DiffsAreExactHolds == Spec => []DiffsAreExact
<1>1. IInv => DiffsAreExact
  BY TasksPromise DEF IInv
<1> QED
  BY <1>1, InductiveInvariant, PTL

(* The ring is what the events say: in every run it has no key that is not  *)
(* some task's last, and in the latest it lacks none of its owner's as long *)
(* as no task of an earlier run has sent a late event.                      *)
THEOREM RingTracksEventsHolds == Spec => []RingTracksEvents
<1>1. IInv => RingTracksEvents
  BY DEF IInv
<1> QED
  BY <1>1, InductiveInvariant, PTL
=============================================================================
