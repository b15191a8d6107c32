--------------------------- MODULE ClorthoProofs ---------------------------
(***************************************************************************)
(* What is true of a resolver and a refresher that share a ring, for any   *)
(* calls, key IDs and sources.                                             *)
(*                                                                         *)
(* ResP and RefP bring in what ResolverProofs and RefresherProofs prove of *)
(* the two alone, about the same definitions that Clortho knows as Res and *)
(* Ref: the lemmas called Same say so of those that are needed.            *)
(***************************************************************************)
EXTENDS Clortho, FiniteSetTheorems, TLAPS

ResP == INSTANCE ResolverProofs WITH
          pc <- callPc, cancelled <- callCancelled,
          HasRing <- TRUE, Responses <- Single, ClientKeys <- {}

RefP == INSTANCE RefresherProofs

-----------------------------------------------------------------------------
(* Definitions of the one and of the other are the same. *)
LEMMA SameCalls ==
    ASSUME NEW c
    PROVE  /\ Res!Cancel(c) => ResP!Cancel(c)
           /\ \A id : Res!Invoke(c, id) => ResP!Invoke(c, id)
           /\ \A d, id : Res!Reenter(c, d, id) => ResP!Reenter(c, d, id)
           /\ Res!Notified(c) => ResP!Notified(c)
           /\ Res!ListenerPanics(c) => ResP!ListenerPanics(c)
           /\ Res!Scheduled(c) => ResP!Scheduled(c)
           /\ Res!Publish(c) => ResP!Publish(c)
           /\ Res!FetchFinds(c) => ResP!FetchFinds(c)
           /\ Res!FetchFindsNothing(c) => ResP!FetchFindsNothing(c)
           /\ Res!FetchFails(c) => ResP!FetchFails(c)
           /\ Res!FetchPanics(c) => ResP!FetchPanics(c)
BY DEF Res!Invoke, ResP!Invoke, Res!Cancel, ResP!Cancel, Res!Scheduled,
    ResP!Scheduled, Res!CheckHit, ResP!CheckHit, Res!CheckMiss,
    ResP!CheckMiss, Res!RecheckHit, ResP!RecheckHit, Res!RecheckMiss,
    ResP!RecheckMiss, Res!Join, ResP!Join, Res!Lead, ResP!Lead,
    Res!WaitDone, ResP!WaitDone, Res!WaitCancelled, ResP!WaitCancelled,
    Res!Publish, ResP!Publish, Res!Cleanup, ResP!Cleanup, Res!Dispatch,
    ResP!Dispatch, Res!FetchFinds, ResP!FetchFinds, Res!FetchFindsNothing,
    ResP!FetchFindsNothing, Res!FetchFails, ResP!FetchFails,
    Res!FetchPanics, ResP!FetchPanics, Res!Goto, ResP!Goto, Res!Return,
    ResP!Return, Res!InRing, ResP!InRing, Res!Cached, ResP!Cached,
    Res!Found, ResP!Found, Res!Failed, ResP!Failed, Res!Selected,
    ResP!Selected, Res!Add, ResP!Add, Res!Put, ResP!Put, Res!Ids, ResP!Ids,
    Res!Key, ResP!Key, Res!Rings, ResP!Rings, Res!Reenter, ResP!Reenter,
    Res!Notified, ResP!Notified, Res!ListenerPanics, ResP!ListenerPanics,
    Res!Busy, ResP!Busy, Res!Over, ResP!Over, Res!notifyVars, ResP!notifyVars

(* A step of a task or of its controls is one that RefresherProofs knows. *)
LEMMA SameTasks ==
    /\ Ref!Start => RefP!Start
    /\ Ref!Stop => RefP!Stop
    /\ \A s : Ref!Change(s) => RefP!Change(s)
    /\ \A t : /\ Ref!Fetch(t) => RefP!Fetch(t)
              /\ Ref!Dispatch(t) => RefP!Dispatch(t)
              /\ Ref!Wake(t) => RefP!Wake(t)
              /\ Ref!Exit(t) => RefP!Exit(t)
BY DEF Ref!Start, RefP!Start, Ref!Stop, RefP!Stop, Ref!Change, RefP!Change,
    Ref!FetchSucceeds, RefP!FetchSucceeds, Ref!FetchFails, RefP!FetchFails,
    Ref!FetchInterrupted, RefP!FetchInterrupted, Ref!Fetch, RefP!Fetch,
    Ref!Dispatch, RefP!Dispatch, Ref!Wake, RefP!Wake, Ref!Exit, RefP!Exit,
    Ref!Goto, RefP!Goto, Ref!Missing, RefP!Missing, Ref!GoodEvents,
    RefP!GoodEvents, Ref!BadEvent, RefP!BadEvent, Ref!NotModified,
    RefP!NotModified, Ref!OnRefreshEvent, RefP!OnRefreshEvent, Ref!Ignored,
    RefP!Ignored, Ref!Merged, RefP!Merged, Ref!Put, RefP!Put, Ref!Drop,
    RefP!Drop, Ref!Ids, RefP!Ids, Ref!Key, RefP!Key, Ref!Rings, RefP!Rings,
    Ref!Stopped, RefP!Stopped, Ref!source, RefP!source, Ref!Tasks,
    RefP!Tasks, Ref!Runs, RefP!Runs

(* What is invariant of calls is what ResolverProofs proves. *)
LEMMA SameCallInvariants ==
    /\ Res!IInv <=> ResP!IInv
    /\ Res!IInv' <=> ResP!IInv'
    /\ Res!AnswersHaveRequestedID <=> ResP!AnswersHaveRequestedID
    /\ Res!AnswersHaveRequestedID' <=> ResP!AnswersHaveRequestedID'
BY DEF Res!IInv, ResP!IInv, Res!TypeOK, ResP!TypeOK, Res!LockInv,
    ResP!LockInv, Res!PendingInv, ResP!PendingInv, Res!RequestInv,
    ResP!RequestInv, Res!ClosedInv, ResP!ClosedInv, Res!ValueInv,
    ResP!ValueInv, Res!WaitersAgree, ResP!WaitersAgree, Res!Locations,
    ResP!Locations, Res!Errors, ResP!Errors, Res!Result, ResP!Result,
    Res!Found, ResP!Found, Res!Failed, ResP!Failed, Res!Leading,
    ResP!Leading, Res!Led, ResP!Led, Res!Waited, ResP!Waited, Res!Answered,
    ResP!Answered, Res!Unfinished, ResP!Unfinished, Res!Key, ResP!Key,
    Res!Rings, ResP!Rings, Res!WellFiled, ResP!WellFiled, Res!Ids,
    ResP!Ids, Res!Cached, ResP!Cached, Res!AnswersHaveRequestedID,
    ResP!AnswersHaveRequestedID, Res!Faithful, ResP!Faithful,
    Res!ListenersInv, ResP!ListenersInv, Res!ReentrantLeadersHang,
    ResP!ReentrantLeadersHang, Res!SelfBlocked, ResP!SelfBlocked,
    Res!PanicInv, ResP!PanicInv, Res!Over, ResP!Over

(* What is invariant of tasks is what RefresherProofs proves. *)
LEMMA SameTaskInvariants ==
    /\ Ref!TypeOK <=> RefP!TypeOK
    /\ Ref!TypeOK' <=> RefP!TypeOK'
    /\ Ref!RunInv <=> RefP!RunInv
    /\ Ref!RunInv' <=> RefP!RunInv'
    /\ Ref!LateInv <=> RefP!LateInv
    /\ Ref!LateInv' <=> RefP!LateInv'
    /\ Ref!MemoryInv <=> RefP!MemoryInv
    /\ Ref!MemoryInv' <=> RefP!MemoryInv'
BY DEF Ref!TypeOK, RefP!TypeOK, Ref!RunInv, RefP!RunInv, Ref!LateInv,
    RefP!LateInv, Ref!MemoryInv, RefP!MemoryInv, Ref!Key, RefP!Key, Ref!Rings, RefP!Rings, Ref!WellFiled,
    RefP!WellFiled, Ref!Ids, RefP!Ids, Ref!Event, RefP!Event, Ref!Tasks,
    RefP!Tasks, Ref!Runs, RefP!Runs, Ref!Stopped, RefP!Stopped,
    Ref!GoodEvents, RefP!GoodEvents, Ref!Missing, RefP!Missing

-----------------------------------------------------------------------------
(* What the instances assume of their constants. *)
LEMMA SingleResponses ==
    /\ Single \in [KeyIDs -> SUBSET SUBSET ResP!Key]
    /\ {} \in SUBSET {k \in ResP!Key : k.kid \in KeyIDs}
    /\ TRUE \in BOOLEAN
BY DEF Single, Key, ResP!Key

(* The same for the sources of tasks. *)
LEMMA RefreshedSources == Contents \in [Sources -> SUBSET SUBSET RefP!Key]
BY ContentsAssumption DEF Key, RefP!Key

(* Calls keep their invariants when only they take steps. *)
LEMMA CallsKeep ==
    /\ ResP!Init => ResP!IInv
    /\ ResP!IInv /\ [ResP!Next]_(ResP!vars) => ResP!IInv'
    /\ ResP!IInv /\ ResP!AnswersHaveRequestedID /\ [ResP!Next]_(ResP!vars)
          => ResP!AnswersHaveRequestedID'
BY ResP!InitInv, ResP!InvStep, ResP!AnswersStep, SingleResponses, CallsAssumption,
   NoIDAssumption, NoKeyAssumption

(* So do tasks. *)
LEMMA TasksKeep ==
    /\ RefP!Init => RefP!TypeOK /\ RefP!RunInv /\ RefP!LateInv /\ RefP!MemoryInv
    /\ RefP!TypeOK /\ RefP!RunInv /\ RefP!LateInv /\ RefP!MemoryInv /\ [RefP!Next]_(RefP!vars)
          => RefP!TypeOK' /\ RefP!RunInv' /\ RefP!LateInv' /\ RefP!MemoryInv'
BY RefreshedSources, RefP!InitInv, RefP!TypeStep, RefP!RunStep, RefP!LateStep,
   RefP!MemoryStep, BoundsAssumption, KindsAssumption, NoIDAssumption, NoKeyAssumption
DEF RefP!IInv

(* A step of either part is one of the part's own, and leaves the other's   *)
(* variables as they are.                                                   *)
LEMMA CallSteps ==
    ASSUME NEW c \in Calls, Call(c) \/ Fetch(c) \/ Publish(c) \/ Proceed(c)
    PROVE  ResP!Next /\ UNCHANGED refresherVars
<1>1. UNCHANGED refresherVars
  BY DEF Call, Fetch, Publish, Proceed
<1>2. \/ ResP!Cancel(c) \/ \E id \in KeyIDs : ResP!Invoke(c, id)
      \/ \E d \in Calls, id \in KeyIDs : ResP!Reenter(c, d, id)
      \/ ResP!Notified(c) \/ ResP!ListenerPanics(c)
      \/ ResP!Fetching(c) \/ ResP!FetchPanics(c) \/ ResP!Publish(c) \/ ResP!Scheduled(c)
  BY SameCalls DEF Call, Fetch, Publish, Proceed, ResP!Fetching
<1>3. ResP!Publish(c) => ResP!Scheduled(c)
  BY DEF ResP!Scheduled
<1> QED
  BY <1>1, <1>2, <1>3 DEF ResP!Next

(* A task's step is one of Refresher and leaves calls alone, but for the *)
(* ring.                                                                 *)
LEMMA TaskSteps ==
    ASSUME Control \/ \E t \in Ref!Tasks : Dispatch(t) \/ Refresh(t)
    PROVE  RefP!Next /\ UNCHANGED resolverVars
BY SameTasks DEF Control, Dispatch, Refresh, RefP!Next, RefP!Step, Ref!Tasks, RefP!Tasks,
                 Ref!Runs, RefP!Runs

(* The kinds of steps there are. *)
LEMMA Steps ==
    ASSUME [Next]_vars
    PROVE  \/ \E c \in Calls : Call(c) \/ Fetch(c) \/ Publish(c) \/ Proceed(c)
           \/ Control \/ \E t \in Ref!Tasks : Dispatch(t) \/ Refresh(t)
           \/ UNCHANGED vars
BY DEF Next, AllOver

(* An event has a finite number of keys. *)
LEMMA EventKeys ==
    ASSUME Ref!TypeOK, NEW t \in Ref!Tasks
    PROVE  /\ t[2] \in Sources
           /\ Cardinality(event[t].keys) \in Nat
<1>1. event[t].keys \in Contents[t[2]] \cup {{}} /\ t[2] \in Sources
  BY DEF Ref!TypeOK, Ref!Tasks
<1> QED
  BY <1>1, ContentsAssumption, FS_CardinalityType, FS_EmptySet

-----------------------------------------------------------------------------
(* The ring aside, what a call keeps is not in a task's reach.              *)
LEMMA TaskStepsKeepCalls ==
    ASSUME Res!IInv, Res!AnswersHaveRequestedID, UNCHANGED resolverVars,
           ring' \in Rings, WellFiled(ring')
    PROVE  Res!IInv' /\ Res!AnswersHaveRequestedID'
<1>1. Res!TypeOK'
  BY DEF Res!IInv, Res!TypeOK, resolverVars, Rings, WellFiled, Res!Rings, Res!WellFiled, Key, Res!Key
<1>2. UNCHANGED <<lock, pending, callPc, arg, callCancelled, request, value, closed, result,
                  listenersLock, caller>>
  BY DEF resolverVars
<1>3. Res!LockInv' /\ Res!PendingInv' /\ Res!RequestInv'
  BY <1>2
  DEF Res!IInv, Res!LockInv, Res!PendingInv, Res!RequestInv, Res!Unfinished, Res!Leading,
      Res!Led, Res!Waited
<1>4. Res!ClosedInv' /\ Res!ValueInv' /\ Res!WaitersAgree' /\ Res!AnswersHaveRequestedID'
  BY <1>2
  DEF Res!IInv, Res!ClosedInv, Res!ValueInv, Res!WaitersAgree, Res!AnswersHaveRequestedID,
      Res!Led, Res!Waited, Res!Answered, Res!Faithful
<1>5. Res!ListenersInv' /\ Res!PanicInv'
  BY <1>2
  DEF Res!IInv, Res!ListenersInv, Res!ReentrantLeadersHang, Res!SelfBlocked, Res!PanicInv,
      Res!Unfinished, Res!Leading, Res!Led
<1> QED
  BY <1>1, <1>3, <1>4, <1>5 DEF Res!IInv

(* A step of a call changes nothing that tasks rely on: any ring that is *)
(* well filed will do.                                                   *)
LEMMA CallStepsKeepTasks ==
    ASSUME Ref!TypeOK, Ref!RunInv, Ref!LateInv, Ref!MemoryInv, UNCHANGED refresherVars,
           ring' \in Rings, WellFiled(ring')
    PROVE  Ref!TypeOK' /\ Ref!RunInv' /\ Ref!LateInv' /\ Ref!MemoryInv'
<1>1. UNCHANGED <<active, starts, cancelled, pc, prevKeys, prevMeta, event, served, stamp,
                  changes, latest, late>>
  BY DEF refresherVars
<1>2. Ref!TypeOK'
  BY <1>1 DEF Ref!TypeOK, Rings, WellFiled, Ref!Rings, Ref!WellFiled, Key, Ref!Key
<1>3. Ref!RunInv' /\ Ref!LateInv' /\ Ref!MemoryInv'
  BY <1>1 DEF Ref!RunInv, Ref!LateInv, Ref!MemoryInv, Ref!Stopped
<1> QED
  BY <1>2, <1>3

(* What both keep to themselves gives what they promise: ResolverProofs and *)
(* RefresherProofs say so of the same definitions.                          *)
LEMMA InvariantsSuffice ==
    Res!IInv /\ Ref!TypeOK /\ Ref!RunInv /\ Ref!LateInv /\ Ref!MemoryInv
        => /\ Res!TypeOK /\ Res!SingleFlight /\ Res!WaitersCanBeWoken /\ Res!NoCircularWait
           /\ Res!WaitersAgree /\ (PanicsRecovered \/ Res!PendingIsInFlight)
           /\ Ref!AtMostOneLateEvent /\ Ref!OneLiveRun
           /\ Ref!ErrKeysAreLastKnown /\ Ref!DiffsAreExact
<1> SUFFICES ASSUME Res!IInv, Ref!TypeOK, Ref!RunInv, Ref!LateInv, Ref!MemoryInv
             PROVE  /\ Res!TypeOK /\ Res!SingleFlight /\ Res!WaitersCanBeWoken
                    /\ Res!NoCircularWait /\ Res!WaitersAgree
                    /\ PanicsRecovered \/ Res!PendingIsInFlight
                    /\ Ref!AtMostOneLateEvent /\ Ref!OneLiveRun
                    /\ Ref!ErrKeysAreLastKnown /\ Ref!DiffsAreExact
  OBVIOUS
<1>1. /\ ResP!SingleFlight /\ ResP!WaitersCanBeWoken /\ ResP!NoCircularWait
      /\ PanicsRecovered \/ ResP!PendingIsInFlight
  BY SameCallInvariants, ResP!CallsPromise, ResP!PendingFlies, SingleResponses, CallsAssumption, NoIDAssumption,
     NoKeyAssumption
<1>2. /\ Res!SingleFlight /\ Res!WaitersCanBeWoken
      /\ PanicsRecovered \/ Res!PendingIsInFlight
  BY <1>1
  DEF Res!PendingIsInFlight, ResP!PendingIsInFlight, Res!SingleFlight, ResP!SingleFlight, Res!Leading, ResP!Leading,
      Res!WaitersCanBeWoken, ResP!WaitersCanBeWoken
<1>3. Res!NoCircularWait
  BY <1>1
  DEF Res!NoCircularWait, ResP!NoCircularWait, Res!WaitsFor, ResP!WaitsFor,
      Res!SelfBlocked, ResP!SelfBlocked, Res!Over, ResP!Over
<1>4. /\ RefP!AtMostOneLateEvent /\ RefP!OneLiveRun
      /\ RefP!ErrKeysAreLastKnown /\ RefP!DiffsAreExact
  BY SameTaskInvariants, RefP!TasksPromise, RefreshedSources, BoundsAssumption,
     KindsAssumption, NoIDAssumption, NoKeyAssumption
<1>5. /\ Ref!AtMostOneLateEvent /\ Ref!OneLiveRun
      /\ Ref!ErrKeysAreLastKnown /\ Ref!DiffsAreExact
  BY <1>4
  DEF Ref!AtMostOneLateEvent, RefP!AtMostOneLateEvent, Ref!OneLiveRun, RefP!OneLiveRun,
      Ref!ErrKeysAreLastKnown, RefP!ErrKeysAreLastKnown, Ref!DiffsAreExact,
      RefP!DiffsAreExact, Ref!Stopped, RefP!Stopped, Ref!Ids, RefP!Ids, Ref!Tasks,
      RefP!Tasks, Ref!Runs, RefP!Runs
<1> QED
  BY <1>2, <1>3, <1>5 DEF Res!IInv

(* What is left of PartsHold when its consequences are left out. *)
Kept ==
    /\ Res!IInv /\ Res!AnswersHaveRequestedID
    /\ Ref!TypeOK /\ Ref!RunInv /\ Ref!LateInv /\ Ref!MemoryInv
    /\ gauge \in [Sources -> Nat] /\ overlay \in [KeyIDs -> Calls \cup {NoCall}]

(* It is enough to keep that. *)
LEMMA KeptSuffices == PartsHold <=> Kept
BY InvariantsSuffice DEF PartsHold, TypeOK, Kept

(* Whoever takes a step, both parts keep what they promise alone. *)
LEMMA PartsStep == PartsHold /\ [Next]_vars => PartsHold'
<1> SUFFICES ASSUME Kept, [Next]_vars PROVE Kept'
  BY KeptSuffices, PTL
<1>1. /\ Res!IInv /\ Res!AnswersHaveRequestedID
      /\ Ref!TypeOK /\ Ref!RunInv /\ Ref!LateInv /\ Ref!MemoryInv
      /\ gauge \in [Sources -> Nat] /\ overlay \in [KeyIDs -> Calls \cup {NoCall}]
  BY DEF Kept
<1> SUFFICES /\ Res!IInv' /\ Res!AnswersHaveRequestedID'
             /\ Ref!TypeOK' /\ Ref!RunInv' /\ Ref!LateInv' /\ Ref!MemoryInv'
             /\ gauge' \in [Sources -> Nat] /\ overlay' \in [KeyIDs -> Calls \cup {NoCall}]
  BY DEF Kept
<1>2. ASSUME NEW c \in Calls, Call(c) \/ Fetch(c) \/ Publish(c) \/ Proceed(c)
      PROVE  /\ Res!IInv' /\ Res!AnswersHaveRequestedID'
             /\ Ref!TypeOK' /\ Ref!RunInv' /\ Ref!LateInv' /\ Ref!MemoryInv'
             /\ gauge' \in [Sources -> Nat] /\ overlay' \in [KeyIDs -> Calls \cup {NoCall}]
  <2>1. ResP!Next /\ UNCHANGED refresherVars
    BY <1>2, CallSteps
  <2>2. Res!IInv' /\ Res!AnswersHaveRequestedID'
    BY <1>1, <2>1, SameCallInvariants, CallsKeep
  <2>3. ring' \in Rings /\ WellFiled(ring')
    BY <2>2 DEF Res!IInv, Res!TypeOK, Rings, WellFiled, Res!Rings, Res!WellFiled, Key, Res!Key
  <2>4. Ref!TypeOK' /\ Ref!RunInv' /\ Ref!LateInv' /\ Ref!MemoryInv'
    BY <1>1, <2>1, <2>3, CallStepsKeepTasks
  <2>5. gauge' = gauge /\ (overlay' = overlay \/ \E id : overlay' = [overlay EXCEPT ![id] = c])
    BY <1>2 DEF Call, Fetch, Publish, Proceed
  <2> QED
    BY <1>1, <2>2, <2>4, <2>5
<1>3. ASSUME Control \/ \E t \in Ref!Tasks : Dispatch(t) \/ Refresh(t)
      PROVE  /\ Res!IInv' /\ Res!AnswersHaveRequestedID'
             /\ Ref!TypeOK' /\ Ref!RunInv' /\ Ref!LateInv' /\ Ref!MemoryInv'
             /\ gauge' \in [Sources -> Nat] /\ overlay' \in [KeyIDs -> Calls \cup {NoCall}]
  <2>1. RefP!Next /\ UNCHANGED resolverVars
    BY <1>3, TaskSteps
  <2>2. Ref!TypeOK' /\ Ref!RunInv' /\ Ref!LateInv' /\ Ref!MemoryInv'
    BY <1>1, <2>1, SameTaskInvariants, TasksKeep
  <2>3. ring' \in Rings /\ WellFiled(ring')
    BY <2>2 DEF Ref!TypeOK, Rings, WellFiled, Ref!Rings, Ref!WellFiled, Key, Ref!Key
  <2>4. Res!IInv' /\ Res!AnswersHaveRequestedID'
    BY <1>1, <2>1, <2>3, TaskStepsKeepCalls
  <2>5. \/ UNCHANGED <<gauge, overlay>>
        \/ \E t \in Ref!Tasks : Dispatch(t)
    BY <1>3 DEF Control, Refresh
  <2>6. ASSUME NEW t \in Ref!Tasks, Dispatch(t)
        PROVE  gauge' \in [Sources -> Nat] /\ overlay' \in [KeyIDs -> Calls \cup {NoCall}]
    BY <1>1, <2>6, EventKeys DEF Dispatch
  <2> QED
    BY <1>1, <2>2, <2>4, <2>5, <2>6
<1>4. CASE UNCHANGED vars
  <2>1. UNCHANGED <<ring, resolverVars, refresherVars, gauge, overlay>>
    BY <1>4 DEF vars
  <2>2. ring' \in Rings /\ WellFiled(ring')
    BY <1>1, <2>1 DEF Ref!TypeOK, Rings, WellFiled, Ref!Rings, Ref!WellFiled, Key, Ref!Key
  <2> QED
    BY <1>1, <2>1, <2>2, TaskStepsKeepCalls, CallStepsKeepTasks
<1> QED
  BY <1>2, <1>3, <1>4, Steps

-----------------------------------------------------------------------------
(* A call that has stored its key has its answer. *)
LEMMA SettledStays ==
    ASSUME Res!TypeOK, NEW c \in Calls, Call(c) \/ Fetch(c) \/ Publish(c) \/ Proceed(c),
           NEW d \in Calls, callPc[d] \in Settled
    PROVE  callPc'[d] \in Settled /\ result'[d] = result[d]
<1> USE DEF Res!TypeOK, Settled, Res!Goto, Res!Return
<1>1. CASE Call(c)
  BY <1>1 DEF Call, Res!Cancel, Res!Invoke, Res!Reenter, Res!Notified, Res!ListenerPanics
<1>2. CASE Fetch(c)
  BY <1>2 DEF Fetch, Res!FetchFinds, Res!FetchFindsNothing, Res!FetchFails, Res!FetchPanics
<1>3. CASE Publish(c)
  BY <1>3 DEF Publish, Res!Publish
<1>4. CASE Proceed(c)
  BY <1>4
  DEF Proceed, Res!Scheduled, Res!CheckHit, Res!CheckMiss, Res!RecheckHit, Res!RecheckMiss,
      Res!Join, Res!Lead, Res!WaitDone, Res!WaitCancelled, Res!Publish, Res!Cleanup,
      Res!Dispatch
<1> QED
  BY <1>1, <1>2, <1>3, <1>4

(* Only Publish changes the ring, in one place. *)
LEMMA OtherCallSteps ==
    ASSUME NEW c \in Calls, Call(c) \/ Fetch(c) \/ Proceed(c)
    PROVE  UNCHANGED <<ring, overlay>>
BY DEF Call, Fetch, Proceed, Res!Cancel, Res!Invoke, Res!Reenter, Res!Notified,
       Res!ListenerPanics, Res!FetchFinds, Res!FetchFindsNothing,
       Res!FetchFails, Res!FetchPanics, Res!Scheduled, Res!CheckHit, Res!CheckMiss,
       Res!RecheckHit, Res!RecheckMiss, Res!Join, Res!Lead, Res!WaitDone,
       Res!WaitCancelled, Res!Publish, Res!Cleanup, Res!Dispatch, Res!Goto

(* A call that publishes puts its key over whatever the ring had of that *)
(* ID.                                                                   *)
LEMMA PublishStores ==
    ASSUME PartsHold, NEW c \in Calls, Publish(c)
    PROVE  /\ result[c].key.kid \in KeyIDs
           /\ overlay' = [overlay EXCEPT ![result[c].key.kid] = c]
           /\ \A id \in KeyIDs :
                 ring'[id] = IF id = result[c].key.kid THEN result[c].key ELSE ring[id]
           /\ callPc'[c] \in Settled /\ result' = result /\ UNCHANGED refresherVars
<1>1. Res!TypeOK /\ Res!AnswersHaveRequestedID
  BY DEF PartsHold, TypeOK
<1>2. callPc[c] = "publish" /\ arg[c] \in KeyIDs /\ result[c].key \in Key
  BY <1>1 DEF Publish, Res!Publish, Res!Goto, Res!TypeOK, Res!Key, Key
<1>3. Res!Faithful
  BY DEF Res!Faithful, Single
<1>4. result[c].key.kid = arg[c]
  BY <1>1, <1>2, <1>3, NoKeyAssumption DEF Res!AnswersHaveRequestedID, Key
<1>5. \A id \in KeyIDs :
         ring'[id] = IF id = result[c].key.kid THEN result[c].key ELSE ring[id]
  BY DEF Publish, Res!Publish, Res!Add, Res!Put, Res!Ids
<1> QED
  BY <1>1, <1>2, <1>4, <1>5 DEF Publish, Res!Publish, Res!Goto, Res!TypeOK, Settled

(* A call whose key lies over an event's stays past its publication. *)
LEMMA OverlayStep == PartsHold /\ OverlayInv /\ [Next]_vars => OverlayInv'
<1> SUFFICES ASSUME PartsHold, OverlayInv, [Next]_vars, NEW id \in KeyIDs, overlay'[id] # NoCall
             PROVE  callPc'[overlay'[id]] \in Settled
  BY DEF OverlayInv
<1>1. Res!TypeOK /\ overlay \in [KeyIDs -> Calls \cup {NoCall}]
  BY DEF PartsHold, TypeOK
<1>2. ASSUME NEW c \in Calls, Call(c) \/ Fetch(c) \/ Publish(c) \/ Proceed(c)
      PROVE  callPc'[overlay'[id]] \in Settled
  <2>1. CASE Publish(c) /\ overlay'[id] = c
    BY <2>1, PublishStores
  <2>2. CASE overlay'[id] = overlay[id]
    BY <1>1, <1>2, <2>2, SettledStays DEF OverlayInv
  <2> QED
    BY <1>1, <1>2, <2>1, <2>2, PublishStores, OtherCallSteps
<1>3. ASSUME Control \/ \E t \in Ref!Tasks : Dispatch(t) \/ Refresh(t)
      PROVE  callPc'[overlay'[id]] \in Settled
  <2>1. callPc' = callPc
    BY <1>3 DEF Control, Dispatch, Refresh, resolverVars
  <2>2. overlay'[id] = overlay[id]
    BY <1>3 DEF Control, Dispatch, Refresh
  <2> QED
    BY <2>1, <2>2 DEF OverlayInv
<1>4. CASE UNCHANGED vars
  BY <1>4 DEF vars, resolverVars, OverlayInv
<1> QED
  BY <1>2, <1>3, <1>4, Steps

-----------------------------------------------------------------------------
(* What an event is about changes in the ring to what the event says, the   *)
(* rest of the ring stays, and an event is about all that has come or gone  *)
(* since the task's last good one.                                          *)
LEMMA DispatchTells ==
    ASSUME PartsHold, NEW t \in Ref!Tasks, Dispatch(t)
    PROVE  /\ t[2] \in Sources
           /\ latest' = [latest EXCEPT ![t] = event[t].keys]
           /\ \A id \in KeyIDs :
                 /\ id \in About(event[t]) =>
                       /\ overlay'[id] = NoCall
                       /\ \/ id \in Ids(event[t].keys) /\ ring'[id] \in event[t].keys
                          \/ id \notin Ids(event[t].keys) /\ ring'[id] = NoKey
                 /\ id \notin About(event[t]) =>
                       /\ overlay'[id] = overlay[id] /\ ring'[id] = ring[id]
                       /\ \/ event[t].keys = latest[t]
                          \/ id \notin Ids(event[t].keys) /\ id \notin Ids(latest[t])
                 /\ id \in About(event[t]) =>
                       id \in Ids(event[t].keys) \/ id \in Ids(latest[t])
<1> DEFINE e == event[t]
<1>1. /\ t[2] \in Sources /\ pc[t] = "dispatch" /\ OnRefreshEvent(e)
      /\ latest \in [Ref!Tasks -> SUBSET Key]
      /\ latest' = IF e.err THEN latest ELSE [latest EXCEPT ![t] = e.keys]
      /\ overlay' = [id \in KeyIDs |-> IF id \in About(e) THEN NoCall ELSE overlay[id]]
  BY DEF Dispatch, Ref!Dispatch, Ref!Goto, Ref!Tasks, PartsHold, TypeOK, Ref!TypeOK,
         Ref!Key, Key, OnRefreshEvent, Ref!OnRefreshEvent, Ignored, Ref!Ignored,
         Merged, Ref!Merged, Put, Ref!Put, Drop, Ref!Drop, Ids, Ref!Ids, Rings, Ref!Rings
<1>2. CASE e.err
  <2>1. e.keys = latest[t]
    BY <1>1, <1>2 DEF PartsHold, Ref!MemoryInv
  <2> QED
    BY <1>1, <1>2, <2>1 DEF About, Ignored, OnRefreshEvent
<1>3. CASE ~e.err
  <2>1. e \in Ref!GoodEvents(prevKeys[t], latest[t])
    BY <1>1, <1>3 DEF PartsHold, Ref!MemoryInv
  <2>2. Ids(e.deleted) = Ids(latest[t]) \ Ids(e.keys)
    <3>1. e.keys = prevKeys[t] /\ e.deleted \in Ref!Missing(latest[t], prevKeys[t])
      BY <2>1 DEF Ref!GoodEvents
    <3>2. \A keys : Ref!Ids(keys) = Ids(keys)
      BY DEF Ref!Ids, Ids
    <3> QED
      BY <3>1, <3>2 DEF Ref!Missing
  <2>3. /\ Ids(e.deleted) = Ids(latest[t]) \ Ids(e.keys)
        /\ Ignored(e) => e.keys = {} /\ Ids(latest[t]) = {}
    BY <1>3, <2>2 DEF Ids, Ignored
  <2>4. About(e) = Ids(e.keys) \cup Ids(latest[t])
    BY <2>3 DEF About, Ids
  <2>5. ASSUME NEW id \in KeyIDs
        PROVE  ring'[id] \in
                 IF id \in Ids(e.deleted) THEN {NoKey}
                 ELSE IF id \in Ids(e.keys) THEN {k \in e.keys : k.kid = id}
                 ELSE {ring[id]}
    <3>1. CASE Ignored(e)
      BY <1>1, <1>3, <3>1 DEF OnRefreshEvent, Ignored, Ids
    <3>2. CASE ~Ignored(e)
      BY <1>1, <3>2 DEF OnRefreshEvent, Merged, Put, Drop
    <3> QED
      BY <3>1, <3>2
  <2> QED
    BY <1>1, <1>3, <2>3, <2>4, <2>5
<1> QED
  BY <1>2, <1>3

(* A task's keys are those of its source, and there is a first run. *)
LEMMA LatestFacts ==
    ASSUME PartsHold
    PROVE  /\ latest \in [Ref!Tasks -> SUBSET Key]
           /\ \A t \in Ref!Tasks : /\ event[t].keys \in SUBSET Key
                                   /\ event[t].keys \in Contents[t[2]] \cup {{}}
                                   /\ latest[t] \in Contents[t[2]] \cup {{}}
           /\ 1 \in Ref!Runs
           /\ \A r \in Ref!Runs : \A s \in Sources : <<r, s>> \in Ref!Tasks
<1>1. Ref!TypeOK
  BY DEF PartsHold, TypeOK
<1>2. /\ 1 \in Ref!Runs
      /\ \A r \in Ref!Runs : \A s \in Sources : <<r, s>> \in Ref!Tasks
  BY BoundsAssumption DEF Ref!Tasks, Ref!Runs
<1>3. latest \in [Ref!Tasks -> SUBSET Key] /\ event \in [Ref!Tasks -> Ref!Event]
  BY <1>1 DEF Ref!TypeOK, Ref!Key, Key
<1>4. \A t \in Ref!Tasks : /\ event[t].keys \in Contents[t[2]] \cup {{}}
                           /\ latest[t] \in Contents[t[2]] \cup {{}}
  BY <1>1 DEF Ref!TypeOK
<1>5. \A t \in Ref!Tasks : event[t].keys \in SUBSET Key
  BY <1>3 DEF Ref!Event, Ref!Key, Key
<1> QED
  BY <1>2, <1>3, <1>4, <1>5

(* RefresherProofs knows of a task that nobody disturbs that it was not     *)
(* disturbed before, or has nothing to lose, and that it is alone to send.  *)
LEMMA UndisturbedTasks ==
    ASSUME PartsHold, [Next]_vars, NEW t \in Ref!Tasks, Ref!Undisturbed(t)'
    PROVE  /\ Ref!Undisturbed(t) \/ latest'[t] = {}
           /\ \A u \in Ref!Tasks : Dispatch(u) /\ u[2] = t[2] => u = t
<1>0. Ref!Tasks = RefP!Tasks
  BY DEF Ref!Tasks, RefP!Tasks, Ref!Runs, RefP!Runs
<1>1. RefP!TypeOK /\ RefP!RunInv /\ RefP!MemoryInv /\ t \in RefP!Tasks
  BY <1>0, SameTaskInvariants DEF PartsHold, TypeOK
<1>2. /\ RefP!Undisturbed(t)'
      /\ RefP!Undisturbed(t) => Ref!Undisturbed(t)
  BY DEF Ref!Undisturbed, RefP!Undisturbed, Ref!Tasks, RefP!Tasks, Ref!Runs, RefP!Runs
<1>3. ASSUME NEW u \in Ref!Tasks, Dispatch(u), u[2] = t[2] PROVE u = t
  <2>1. RefP!Dispatch(u)
    BY <1>3, SameTasks DEF Dispatch
  <2> QED
    BY <1>0, <1>1, <1>2, <1>3, <2>1, RefP!OthersAreSilent, RefreshedSources, BoundsAssumption,
       KindsAssumption, NoIDAssumption, NoKeyAssumption
<1>4. ASSUME UNCHANGED refresherVars PROVE Ref!Undisturbed(t)
  BY <1>4 DEF Ref!Undisturbed, Ref!Tasks, Ref!Runs, refresherVars
<1>5. ASSUME RefP!Next PROVE Ref!Undisturbed(t) \/ latest'[t] = {}
  BY <1>1, <1>2, <1>5, RefP!UndisturbedBefore, RefreshedSources, BoundsAssumption,
     KindsAssumption, NoIDAssumption, NoKeyAssumption
<1>6. \/ UNCHANGED refresherVars
      \/ RefP!Next
  BY Steps, CallSteps, TaskSteps DEF vars
<1> QED
  BY <1>3, <1>4, <1>5, <1>6

(* A key in the ring is explained. *)
KeyExplained(id) ==
    IF overlay[id] # NoCall
    THEN ring[id] = result[overlay[id]].key
    ELSE Cached(id) => \E t \in Ref!Tasks : ring[id] \in latest[t]

(* A key that a task has reported is there. *)
KeyThere(t, id) ==
    id \in Ids(latest[t]) /\ overlay[id] = NoCall => ring[id] \in latest[t]

(* What a call stores is explained by the call, and nothing else moves. *)
LEMMA CallExplains ==
    ASSUME PartsHold, OverlayInv, NEW id \in KeyIDs,
           NEW c \in Calls, Call(c) \/ Fetch(c) \/ Publish(c) \/ Proceed(c)
    PROVE  /\ KeyExplained(id) => KeyExplained(id)'
           /\ \A t : KeyThere(t, id) => KeyThere(t, id)'
<1>1. /\ Res!TypeOK /\ overlay \in [KeyIDs -> Calls \cup {NoCall}] /\ UNCHANGED latest
  BY CallSteps DEF PartsHold, TypeOK, refresherVars
<1>2. Ref!Tasks' = Ref!Tasks
  BY DEF Ref!Tasks, Ref!Runs
<1>3. CASE Publish(c)
  BY <1>1, <1>2, <1>3, PublishStores, CallsAssumption DEF KeyExplained, KeyThere, Cached
<1>4. CASE Call(c) \/ Fetch(c) \/ Proceed(c)
  <2>1. UNCHANGED <<ring, overlay>>
    BY <1>4, OtherCallSteps
  <2>2. overlay[id] # NoCall => result'[overlay[id]] = result[overlay[id]]
    BY <1>1, <1>4, SettledStays DEF OverlayInv
  <2> QED
    BY <1>1, <1>2, <2>1, <2>2 DEF KeyExplained, KeyThere, Cached
<1> QED
  BY <1>3, <1>4

(* What an event leaves in the ring is explained by a call or by a task     *)
(* that still has it.                                                       *)
LEMMA EventExplains ==
    ASSUME PartsHold, NEW id \in KeyIDs, NEW t \in Ref!Tasks, Dispatch(t), KeyExplained(id)
    PROVE  KeyExplained(id)'
<1>1. /\ latest \in [Ref!Tasks -> SUBSET Key] /\ event[t].keys \in SUBSET Key
      /\ latest' = [latest EXCEPT ![t] = event[t].keys]
      /\ result' = result
  BY LatestFacts, DispatchTells DEF Dispatch, resolverVars
<1>2. Ref!Tasks' = Ref!Tasks
  BY DEF Ref!Tasks, Ref!Runs
<1>3. ring \in Rings /\ WellFiled(ring)
  BY DEF PartsHold, TypeOK, Ref!TypeOK, Rings, WellFiled, Ref!Rings, Ref!WellFiled, Key, Ref!Key
<1>4. CASE id \in About(event[t])
  <2>1. /\ overlay'[id] = NoCall
        /\ ring'[id] \in event[t].keys \/ ring'[id] = NoKey
    BY <1>4, DispatchTells
  <2>2. latest'[t] = event[t].keys
    BY <1>1
  <2> QED
    BY <1>2, <2>1, <2>2 DEF KeyExplained, Cached
<1>5. CASE id \notin About(event[t])
  <2>1. /\ overlay'[id] = overlay[id] /\ ring'[id] = ring[id]
        /\ event[t].keys = latest[t] \/ id \notin Ids(latest[t])
    BY <1>5, DispatchTells
  <2>2. CASE overlay[id] # NoCall \/ ring[id] = NoKey
    BY <1>1, <2>1, <2>2 DEF KeyExplained, Cached
  <2>3. CASE overlay[id] = NoCall /\ ring[id] # NoKey
    <3>1. PICK u \in Ref!Tasks : ring[id] \in latest[u]
      BY <2>3 DEF KeyExplained, Cached
    <3>2. ring[id].kid = id
      BY <1>3, <2>3 DEF WellFiled
    <3>3. u = t => event[t].keys = latest[t]
      BY <2>1, <3>1, <3>2 DEF Ids
    <3>4. ring[id] \in latest'[u]
      BY <1>1, <3>1, <3>3
    <3> QED
      BY <1>2, <2>1, <2>3, <3>1, <3>4 DEF KeyExplained, Cached
  <2> QED
    BY <2>2, <2>3
<1> QED
  BY <1>4, <1>5

(* An event loses no key of its own task, nor of another source's that is   *)
(* the only one to serve it.                                                *)
LEMMA EventKeeps ==
    ASSUME PartsHold, NEW u \in Ref!Tasks, NEW id \in KeyIDs, Ref!Owns(u[2], id),
           NEW t \in Ref!Tasks, Dispatch(t), t[2] = u[2] => t = u, KeyThere(u, id)
    PROVE  KeyThere(u, id)'
<1>1. /\ latest \in [Ref!Tasks -> SUBSET Key] /\ event[t].keys \in SUBSET Key
      /\ latest' = [latest EXCEPT ![t] = event[t].keys]
      /\ t[2] \in Sources /\ u[2] \in Sources
      /\ event[t].keys \in Contents[t[2]] \cup {{}}
      /\ latest[t] \in Contents[t[2]] \cup {{}}
  BY LatestFacts, DispatchTells DEF Ref!Tasks
<1>2. CASE u = t
  <2>1. latest'[u] = event[t].keys
    BY <1>1, <1>2
  <2>2. SUFFICES ASSUME id \in Ids(event[t].keys), overlay'[id] = NoCall
                 PROVE  ring'[id] \in event[t].keys
    BY <2>1 DEF KeyThere
  <2>3. CASE id \in About(event[t])
    BY <2>2, <2>3, DispatchTells
  <2>4. CASE id \notin About(event[t])
    <3>1. /\ overlay'[id] = overlay[id] /\ ring'[id] = ring[id]
          /\ event[t].keys = latest[t]
      BY <2>2, <2>4, DispatchTells
    <3> QED
      BY <1>2, <2>2, <3>1 DEF KeyThere
  <2> QED
    BY <2>3, <2>4
<1>3. CASE u # t
  <2>1. latest'[u] = latest[u]
    BY <1>1, <1>3
  <2>2. u[2] # t[2]
    BY <1>3
  <2>3. id \notin Ids(event[t].keys) /\ id \notin Ids(latest[t])
    BY <1>1, <2>2 DEF Ref!Owns, Ref!Ids, Ids
  <2>4. overlay'[id] = overlay[id] /\ ring'[id] = ring[id]
    BY <2>3, DispatchTells
  <2> QED
    BY <2>1, <2>4 DEF KeyThere
<1> QED
  BY <1>2, <1>3

(* The ring's explanation survives a call's key and an event alike. *)
LEMMA RingStep ==
    PartsHold /\ OverlayInv /\ RingIsExplained /\ [Next]_vars => RingIsExplained'
<1> SUFFICES ASSUME PartsHold, OverlayInv, RingIsExplained, [Next]_vars
             PROVE  RingIsExplained'
  OBVIOUS
<1>1. \A id \in KeyIDs : KeyExplained(id)
  BY DEF RingIsExplained, KeyExplained
<1>2. \A t \in Ref!Tasks : \A id \in KeyIDs :
         Ref!Undisturbed(t) /\ Ref!Owns(t[2], id) => KeyThere(t, id)
  BY DEF RingIsExplained, KeyThere
<1>3. UNCHANGED <<ring, overlay, latest, result>> =>
         \A id \in KeyIDs : /\ KeyExplained(id) => KeyExplained(id)'
                            /\ \A t : KeyThere(t, id) => KeyThere(t, id)'
  BY DEF KeyExplained, KeyThere, Cached, Ref!Tasks, Ref!Runs
<1>4. Control \/ (\E t \in Ref!Tasks : Refresh(t)) =>
         UNCHANGED <<ring, overlay, latest, result>>
  BY DEF Control, Refresh, Ref!Start, Ref!Stop, Ref!Change, Ref!Fetch, Ref!FetchSucceeds,
         Ref!FetchFails, Ref!FetchInterrupted, Ref!Wake, Ref!Exit, resolverVars
<1>5. UNCHANGED vars => UNCHANGED <<ring, overlay, latest, result>>
  BY DEF vars, resolverVars, refresherVars
<1>6. ASSUME NEW id \in KeyIDs PROVE KeyExplained(id)'
  BY <1>1, <1>3, <1>4, <1>5, Steps, CallExplains, EventExplains
<1>7. ASSUME NEW t \in Ref!Tasks, Ref!Undisturbed(t)', NEW id \in KeyIDs, Ref!Owns(t[2], id)
      PROVE  KeyThere(t, id)'
  <2>1. CASE latest'[t] = {}
    BY <2>1 DEF KeyThere, Ids
  <2>2. CASE latest'[t] # {}
    <3>1. KeyThere(t, id)
      BY <1>2, <1>7, <2>2, UndisturbedTasks
    <3>2. \A u \in Ref!Tasks : Dispatch(u) /\ u[2] = t[2] => u = t
      BY <1>7, UndisturbedTasks
    <3> QED
      BY <1>3, <1>4, <1>5, <1>7, <3>1, <3>2, Steps, CallExplains, EventKeeps
  <2> QED
    BY <2>1, <2>2
<1>8. Ref!Tasks' = Ref!Tasks /\ \A s, id : Ref!Owns(s, id)' <=> Ref!Owns(s, id)
  BY DEF Ref!Owns, Ref!Tasks, Ref!Runs
<1> QED
  BY <1>6, <1>7, <1>8 DEF RingIsExplained, KeyExplained, KeyThere

(* Only an event sets the gauge, to the number of keys it has. *)
LEMMA GaugeStep == PartsHold /\ GaugeIsLastKnown /\ [Next]_vars => GaugeIsLastKnown'
<1> SUFFICES ASSUME PartsHold, GaugeIsLastKnown, [Next]_vars, NEW s \in Sources
             PROVE  \E r \in Ref!Runs : /\ r = 1 \/ r <= starts'
                                        /\ gauge'[s] = Cardinality(latest'[<<r, s>>])
  BY DEF GaugeIsLastKnown, Ref!Runs
<1>1. PICK r \in Ref!Runs : /\ r = 1 \/ r <= starts
                            /\ gauge[s] = Cardinality(latest[<<r, s>>])
  BY DEF GaugeIsLastKnown
<1>2. /\ gauge \in [Sources -> Nat] /\ latest \in [Ref!Tasks -> SUBSET Key]
      /\ starts \in Nat /\ <<r, s>> \in Ref!Tasks /\ r \in Nat
  BY LatestFacts, BoundsAssumption DEF PartsHold, TypeOK, Ref!TypeOK, Ref!Runs
<1>3. ASSUME NEW t \in Ref!Tasks, Dispatch(t)
      PROVE  \E q \in Ref!Runs : /\ q = 1 \/ q <= starts'
                                 /\ gauge'[s] = Cardinality(latest'[<<q, s>>])
  <2>1. /\ gauge' = [gauge EXCEPT ![t[2]] = Cardinality(event[t].keys)]
        /\ latest' = [latest EXCEPT ![t] = event[t].keys]
        /\ starts' = starts
        /\ pc[t] = "dispatch"
    BY <1>3, DispatchTells DEF Dispatch, Ref!Dispatch, Ref!Goto
  <2>2. t = <<t[1], t[2]>> /\ t[1] \in Ref!Runs
    BY DEF Ref!Tasks
  <2>3. t[1] <= starts
    BY <2>1, <2>2, BoundsAssumption DEF PartsHold, TypeOK, Ref!TypeOK, Ref!RunInv, Ref!Runs
  <2>4. CASE t[2] = s
    <3>1. gauge'[s] = Cardinality(latest'[<<t[1], s>>])
      BY <1>2, <2>1, <2>2, <2>4
    <3> QED
      BY <2>1, <2>2, <2>3, <3>1
  <2>5. CASE t[2] # s
    <3>1. <<r, s>> # t
      BY <2>2, <2>5
    <3> QED
      BY <1>1, <1>2, <2>1, <2>5, <3>1
  <2> QED
    BY <2>4, <2>5
<1>4. CASE UNCHANGED <<gauge, latest>> /\ (starts' = starts \/ starts' = starts + 1)
  BY <1>1, <1>2, <1>4
<1>5. ASSUME ~\E t \in Ref!Tasks : Dispatch(t)
      PROVE  UNCHANGED <<gauge, latest>> /\ (starts' = starts \/ starts' = starts + 1)
  BY <1>5, Steps
  DEF Call, Fetch, Publish, Proceed, Control, Refresh, Ref!Start, Ref!Stop, Ref!Change,
      Ref!Fetch, Ref!FetchSucceeds, Ref!FetchFails, Ref!FetchInterrupted, Ref!Wake,
      Ref!Exit, vars, refresherVars
<1> QED
  BY <1>3, <1>4, <1>5

-----------------------------------------------------------------------------
(* The initial states are those that the two proof modules know. *)
LEMMA SameInit == Res!Init /\ Ref!Init => ResP!Init /\ RefP!Init
BY DEF Res!Init, ResP!Init, Res!EmptyRing, ResP!EmptyRing, Res!Failed, ResP!Failed,
       Ref!Init, RefP!Init, Ref!EmptyRing, RefP!EmptyRing, Ref!Tasks, RefP!Tasks,
       Ref!Runs, RefP!Runs, Ref!NoEvent, RefP!NoEvent

(* Before anything has run, the ring is empty and the gauges are zero. *)
LEMMA InitHolds == Init => PartsHold /\ OverlayInv /\ RingIsExplained /\ GaugeIsLastKnown
<1> SUFFICES ASSUME Init PROVE PartsHold /\ OverlayInv /\ RingIsExplained /\ GaugeIsLastKnown
  OBVIOUS
<1>1. Res!IInv /\ Ref!TypeOK /\ Ref!RunInv /\ Ref!LateInv /\ Ref!MemoryInv
  BY SameInit, SameCallInvariants, SameTaskInvariants, CallsKeep, TasksKeep DEF Init
<1>2. Res!AnswersHaveRequestedID
  BY DEF Init, Res!Init, Res!AnswersHaveRequestedID, Res!Failed
<1>3. /\ gauge \in [Sources -> Nat] /\ overlay \in [KeyIDs -> Calls \cup {NoCall}]
      /\ OverlayInv
  BY DEF Init, OverlayInv
<1>4. /\ \A s \in Sources : latest[<<1, s>>] = {} /\ gauge[s] = 0
      /\ \A t \in Ref!Tasks : latest[t] = {}
      /\ \A id \in KeyIDs : overlay[id] = NoCall /\ ring[id] = NoKey
      /\ 1 \in Ref!Runs
  BY BoundsAssumption DEF Init, Ref!Init, Ref!EmptyRing, Ref!Tasks, Ref!Runs
<1>5. RingIsExplained /\ GaugeIsLastKnown
  BY <1>4, FS_EmptySet DEF RingIsExplained, GaugeIsLastKnown, Cached, Ids
<1> QED
  BY <1>1, <1>2, <1>3, <1>5, KeptSuffices DEF Kept

(* Whatever both do to the ring: no two calls fetch one key ID at a time,   *)
(* waiters can be woken and return what their leader does, answers have the *)
(* ID that was asked for, calls wait in a circle only behind a listener's   *)
(* own; and in either run a stopped task sends one event at most, errors    *)
(* carry the keys last known, and good events are exact differences.        *)
THEOREM PartsHoldHolds == Spec => []PartsHold
BY InitHolds, PartsStep, PTL DEF Spec

(* The ring holds what was stored last, by a call or by an event, and in    *)
(* the latest run no key is missing that a single source serves, as long as *)
(* no task of an earlier one has sent an event late.                        *)
THEOREM RingIsExplainedHolds == Spec => []RingIsExplained
<1>1. Init => OverlayInv /\ RingIsExplained
  BY InitHolds
<1> QED
  BY <1>1, PartsHoldHolds, OverlayStep, RingStep, PTL DEF Spec

(* The gauge is the number of keys a source was last seen with in a run.    *)
THEOREM GaugeIsLastKnownHolds == Spec => []GaugeIsLastKnown
<1>1. Init => GaugeIsLastKnown
  BY InitHolds
<1> QED
  BY <1>1, PartsHoldHolds, GaugeStep, PTL DEF Spec

-----------------------------------------------------------------------------
(* The flights that ResolverProofs knows of are those of Clortho. *)
LEMMA SameFlights ==
    /\ ResP!F!Init => Res!F!Init
    /\ [ResP!F!Next]_(ResP!F!vars) => [Res!F!Next]_(Res!F!vars)
BY DEF ResP!F!Init, Res!F!Init, ResP!F!Next, Res!F!Next, ResP!F!vars, Res!F!vars,
    ResP!F!None, Res!F!None, ResP!F!Found, Res!F!Found, ResP!F!Failed, Res!F!Failed,
    ResP!F!Under, Res!F!Under, ResP!F!Answer, Res!F!Answer, ResP!F!Ask, Res!F!Ask,
    ResP!F!Hit, Res!F!Hit, ResP!F!Board, Res!F!Board, ResP!F!Depart, Res!F!Depart,
    ResP!F!Land, Res!F!Land, ResP!F!Arrive, Res!F!Arrive, ResP!F!Leave, Res!F!Leave,
    ResP!F!Key, Res!F!Key,
    ResP!Outcomes, Res!Outcomes, ResP!Answers, Res!Answers, ResP!Answered, Res!Answered,
    ResP!Failed, Res!Failed

(* Beside a refresher too, calls for one key ID share flights: no step of a *)
(* task is one of theirs, and what a task does to the ring only changes     *)
(* what a call may find there.                                              *)
THEOREM FlightsSharedHolds == Spec => FlightsShared
<1>1. Init => Res!F!Init
  BY SameInit, SameFlights, ResP!FlightsInit, SingleResponses, CallsAssumption,
     NoIDAssumption, NoKeyAssumption DEF Init
<1>2. PartsHold /\ PartsHold' /\ [Next]_vars => [Res!F!Next]_(Res!F!vars)
  <2> SUFFICES ASSUME PartsHold, PartsHold', [Next]_vars
               PROVE  [Res!F!Next]_(Res!F!vars)
    OBVIOUS
  <2>1. ResP!IInv /\ ResP!IInv'
    BY SameCallInvariants DEF PartsHold
  <2>2. ASSUME NEW c \in Calls, Call(c) \/ Fetch(c) \/ Publish(c) \/ Proceed(c)
        PROVE  [Res!F!Next]_(Res!F!vars)
    BY <2>1, <2>2, CallSteps, ResP!FlightsStep, SameFlights, SingleResponses,
       CallsAssumption, NoIDAssumption, NoKeyAssumption
  <2>3. CASE UNCHANGED resolverVars
    BY <2>3
    DEF resolverVars, Res!F!vars, Res!Outcomes, Res!Answers, Res!Answered, Res!Failed
  <2> QED
    BY <2>2, <2>3, Steps, TaskSteps DEF vars
<1> QED
  BY <1>1, <1>2, PartsHoldHolds, PTL DEF Spec, FlightsShared, Res!ImplementsFlights, Res!F!Spec
=============================================================================
