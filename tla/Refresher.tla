----------------------------- MODULE Refresher -----------------------------
(***************************************************************************)
(* refresher and refreshTask (refresher.go): one goroutine per source of   *)
(* keys that fetches it again and again, works out what changed, and tells *)
(* the listeners, of which the ring is one.                                *)
(*                                                                         *)
(* A task is a run, the how-manieth Start began it, and a source.  Stop    *)
(* cancels the tasks of the current run and does not wait for them, so     *)
(* tasks of one source from several runs may be alive together.            *)
(*                                                                         *)
(* The sources are external.  What one serves may change at any time; a    *)
(* conditional one also answers "not modified" to a request that carries a *)
(* Last-Modified stamp no older than its own (loader.go), in which case    *)
(* there is no content to parse, and Fetch returns an error (fetcher.go).  *)
(* A stamp need not move when the content does: it counts seconds.         *)
(***************************************************************************)
EXTENDS KeyRing, Naturals

CONSTANTS
    Sources,      \* the URIs to refresh from
    Contents,     \* Contents[s]: the sets of keys s may come to serve
    Conditional,  \* the sources that honor If-Modified-Since
    Reliable,     \* the sources that always answer, if with "not modified"
    MaxRuns,      \* bound on the number of Starts
    MaxChanges    \* bound on the number of times a source changes

ASSUME BoundsAssumption == MaxRuns \in Nat \ {0} /\ MaxChanges \in Nat
ASSUME ContentsAssumption == Contents \in [Sources -> SUBSET SUBSET Key]
ASSUME KindsAssumption == Conditional \subseteq Sources /\ Reliable \subseteq Sources

VARIABLES
    active,     \* the run whose cancel function is r.taskCancel, 0 when nil
    starts,     \* how many runs have been started
    cancelled,  \* the runs whose context is cancelled
    pc,         \* where each task is
    prevKeys,   \* its last good set of keys, {} before there was one
    prevMeta,   \* the stamp it will send, 0 for the zero ContentMeta
    event,      \* the event it is about to dispatch
    served,     \* what each source serves
    stamp,      \* and its Last-Modified
    changes,    \* how often a source has changed
    latest,     \* history: the keys of the last good event of each task
    late        \* history: how many events each task sent after being stopped

source == <<served, stamp, changes>>
vars == <<ring, active, starts, cancelled, pc, prevKeys, prevMeta, event, source,
          latest, late>>

Runs  == 1 .. MaxRuns
Tasks == Runs \X Sources

Stopped(t) == t[1] \in cancelled

Event == [err : BOOLEAN, keys : SUBSET Key, new : SUBSET Key, deleted : SUBSET Key]
NoEvent == [err |-> FALSE, keys |-> {}, new |-> {}, deleted |-> {}]

Init ==
    /\ ring = EmptyRing
    /\ active = 0
    /\ starts = 0
    /\ cancelled = {}
    /\ pc = [t \in Tasks |-> "none"]
    /\ prevKeys = [t \in Tasks |-> {}]
    /\ prevMeta = [t \in Tasks |-> 0]
    /\ event = [t \in Tasks |-> NoEvent]
    /\ served \in {f \in [Sources -> UNION {Contents[s] : s \in Sources}] :
                      \A s \in Sources : f[s] \in Contents[s]}
    /\ stamp = [s \in Sources |-> 1]
    /\ changes = 0
    /\ latest = [t \in Tasks |-> {}]
    /\ late = [t \in Tasks |-> 0]

-----------------------------------------------------------------------------
(* Single faults: each is an action or helper below with one mistake in it. *)
StopUnchecked ==          \* no look at whether a run is active
    /\ cancelled' = cancelled \cup {active}
    /\ active' = 0
    /\ UNCHANGED <<ring, starts, pc, prevKeys, prevMeta, event, source, latest, late>>

StopWithoutCancel ==      \* taskCancel is forgotten, not called
    /\ active # 0
    /\ active' = 0
    /\ UNCHANGED <<ring, starts, cancelled, pc, prevKeys, prevMeta, event, source, latest, late>>

-----------------------------------------------------------------------------
(* Start fails when there is a run, Stop when there is none; neither then   *)
(* changes anything.                                                        *)
Start ==
    /\ active = 0
    /\ starts < MaxRuns
    /\ starts' = starts + 1
    /\ active' = starts + 1
    /\ pc' = [t \in Tasks |-> IF t[1] = starts + 1 THEN "fetch" ELSE pc[t]]
    /\ UNCHANGED <<ring, cancelled, prevKeys, prevMeta, event, source, latest, late>>

Stop ==
    /\ active # 0
    /\ cancelled' = cancelled \cup {active}
    /\ active' = 0
    /\ UNCHANGED <<ring, starts, pc, prevKeys, prevMeta, event, source, latest, late>>

Goto(t, from, to) == pc[t] = from /\ pc' = [pc EXCEPT ![t] = to]

(* findChanges compares maps from IDs to keys.  Of the IDs the others lack  *)
(* it names one key each: of two with one ID newKeyMap kept the last, and   *)
(* here either may be it.                                                   *)
Missing(keys, others) ==
    {some \in SUBSET keys : /\ Ids(some) = Ids(keys) \ Ids(others)
                            /\ \A k, l \in some : k.kid = l.kid => k = l}

GoodEvents(keys, prev) ==
    [err : {FALSE}, keys : {keys}, new : Missing(keys, prev), deleted : Missing(prev, keys)]
EmptyBadEvent(prev) ==   \* a fault: the keys are left out
    [err |-> TRUE, keys |-> {}, new |-> {}, deleted |-> {}]

BadEvent(prev) ==
    [err |-> TRUE, keys |-> prev, new |-> {}, deleted |-> {}]

(* Fetch, the look at the context, and the preparation of the event.  The   *)
(* look at the context follows the fetch at once: a Stop between the two is *)
(* a Stop before both.                                                      *)
NotModified(t) == t[2] \in Conditional /\ prevMeta[t] # 0 /\ stamp[t[2]] <= prevMeta[t]

(* Faults of the three outcomes. *)
SucceedUnchecked(t) ==      \* the context is not looked at after the fetch
    /\ Goto(t, "fetch", "dispatch")
    /\ ~NotModified(t)
    /\ \E e \in GoodEvents(served[t[2]], prevKeys[t]) : event' = [event EXCEPT ![t] = e]
    /\ prevKeys' = [prevKeys EXCEPT ![t] = served[t[2]]]
    /\ prevMeta' = [prevMeta EXCEPT ![t] = stamp[t[2]]]
    /\ UNCHANGED <<ring, active, starts, cancelled, source, latest, late>>

FailForgettingKeys(t) ==    \* the previous keys are reset with the metadata
    /\ Goto(t, "fetch", "dispatch")
    /\ ~Stopped(t)
    /\ event' = [event EXCEPT ![t] = BadEvent(prevKeys[t])]
    /\ prevMeta' = [prevMeta EXCEPT ![t] = 0]
    /\ prevKeys' = [prevKeys EXCEPT ![t] = {}]
    /\ UNCHANGED <<ring, active, starts, cancelled, source, latest, late>>

FailKeepingMeta(t) ==       \* the metadata is not reset
    /\ Goto(t, "fetch", "dispatch")
    /\ ~Stopped(t)
    /\ event' = [event EXCEPT ![t] = BadEvent(prevKeys[t])]
    /\ UNCHANGED <<ring, active, starts, cancelled, prevKeys, prevMeta, source, latest, late>>

IgnoreInterruption(t) ==    \* no event, but the task goes on to its timer
    /\ Goto(t, "fetch", "sleep")
    /\ Stopped(t)
    /\ UNCHANGED <<ring, active, starts, cancelled, prevKeys, prevMeta, event, source,
                   latest, late>>

FetchSucceeds(t) ==
    /\ Goto(t, "fetch", "dispatch")
    /\ ~Stopped(t)
    /\ ~NotModified(t)
    /\ \E e \in GoodEvents(served[t[2]], prevKeys[t]) : event' = [event EXCEPT ![t] = e]
    /\ prevKeys' = [prevKeys EXCEPT ![t] = served[t[2]]]
    /\ prevMeta' = [prevMeta EXCEPT ![t] = stamp[t[2]]]
    /\ UNCHANGED <<ring, active, starts, cancelled, source, latest, late>>

(* A reliable source makes Fetch fail by saying "not modified". *)
FetchFails(t) ==
    /\ Goto(t, "fetch", "dispatch")
    /\ ~Stopped(t)
    /\ t[2] \in Reliable => NotModified(t)
    /\ event' = [event EXCEPT ![t] = BadEvent(prevKeys[t])]
    /\ prevMeta' = [prevMeta EXCEPT ![t] = 0]
    /\ UNCHANGED <<ring, active, starts, cancelled, prevKeys, source, latest, late>>

FetchInterrupted(t) ==
    /\ Goto(t, "fetch", "exited")
    /\ Stopped(t)
    /\ UNCHANGED <<ring, active, starts, cancelled, prevKeys, prevMeta, event, source,
                   latest, late>>

(* dispatch: every listener gets the event; the context is not looked at.   *)
Dispatch(t) ==
    /\ Goto(t, "dispatch", "sleep")
    /\ OnRefreshEvent(event[t])
    /\ latest' = IF event[t].err THEN latest
                                 ELSE [latest EXCEPT ![t] = event[t].keys]
    /\ late' = IF Stopped(t) THEN [late EXCEPT ![t] = @ + 1] ELSE late
    /\ UNCHANGED <<active, starts, cancelled, prevKeys, prevMeta, event, source>>

(* The select: when timer and context are both ready, either may be chosen. *)
Wake(t) ==
    /\ Goto(t, "sleep", "fetch")
    /\ UNCHANGED <<ring, active, starts, cancelled, prevKeys, prevMeta, event, source,
                   latest, late>>

Exit(t) ==
    /\ Goto(t, "sleep", "exited")
    /\ Stopped(t)
    /\ UNCHANGED <<ring, active, starts, cancelled, prevKeys, prevMeta, event, source,
                   latest, late>>

(* The source: new content, with a new stamp or within the same second. *)
Change(s) ==
    /\ changes < MaxChanges
    /\ changes' = changes + 1
    /\ \E keys \in Contents[s] \ {served[s]} : served' = [served EXCEPT ![s] = keys]
    /\ \E now \in {stamp[s], stamp[s] + 1} : stamp' = [stamp EXCEPT ![s] = now]
    /\ UNCHANGED <<ring, active, starts, cancelled, pc, prevKeys, prevMeta, event, latest, late>>

AllExited ==
    /\ starts = MaxRuns /\ active = 0
    /\ \A t \in Tasks : pc[t] = "exited"
    /\ UNCHANGED vars

-----------------------------------------------------------------------------
Fetch(t) == FetchSucceeds(t) \/ FetchFails(t) \/ FetchInterrupted(t)
Step(t)  == Fetch(t) \/ Dispatch(t) \/ Wake(t) \/ Exit(t)

Next ==
    \/ Start \/ Stop
    \/ \E t \in Tasks : Step(t)
    \/ \E s \in Sources : Change(s)
    \/ AllExited

Spec == Init /\ [][Next]_vars

(* Every task moves on: fetches return (with an error when cancelled),      *)
(* listeners return, timers fire, and select does not choose the timer over *)
(* a cancelled context for ever, as the fetch that follows ends the task.   *)
FairSpec == Spec /\ \A t \in Tasks : WF_vars(Step(t))

(* Besides, a source that is asked again and again, answers. *)
AnsweringSpec == FairSpec /\ \A t \in Tasks : SF_vars(FetchSucceeds(t))

-----------------------------------------------------------------------------
TypeOK ==
    /\ ring \in Rings /\ WellFiled(ring)
    /\ active \in Runs \cup {0}
    /\ starts \in 0 .. MaxRuns
    /\ cancelled \in SUBSET Runs
    /\ pc \in [Tasks -> {"none", "fetch", "dispatch", "sleep", "exited"}]
    /\ prevKeys \in [Tasks -> SUBSET Key]
    /\ \A t \in Tasks : prevKeys[t] \in Contents[t[2]] \cup {{}}
    /\ prevMeta \in [Tasks -> Nat]
    /\ event \in [Tasks -> Event]
    /\ \A t \in Tasks : event[t].keys \in Contents[t[2]] \cup {{}}
    /\ served \in [Sources -> SUBSET Key]
    /\ \A s \in Sources : served[s] \in Contents[s]
    /\ stamp \in [Sources -> Nat \ {0}]
    /\ changes \in 0 .. MaxChanges
    /\ latest \in [Tasks -> SUBSET Key]
    /\ \A t \in Tasks : latest[t] \in Contents[t[2]] \cup {{}}
    /\ late \in [Tasks -> Nat]

(* Stop lets a task send at most the event it has ready.  Even when select  *)
(* prefers the timer to the cancelled context, the task ends before it has  *)
(* another.                                                                 *)
AtMostOneLateEvent == \A t \in Tasks : late[t] <= 1

(* However Start and Stop are interleaved with the tasks, those that are    *)
(* not on their way out belong to the one run that Stop would stop.         *)
OneLiveRun ==
    \A t \in Tasks : pc[t] \in {"fetch", "dispatch", "sleep"} => t[1] = active \/ Stopped(t)

(* In every run, an event that reports an error carries the keys of the     *)
(* last good event for its source, as RefreshEvent has it;                  *)
ErrKeysAreLastKnown ==
    \A t \in Tasks : pc[t] = "dispatch" /\ event[t].err => event[t].keys = latest[t]

(* and a good event names as new and deleted exactly what makes the         *)
(* difference between the run's last good event and it, whatever errors     *)
(* came between.                                                            *)
DiffsAreExact ==
    \A t \in Tasks : pc[t] = "dispatch" /\ ~event[t].err =>
        LET had == Ids(latest[t])
        IN  /\ Ids(event[t].keys) = (had \ Ids(event[t].deleted)) \cup Ids(event[t].new)
            /\ Ids(event[t].deleted) \subseteq had
            /\ Ids(event[t].new) \cap had = {}

(* The ring holds only keys of the last good event of some task, one that   *)
(* may be stopped, be sources as they may in disagreement over an ID.       *)
NothingStale == \A id \in KeyIDs : Cached(id) => \E t \in Tasks : ring[id] \in latest[t]

(* It has, of the IDs that only one source can serve, all the keys of that  *)
(* source's last good event in the latest run besides, unless a task of an  *)
(* earlier run has sent a late event after it was stopped.                  *)
Undisturbed(t) == t[1] = starts /\ \A u \in Tasks : u[2] = t[2] /\ u # t => late[u] = 0
Owns(s, id)    == \A r \in Sources : (\E keys \in Contents[r] : id \in Ids(keys)) => r = s

NothingLost ==
    \A t \in Tasks : Undisturbed(t) => \A id \in KeyIDs \cap Ids(latest[t]) :
        Owns(t[2], id) => ring[id] \in latest[t]

RingTracksEvents == NothingStale /\ NothingLost

(* "The server can legitimately" answer "not modified": it would not be an  *)
(* error when a source that always answers does.                            *)
NotModifiedIsNoError ==
    \A t \in Tasks : pc[t] = "dispatch" /\ t[2] \in Reliable => ~event[t].err

-----------------------------------------------------------------------------
(* The inductive invariant behind the above, part by part.                  *)

(* Runs begin in order, and all that have begun but the active one are over.*)
RunInv ==
    /\ active \in {0, starts}
    /\ cancelled = (1 .. starts) \ {active}
    /\ \A t \in Tasks : pc[t] = "none" <=> t[1] > starts

(* A task spends its late event when it is sent: it cannot get another.     *)
LateInv == \A t \in Tasks :
    /\ Stopped(t) => late[t] <= IF pc[t] = "dispatch" THEN 0 ELSE 1
    /\ ~Stopped(t) => late[t] = 0

(* A task's memory is what its listeners have been told, and its next event *)
(* is relative to that.                                                     *)
MemoryInv == \A t \in Tasks :
    /\ pc[t] = "none" => latest[t] = {}
    /\ pc[t] # "dispatch" => latest[t] = prevKeys[t]
    /\ pc[t] = "dispatch" =>
          /\ event[t].err  => event[t].keys = latest[t]
          /\ event[t].err  => prevKeys[t] = latest[t]
          /\ ~event[t].err => event[t] \in GoodEvents(prevKeys[t], latest[t])

IInv == TypeOK /\ RunInv /\ LateInv /\ MemoryInv /\ RingTracksEvents

-----------------------------------------------------------------------------
(* A stopped run ends. *)
StoppedTasksExit ==
    \A t \in Tasks : Stopped(t) ~> pc[t] = "exited"

(* A run that is left alone, while the sources change no more, brings the   *)
(* ring to what they serve: every key, also one that a source dropped while *)
(* another still has it, and nothing else.  It needs the reset of prevMeta  *)
(* after an error, without which a change within a second stays hidden      *)
(* behind "not modified" for ever.                                          *)
InSync == \A id \in KeyIDs :
    IF \E s \in Sources : id \in Ids(served[s])
    THEN \E s \in Sources : ring[id] \in served[s]
    ELSE ~Cached(id)

Converges == <>[](active = 1) => <>[]InSync
=============================================================================
