----------------------------- MODULE Listeners -----------------------------
(***************************************************************************)
(* listeners (listeners.go): the list of listeners a resolver or refresher *)
(* has, and the mutex that is held while one is added or cancelled and for *)
(* the whole of a visit, during which the callbacks run.                   *)
(*                                                                         *)
(* A thread is a goroutine: one that resolved a key or refreshes a source  *)
(* and has an event to tell, or one of the application.  A callback may    *)
(* take any time, may call back into the same list, and may panic.         *)
(***************************************************************************)
EXTENDS Naturals

CONSTANTS
    Threads,
    NoThread,
    Listeners,   \* the elements of the list, each added at most once
    Nil,         \* the nil *list.Element
    MaxEvents    \* bound on the number of visits that are begun

ASSUME NoThreadAssumption  == NoThread \notin Threads
ASSUME NilAssumption       == Nil \notin Listeners
ASSUME MaxEventsAssumption == MaxEvents \in Nat

VARIABLES
    lock,     \* the thread that holds the mutex, or NoThread
    list,     \* the elements in the list, which is in the order of rank
    rank,     \* rank[l]: when l was added, counted from 1, and 0 before that
    added,    \* how many elements have been added
    pc,       \* where each thread is
    element,  \* the element it adds, cancels or visits
    event,    \* the number of the event it visits with
    sent,     \* history: how many visits have begun
    got,      \* history: the events each listener was called with
    joined,   \* history: how many visits had begun when it was added
    cut       \* history: the events whose visit a panic has ended

vars == <<lock, list, rank, added, pc, element, event, sent, got, joined, cut>>

Init ==
    /\ lock = NoThread
    /\ list = {}
    /\ rank = [l \in Listeners |-> 0]
    /\ added = 0
    /\ pc = [t \in Threads |-> "idle"]
    /\ element = [t \in Threads |-> Nil]
    /\ event = [t \in Threads |-> 0]
    /\ sent = 0
    /\ got = [l \in Listeners |-> {}]
    /\ joined = [l \in Listeners |-> 0]
    /\ cut = {}

-----------------------------------------------------------------------------
Goto(t, from, to) == pc[t] = from /\ pc' = [pc EXCEPT ![t] = to]

(* Back to the caller: the locals are gone. *)
Done(t, from) ==
    /\ Goto(t, from, "idle")
    /\ element' = [element EXCEPT ![t] = Nil]
    /\ event' = [event EXCEPT ![t] = 0]

(* list.Front and Element.Next: the first of a set of elements, or nil.     *)
(* Next of an element that is no longer in a list is nil.                   *)
IsFirst(e, els) ==
    \/ els = {} /\ e = Nil
    \/ e \in els /\ \A l \in els : rank[e] <= rank[l]
After(e) == IF e \in list THEN {l \in list : rank[l] > rank[e]} ELSE {}

(* Single faults: each is an action below with one mistake in it. *)
RemoveUnlocked(t) ==        \* the closure does not take the mutex
    /\ Done(t, "cancel")
    /\ list' = list \ {element[t]}
    /\ UNCHANGED <<lock, rank, added, sent, got, joined, cut>>

VisitUnlocked(t) ==         \* the mutex is held only to get at the list
    /\ Goto(t, "dispatch", "visit")
    /\ lock = NoThread
    /\ sent' = sent + 1
    /\ event' = [event EXCEPT ![t] = sent + 1]
    /\ \E e \in Listeners \cup {Nil} :
          IsFirst(e, list) /\ element' = [element EXCEPT ![t] = e]
    /\ UNCHANGED <<lock, list, rank, added, got, joined, cut>>

PanicHoldingLock(t) ==      \* Unlock is the last statement, and not deferred
    /\ Done(t, "callback")
    /\ cut' = cut \cup {event[t]}
    /\ UNCHANGED <<lock, list, rank, added, sent, got, joined>>

-----------------------------------------------------------------------------
(* addListener: PushBack under the mutex. *)
CallAdd(t, l) ==
    /\ Goto(t, "idle", "add")
    /\ rank[l] = 0 /\ ~\E u \in Threads : pc[u] = "add" /\ element[u] = l
    /\ element' = [element EXCEPT ![t] = l]
    /\ UNCHANGED <<lock, list, rank, added, event, sent, got, joined, cut>>

PushBack(t) ==
    /\ Done(t, "add")
    /\ lock = NoThread
    /\ list' = list \cup {element[t]}
    /\ added' = added + 1
    /\ rank' = [rank EXCEPT ![element[t]] = added + 1]
    /\ joined' = [joined EXCEPT ![element[t]] = sent]
    /\ UNCHANGED <<lock, sent, got, cut>>

(* The closure of cancelListener, which may be called again and again. *)
CallCancel(t, l) ==
    /\ Goto(t, "idle", "cancel")
    /\ rank[l] # 0
    /\ element' = [element EXCEPT ![t] = l]
    /\ UNCHANGED <<lock, list, rank, added, event, sent, got, joined, cut>>

Remove(t) ==
    /\ Done(t, "cancel")
    /\ lock = NoThread
    /\ list' = list \ {element[t]}
    /\ UNCHANGED <<lock, rank, added, sent, got, joined, cut>>

(* dispatch calls visit, which locks; *)
CallVisit(t) ==
    /\ Goto(t, "idle", "dispatch")
    /\ sent < MaxEvents
    /\ UNCHANGED <<lock, list, rank, added, element, event, sent, got, joined, cut>>

Visit(t) ==
    /\ Goto(t, "dispatch", "visit")
    /\ lock = NoThread
    /\ lock' = t
    /\ sent' = sent + 1
    /\ event' = [event EXCEPT ![t] = sent + 1]
    /\ \E e \in Listeners \cup {Nil} :
          IsFirst(e, list) /\ element' = [element EXCEPT ![t] = e]
    /\ UNCHANGED <<list, rank, added, got, joined, cut>>

(* calls f with an element's value, which returns in its own time;          *)
Call(t) ==
    /\ Goto(t, "visit", "callback")
    /\ element[t] # Nil
    /\ got' = [got EXCEPT ![element[t]] = @ \cup {event[t]}]
    /\ UNCHANGED <<lock, list, rank, added, element, event, sent, joined, cut>>

Return(t) ==
    /\ Goto(t, "callback", "visit")
    /\ \E e \in Listeners \cup {Nil} :
          IsFirst(e, After(element[t])) /\ element' = [element EXCEPT ![t] = e]
    /\ UNCHANGED <<lock, list, rank, added, event, sent, got, joined, cut>>

(* and unlocks at the end of the list.                                      *)
EndVisit(t) ==
    /\ Done(t, "visit")
    /\ element[t] = Nil
    /\ lock' = NoThread
    /\ UNCHANGED <<list, rank, added, sent, got, joined, cut>>

(* The deferred Unlock frees the mutex when a callback panics under a       *)
(* caller of Resolve that recovers; the listeners behind it are not called. *)
(* A panic that nobody recovers ends the program.                           *)
CallbackPanics(t) ==
    /\ Done(t, "callback")
    /\ lock' = NoThread
    /\ cut' = cut \cup {event[t]}
    /\ UNCHANGED <<list, rank, added, sent, got, joined>>

(* A callback that adds or cancels a listener, or dispatches, waits for the *)
(* mutex its own goroutine holds.  It has no further step.                  *)
Reenter(t) ==
    /\ Goto(t, "callback", "reentered")
    /\ UNCHANGED <<lock, list, rank, added, element, event, sent, got, joined, cut>>

-----------------------------------------------------------------------------
Step(t) == PushBack(t) \/ Remove(t) \/ Visit(t) \/ Call(t) \/ Return(t) \/ EndVisit(t)

Next == \E t \in Threads :
    \/ CallVisit(t) \/ Step(t) \/ CallbackPanics(t) \/ Reenter(t)
    \/ \E l \in Listeners : CallAdd(t, l) \/ CallCancel(t, l)

Spec == Init /\ [][Next]_vars

(* Goroutines that can run do, the mutex among them, and callbacks return.  *)
FairSpec == Spec /\ \A t \in Threads : WF_vars(Step(t))

-----------------------------------------------------------------------------
Places == {"idle", "add", "cancel", "dispatch", "visit", "callback", "reentered"}

TypeOK ==
    /\ lock \in Threads \cup {NoThread}
    /\ list \in SUBSET Listeners
    /\ rank \in [Listeners -> Nat]
    /\ added \in Nat
    /\ pc \in [Threads -> Places]
    /\ element \in [Threads -> Listeners \cup {Nil}]
    /\ event \in [Threads -> Nat]
    /\ sent \in Nat
    /\ got \in [Listeners -> SUBSET Nat]
    /\ joined \in [Listeners -> Nat]
    /\ cut \in SUBSET Nat

Visiting(t) == pc[t] \in {"visit", "callback", "reentered"}

(* One visit at a time, and while it lasts the list is as it was.           *)
LockInv == \A t \in Threads : Visiting(t) <=> lock = t

VisitInv == \A t \in Threads : Visiting(t) =>
    /\ event[t] = sent /\ sent > 0
    /\ pc[t] # "visit" => element[t] \in list
    /\ element[t] \in list \cup {Nil}

AddInv == \A t \in Threads : pc[t] \in {"add", "cancel"} =>
    /\ element[t] \in Listeners
    /\ pc[t] = "cancel" => rank[element[t]] # 0
    /\ pc[t] = "add" => /\ rank[element[t]] = 0
                        /\ \A u \in Threads : pc[u] = "add" /\ element[u] = element[t] => u = t

RankInv ==
    /\ \A l \in Listeners : rank[l] <= added
    /\ \A l \in list : rank[l] # 0
    /\ \A l, k \in Listeners : rank[l] = rank[k] /\ rank[l] # 0 => l = k

(* Who is yet to be called in the visit under way. *)
Due(l) == \E t \in Threads :
    /\ Visiting(t) /\ l \in list /\ element[t] # Nil
    /\ rank[l] >= rank[element[t]]
    /\ pc[t] # "visit" => l # element[t]

(* A visit has told its event to those in the list who are not due any      *)
(* more, and to nobody else.                                                *)
GotInv ==
    /\ \A l \in Listeners : rank[l] = 0 => got[l] = {}
    /\ \A l \in Listeners : got[l] \subseteq 1 .. sent
    /\ lock # NoThread =>
          \A l \in Listeners : sent \in got[l] <=> l \in list /\ ~Due(l)

(* Whatever a listener was told, those before it in the list know already,  *)
(* also in the middle of a visit, and after one that a panic ended.         *)
EldersHearFirst ==
    \A l \in list : \A k \in Listeners : rank[l] < rank[k] => got[k] \subseteq got[l]

IInv ==
    /\ TypeOK /\ LockInv /\ VisitInv /\ AddInv /\ RankInv
    /\ GotInv /\ EldersHearFirst

(* Because the mutex is held throughout, a visit is as if every listener    *)
(* had been called at its beginning: listeners implement a broadcast.  A    *)
(* panic cuts short what nobody has seen of it yet.                         *)
B == INSTANCE Broadcast WITH
        known      <- {l \in Listeners : rank[l] # 0},
        registered <- list,
        got        <- [l \in Listeners |-> IF Due(l) THEN got[l] \cup {sent} ELSE got[l]]

ImplementsBroadcast == B!Spec

(* Between visits, a listener has been told of every event since it was     *)
(* added, up to the last one if it has not been cancelled, and else up to   *)
(* some event; of those a panic cut short it may lack any.                  *)
NoGapsAtRest == lock = NoThread => \A l \in Listeners :
    /\ \A i \in got[l] : joined[l] < i /\ (joined[l] + 1 .. i) \ cut \subseteq got[l]
    /\ l \in list => (joined[l] + 1 .. sent) \ cut \subseteq got[l]

(* "Cancels any future events sent to that listener": once a cancellation   *)
(* has returned, also while another goroutine visits, no call is made.      *)
CancelIsFinal ==
    [][\A l \in Listeners : rank[l] # 0 /\ l \notin list => got'[l] = got[l]]_vars

(* Unless a callback calls back, everyone who adds, cancels or dispatches   *)
(* is done some day, whichever callbacks panic.                             *)
OnlyReentryBlocks ==
    [](\A t \in Threads : pc[t] # "reentered") =>
        \A t \in Threads : pc[t] # "idle" ~> pc[t] = "idle"
=============================================================================
