----------------------------- MODULE Broadcast -----------------------------
(***************************************************************************)
(* What the resolver and the refresher want of listeners.go, and what      *)
(* Resolver and Refresher take for granted when they deliver an event in   *)
(* one step: an event goes to everyone who is registered, at once.  Events *)
(* are numbered in the order in which they are sent.                       *)
(*                                                                         *)
(* A panic may cut the last event short: some lose it again, who have not  *)
(* seen it yet.                                                            *)
(***************************************************************************)
EXTENDS Naturals

CONSTANT Listeners

VARIABLES
    known,        \* who has ever been registered
    registered,   \* who is now
    joined,       \* joined[l]: how many events had been sent when l was
    sent,         \* the number of events sent
    got,          \* got[l]: the events l has been told of
    cut           \* the events that were cut short

vars == <<known, registered, joined, sent, got, cut>>

Init ==
    /\ known = {}
    /\ registered = {}
    /\ joined = [l \in Listeners |-> 0]
    /\ sent = 0
    /\ got = [l \in Listeners |-> {}]
    /\ cut = {}

(* Adding a listener a second time gives another registration. *)
Add(l) ==
    /\ l \notin known
    /\ known' = known \cup {l}
    /\ registered' = registered \cup {l}
    /\ joined' = [joined EXCEPT ![l] = sent]
    /\ UNCHANGED <<sent, got, cut>>

(* Cancelling is idempotent. *)
Cancel(l) ==
    /\ l \in known
    /\ registered' = registered \ {l}
    /\ UNCHANGED <<known, joined, sent, got, cut>>

Send ==
    /\ sent' = sent + 1
    /\ got' = [l \in Listeners |-> IF l \in registered THEN got[l] \cup {sent'} ELSE got[l]]
    /\ UNCHANGED <<known, registered, joined, cut>>

CutShort ==
    /\ sent > 0
    /\ \E losers \in SUBSET registered :
          got' = [l \in Listeners |-> IF l \in losers THEN got[l] \ {sent} ELSE got[l]]
    /\ cut' = cut \cup {sent}
    /\ UNCHANGED <<known, registered, joined, sent>>

Next == Send \/ CutShort \/ \E l \in Listeners : Add(l) \/ Cancel(l)

Spec == Init /\ [][Next]_vars

TypeOK ==
    /\ known \in SUBSET Listeners
    /\ registered \in SUBSET known
    /\ joined \in [Listeners -> 0 .. sent]
    /\ sent \in Nat
    /\ got \in [Listeners -> SUBSET (1 .. sent)]
    /\ \A l \in Listeners \ known : got[l] = {}
    /\ cut \in SUBSET (1 .. sent)

(* A listener is told of every event since it was registered that was not   *)
(* cut short, for as long as it is registered.                              *)
NoGaps == \A l \in Listeners :
    /\ \A i \in got[l] : joined[l] < i /\ (joined[l] + 1 .. i) \ cut \subseteq got[l]
    /\ l \in registered => (joined[l] + 1 .. sent) \ cut \subseteq got[l]
=============================================================================
