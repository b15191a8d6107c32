------------------------------ MODULE Flights ------------------------------
(***************************************************************************)
(* What Resolver is for, without its lock, its channels and its cache:     *)
(* calls that want one key ID share a flight.  There is at most one in the *)
(* air for an ID, everyone who does not get a key at once boards it or     *)
(* departs with it, and whoever stays aboard shares its outcome.           *)
(*                                                                         *)
(* A flight is named after the call that departed with it.                 *)
(***************************************************************************)
EXTENDS Keys

CONSTANTS Calls, NoCall

VARIABLES
    wants,     \* the key ID each call wants, NoID before it has begun
    flight,    \* the flight in the air for each key ID, or NoCall
    aboard,    \* the flight each call is or was on, or NoCall
    landed,    \* the flights that are over
    outcome,   \* what they found
    answer     \* what each call returned

vars == <<wants, flight, aboard, landed, outcome, answer>>

None      == [key |-> NoKey, err |-> "nil"]
Found(k)  == [key |-> k, err |-> "nil"]
Failed(e) == [key |-> NoKey, err |-> e]

Init ==
    /\ wants = [c \in Calls |-> NoID]
    /\ flight = [id \in KeyIDs |-> NoCall]
    /\ aboard = [c \in Calls |-> NoCall]
    /\ landed = {}
    /\ outcome = [c \in Calls |-> None]
    /\ answer = [c \in Calls |-> None]

Under(c)     == wants[c] \in KeyIDs /\ answer[c] = None
Answer(c, r) == answer' = [answer EXCEPT ![c] = r]

Ask(c, id) ==
    /\ wants[c] = NoID
    /\ wants' = [wants EXCEPT ![c] = id]
    /\ UNCHANGED <<flight, aboard, landed, outcome, answer>>

(* Somebody has found a key with this ID before. *)
Hit(c) ==
    /\ Under(c) /\ aboard[c] = NoCall
    /\ \E k \in Key : k.kid = wants[c] /\ Answer(c, Found(k))
    /\ UNCHANGED <<wants, flight, aboard, landed, outcome>>

Board(c) ==
    /\ Under(c) /\ aboard[c] = NoCall
    /\ flight[wants[c]] # NoCall
    /\ aboard' = [aboard EXCEPT ![c] = flight[wants[c]]]
    /\ UNCHANGED <<wants, flight, landed, outcome, answer>>

Depart(c) ==
    /\ Under(c) /\ aboard[c] = NoCall
    /\ flight[wants[c]] = NoCall
    /\ flight' = [flight EXCEPT ![wants[c]] = c]
    /\ aboard' = [aboard EXCEPT ![c] = c]
    /\ UNCHANGED <<wants, landed, outcome, answer>>

(* A flight finds a key or fails, and the next may depart. *)
Land(c) ==
    /\ aboard[c] = c /\ c \notin landed
    /\ flight' = [flight EXCEPT ![wants[c]] = NoCall]
    /\ landed' = landed \cup {c}
    /\ \E o \in {Found(k) : k \in Key} \cup {Failed(e) : e \in {"ErrKeyNotFound", "fetch", "ctx"}} :
          outcome' = [outcome EXCEPT ![c] = o]
    /\ UNCHANGED <<wants, aboard, answer>>

(* The outcome is everyone's, but only who departed is told of an error.    *)
Arrive(c) ==
    /\ Under(c) /\ aboard[c] \in landed
    /\ LET o == outcome[aboard[c]]
       IN  Answer(c, IF o.err = "nil" \/ aboard[c] = c THEN o ELSE Failed("ErrKeyNotFound"))
    /\ UNCHANGED <<wants, flight, aboard, landed, outcome>>

(* A passenger need not stay aboard until the end. *)
Leave(c) ==
    /\ Under(c) /\ aboard[c] \notin {c, NoCall}
    /\ Answer(c, Failed("ctx"))
    /\ UNCHANGED <<wants, flight, aboard, landed, outcome>>

Next ==
    \E c \in Calls :
        \/ \E id \in KeyIDs : Ask(c, id)
        \/ Hit(c) \/ Board(c) \/ Depart(c) \/ Land(c) \/ Arrive(c) \/ Leave(c)

Spec == Init /\ [][Next]_vars
=============================================================================
