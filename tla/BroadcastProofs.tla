-------------------------- MODULE BroadcastProofs --------------------------
(* What a broadcast promises, for any listeners. *)
EXTENDS Broadcast, TLAPS

(* Every variable of a broadcast keeps its type. *)
LEMMA TypeCorrect == Spec => []TypeOK
<1>1. Init => TypeOK
  BY DEF Init, TypeOK
<1>2. TypeOK /\ [Next]_vars => TypeOK'
  <2> SUFFICES ASSUME TypeOK, [Next]_vars PROVE TypeOK'
    OBVIOUS
  <2> USE DEF TypeOK
  <2>1. CASE Send
    <3>1. sent \in Nat /\ sent' = sent + 1 /\ 0 .. sent \subseteq 0 .. sent'
      BY <2>1 DEF Send
    <3>2. 1 .. sent \subseteq 1 .. sent' /\ sent' \in 1 .. sent'
      BY <3>1
    <3> QED
      BY <2>1, <3>1, <3>2 DEF Send
  <2>2. CASE CutShort
    <3>1. sent \in 1 .. sent
      BY <2>2 DEF CutShort
    <3> QED
      BY <2>2, <3>1 DEF CutShort
  <2>3. ASSUME NEW l \in Listeners, Add(l) PROVE TypeOK'
    BY <2>3 DEF Add
  <2>4. CASE (\E l \in Listeners : Cancel(l)) \/ UNCHANGED vars
    BY <2>4 DEF Cancel, vars
  <2> QED
    BY <2>1, <2>2, <2>3, <2>4 DEF Next
<1> QED
  BY <1>1, <1>2, PTL DEF Spec

(* A listener is told of every event since it was registered, up to the     *)
(* last one for as long as it is, but for those that were cut short.        *)
THEOREM NoGapsHolds == Spec => []NoGaps
<1>1. Init => NoGaps
  BY DEF Init, NoGaps
<1>2. TypeOK /\ NoGaps /\ [Next]_vars => NoGaps'
  <2> SUFFICES ASSUME TypeOK, NoGaps, [Next]_vars, NEW l \in Listeners
               PROVE  /\ \A i \in got'[l] : /\ joined'[l] < i
                                            /\ (joined'[l] + 1 .. i) \ cut' \subseteq got'[l]
                      /\ l \in registered' => (joined'[l] + 1 .. sent') \ cut' \subseteq got'[l]
    BY DEF NoGaps
  <2> USE DEF TypeOK
  <2>1. /\ \A i \in got[l] : joined[l] < i /\ (joined[l] + 1 .. i) \ cut \subseteq got[l]
        /\ l \in registered => (joined[l] + 1 .. sent) \ cut \subseteq got[l]
        /\ got[l] \subseteq 1 .. sent /\ joined[l] \in 0 .. sent
    BY DEF NoGaps
  <2>2. CASE Send
    <3>1. /\ got'[l] = IF l \in registered THEN got[l] \cup {sent + 1} ELSE got[l]
          /\ sent' = sent + 1 /\ UNCHANGED <<registered, joined, cut>>
      BY <2>2 DEF Send
    <3>2. l \in registered => (joined[l] + 1 .. sent + 1) \ cut \subseteq got'[l]
      BY <2>1, <3>1
    <3> QED
      BY <2>1, <3>1, <3>2
  <2>3. CASE CutShort
    <3>1. /\ got'[l] = got[l] \/ got'[l] = got[l] \ {sent}
          /\ cut' = cut \cup {sent} /\ UNCHANGED <<registered, joined, sent>>
      BY <2>3 DEF CutShort
    <3> QED
      BY <2>1, <3>1
  <2>4. CASE \E k \in Listeners : Add(k)
    BY <2>1, <2>4 DEF Add
  <2>5. CASE (\E k \in Listeners : Cancel(k)) \/ UNCHANGED vars
    BY <2>1, <2>5 DEF Cancel, vars
  <2> QED
    BY <2>2, <2>3, <2>4, <2>5 DEF Next
<1> QED
  BY <1>1, <1>2, TypeCorrect, PTL DEF Spec
=============================================================================
