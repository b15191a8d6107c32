-------------------------- MODULE ListenersProofs --------------------------
(***************************************************************************)
(* listeners.go implements a broadcast, for any goroutines and listeners.  *)
(***************************************************************************)
EXTENDS Listeners, TLAPS

(* Every step keeps the types. *)
LEMMA TypeStep == IInv /\ [Next]_vars => TypeOK'
<1> SUFFICES ASSUME IInv, [Next]_vars PROVE TypeOK'
  OBVIOUS
<1> USE DEF IInv, TypeOK
<1>1. ASSUME NEW t \in Threads, PushBack(t) \/ Remove(t) \/ EndVisit(t) \/ CallbackPanics(t)
      PROVE  TypeOK'
  <2>1. pc[t] = "add" => element[t] \in Listeners
    BY DEF AddInv
  <2>2. pc' \in [Threads -> Places] /\ element' \in [Threads -> Listeners \cup {Nil}]
        /\ event' \in [Threads -> Nat]
    BY <1>1 DEF PushBack, Remove, EndVisit, CallbackPanics, Done, Goto, Places
  <2>3. CASE PushBack(t)
    BY <2>1, <2>2, <2>3 DEF PushBack, Done, Goto
  <2>4. CASE Remove(t)
    BY <2>2, <2>4 DEF Remove
  <2>5. CASE EndVisit(t) \/ CallbackPanics(t)
    BY <2>2, <2>5 DEF EndVisit, CallbackPanics
  <2> QED
    BY <1>1, <2>3, <2>4, <2>5
<1>2. ASSUME NEW t \in Threads, NEW l \in Listeners, CallAdd(t, l) \/ CallCancel(t, l)
      PROVE  TypeOK'
  BY <1>2 DEF CallAdd, CallCancel, Goto, Places
<1>3. ASSUME NEW t \in Threads, CallVisit(t) \/ Reenter(t) PROVE TypeOK'
  BY <1>3 DEF CallVisit, Reenter, Goto, Places
<1>4. ASSUME NEW t \in Threads, Visit(t) PROVE TypeOK'
  BY <1>4 DEF Visit, Goto, Places
<1>5. ASSUME NEW t \in Threads, Call(t) PROVE TypeOK'
  BY <1>5 DEF Call, Goto, Places
<1>6. ASSUME NEW t \in Threads, Return(t) PROVE TypeOK'
  BY <1>6 DEF Return, Goto, Places
<1>7. CASE UNCHANGED vars
  BY <1>7 DEF vars
<1> QED
  BY <1>1, <1>2, <1>3, <1>4, <1>5, <1>6, <1>7 DEF Next, Step

(* The mutex is held for as long as a visit lasts. *)
LEMMA LockStep == IInv /\ [Next]_vars => LockInv'
<1> SUFFICES ASSUME IInv, [Next]_vars PROVE LockInv'
  OBVIOUS
<1> USE NoThreadAssumption DEF IInv, TypeOK, LockInv, Visiting, Goto, Done
<1>1. ASSUME NEW t \in Threads, PushBack(t) \/ Remove(t) \/ CallVisit(t) PROVE LockInv'
  BY <1>1 DEF PushBack, Remove, CallVisit
<1>2. ASSUME NEW t \in Threads, NEW l \in Listeners, CallAdd(t, l) \/ CallCancel(t, l)
      PROVE  LockInv'
  BY <1>2 DEF CallAdd, CallCancel
<1>3. ASSUME NEW t \in Threads, Call(t) \/ Return(t) \/ Reenter(t) PROVE LockInv'
  BY <1>3 DEF Call, Return, Reenter
<1>4. ASSUME NEW t \in Threads, Visit(t) PROVE LockInv'
  BY <1>4 DEF Visit
<1>5. ASSUME NEW t \in Threads, EndVisit(t) \/ CallbackPanics(t) PROVE LockInv'
  BY <1>5 DEF EndVisit, CallbackPanics
<1>6. CASE UNCHANGED vars
  BY <1>6 DEF vars
<1> QED
  BY <1>1, <1>2, <1>3, <1>4, <1>5, <1>6 DEF Next, Step

(* The list does not change under a visit. *)
LEMMA VisitStep == IInv /\ [Next]_vars => VisitInv'
<1> SUFFICES ASSUME IInv, [Next]_vars PROVE VisitInv'
  OBVIOUS
<1> USE NoThreadAssumption DEF IInv, TypeOK, LockInv, VisitInv, Visiting, Goto, Done
<1>1. ASSUME NEW t \in Threads, PushBack(t) \/ Remove(t) PROVE VisitInv'
  BY <1>1 DEF PushBack, Remove
<1>2. ASSUME NEW t \in Threads, NEW l \in Listeners, CallAdd(t, l) \/ CallCancel(t, l)
      PROVE  VisitInv'
  BY <1>2 DEF CallAdd, CallCancel
<1>3. ASSUME NEW t \in Threads, CallVisit(t) \/ Call(t) \/ Reenter(t) PROVE VisitInv'
  BY <1>3 DEF CallVisit, Call, Reenter
<1>4. ASSUME NEW t \in Threads, Visit(t) PROVE VisitInv'
  BY <1>4 DEF Visit, IsFirst
<1>5. ASSUME NEW t \in Threads, Return(t) PROVE VisitInv'
  BY <1>5 DEF Return, IsFirst, After
<1>6. ASSUME NEW t \in Threads, EndVisit(t) \/ CallbackPanics(t) PROVE VisitInv'
  BY <1>6 DEF EndVisit, CallbackPanics
<1>7. CASE UNCHANGED vars
  BY <1>7 DEF vars
<1> QED
  BY <1>1, <1>2, <1>3, <1>4, <1>5, <1>6, <1>7 DEF Next, Step

(* Two goroutines do not add one element, nor is one cancelled unadded. *)
LEMMA AddStep == IInv /\ [Next]_vars => AddInv'
<1> SUFFICES ASSUME IInv, [Next]_vars PROVE AddInv'
  OBVIOUS
<1> USE DEF IInv, TypeOK, AddInv, Goto, Done
<1>1. ASSUME NEW t \in Threads, PushBack(t) PROVE AddInv'
  BY <1>1 DEF PushBack
<1>2. ASSUME NEW t \in Threads, NEW l \in Listeners, CallAdd(t, l) \/ CallCancel(t, l)
      PROVE  AddInv'
  BY <1>2 DEF CallAdd, CallCancel
<1>3. ASSUME NEW t \in Threads, Visit(t) \/ Return(t) PROVE AddInv'
  BY <1>3 DEF Visit, Return
<1>4. ASSUME NEW t \in Threads,
             Remove(t) \/ CallVisit(t) \/ Call(t) \/ EndVisit(t) \/ CallbackPanics(t) \/ Reenter(t)
      PROVE  AddInv'
  BY <1>4 DEF Remove, CallVisit, Call, EndVisit, CallbackPanics, Reenter
<1>5. CASE UNCHANGED vars
  BY <1>5 DEF vars
<1> QED
  BY <1>1, <1>2, <1>3, <1>4, <1>5 DEF Next, Step

(* An element's place in the list is its own. *)
LEMMA RankStep == IInv /\ [Next]_vars => RankInv'
<1> SUFFICES ASSUME IInv, [Next]_vars PROVE RankInv'
  OBVIOUS
<1> USE DEF IInv, TypeOK, RankInv
<1>1. ASSUME NEW t \in Threads, PushBack(t) PROVE RankInv'
  <2>1. element[t] \in Listeners /\ rank[element[t]] = 0
    BY <1>1 DEF PushBack, Done, Goto, AddInv
  <2> QED
    BY <1>1, <2>1 DEF PushBack
<1>2. ASSUME NEW t \in Threads, Remove(t) PROVE RankInv'
  BY <1>2 DEF Remove
<1>3. CASE UNCHANGED <<list, rank, added>>
  BY <1>3
<1> QED
  BY <1>1, <1>2, <1>3
  DEF Next, Step, CallVisit, Visit, Call, Return, EndVisit, CallbackPanics, Reenter, CallAdd,
      CallCancel, vars

-----------------------------------------------------------------------------
(* Nobody is due when nobody visits. *)
LEMMA NoneDue ==
    ASSUME IInv, lock = NoThread, NEW l \in Listeners
    PROVE  ~Due(l)
BY NoThreadAssumption DEF IInv, LockInv, Due

(* Only the holder of the mutex has anybody due. *)
LEMMA DueIn ==
    ASSUME IInv, NEW t \in Threads, lock = t, NEW l \in Listeners
    PROVE  Due(l) <=> /\ l \in list /\ element[t] # Nil
                      /\ rank[l] >= rank[element[t]]
                      /\ pc[t] # "visit" => l # element[t]
BY NoThreadAssumption DEF IInv, LockInv, Due

(* During a visit, after a step, those are due who are not before its *)
(* element.                                                           *)
LEMMA DueIn2 ==
    ASSUME LockInv', NEW t \in Threads, lock' = t, NEW l \in Listeners
    PROVE  Due(l)' <=> /\ l \in list' /\ element'[t] # Nil
                       /\ rank'[l] >= rank'[element'[t]]
                       /\ pc'[t] # "visit" => l # element'[t]
BY NoThreadAssumption DEF IInv, LockInv, Due

(* Between visits, after a step, nobody is due. *)
LEMMA NoneDue2 ==
    ASSUME LockInv', lock' = NoThread, NEW l \in Listeners
    PROVE  ~Due(l)'
BY NoThreadAssumption DEF IInv, LockInv, Due

(* Who is due depends on nothing but the visit under way. *)
LEMMA DueStays ==
    ASSUME NEW t \in Threads, ~Visiting(t), ~Visiting(t)',
           UNCHANGED <<list, rank>>, NEW l,
           \A u \in Threads \ {t} : pc'[u] = pc[u] /\ element'[u] = element[u]
    PROVE  Due(l)' <=> Due(l)
BY DEF Due, Visiting

(* What a goroutine does before it takes the mutex. *)
LEMMA Requests ==
    ASSUME IInv, NEW t \in Threads,
           CallVisit(t) \/ \E l \in Listeners : CallAdd(t, l) \/ CallCancel(t, l)
    PROVE  /\ ~Visiting(t) /\ ~Visiting(t)'
           /\ UNCHANGED <<lock, list, rank, sent, got, joined, cut>>
           /\ \A u \in Threads \ {t} : pc'[u] = pc[u] /\ element'[u] = element[u]
BY DEF CallVisit, CallAdd, CallCancel, Goto, IInv, TypeOK, Visiting

(* The first call of a visit is due for everyone in the list. *)
LEMMA AllDue ==
    ASSUME IInv, LockInv', NEW t \in Threads, Visit(t), NEW l \in Listeners
    PROVE  Due(l)' <=> l \in list
<1>1. lock = NoThread /\ lock' = t /\ list' = list /\ pc'[t] = "visit" /\ rank' = rank
  BY DEF Visit, Goto, IInv, TypeOK
<1>2. IsFirst(element'[t], list)
  BY DEF Visit, IInv, TypeOK
<1>3. l \in list => element'[t] # Nil /\ rank[l] >= rank[element'[t]]
  BY <1>2, NilAssumption DEF IsFirst, IInv, TypeOK
<1> QED
  BY <1>1, <1>3, DueIn2

(* A call is no longer due when it is made; *)
LEMMA CallDue ==
    ASSUME IInv, LockInv', NEW t \in Threads, Call(t), NEW l \in Listeners
    PROVE  /\ event[t] = sent /\ element[t] \in list /\ Due(element[t])
           /\ Due(l)' <=> Due(l) /\ l # element[t]
           /\ got'[l] = IF l = element[t] THEN got[l] \cup {sent} ELSE got[l]
<1>1. /\ lock = t /\ list' = list /\ rank' = rank /\ sent' = sent
      /\ element' = element /\ lock' = t /\ pc[t] = "visit" /\ pc'[t] = "callback"
      /\ event[t] = sent /\ element[t] \in list /\ list \subseteq Listeners
  BY DEF Call, Goto, IInv, TypeOK, LockInv, VisitInv, Visiting
<1>2. Due(l)' <=> Due(l) /\ l # element[t]
  BY <1>1, DueIn, DueIn2
<1>3. got'[l] = IF l = element[t] THEN got[l] \cup {sent} ELSE got[l]
  BY <1>1 DEF Call, IInv, TypeOK
<1>4. Due(element[t])
  BY <1>1, DueIn, NilAssumption DEF IInv, TypeOK
<1> QED
  BY <1>1, <1>2, <1>3, <1>4

(* the others stay due while the visit goes on. *)
LEMMA GoingOn ==
    ASSUME IInv, LockInv', NEW t \in Threads, Return(t) \/ Reenter(t), NEW l \in Listeners
    PROVE  Due(l)' <=> Due(l)
<1>1. lock = t /\ lock' = t /\ list' = list /\ rank' = rank
  BY DEF Return, Reenter, Goto, IInv, LockInv, Visiting
<1>2. CASE Return(t)
  <2>1. /\ pc[t] = "callback" /\ pc'[t] = "visit"
        /\ element[t] \in list /\ list \subseteq Listeners
        /\ IsFirst(element'[t], After(element[t]))
    BY <1>1, <1>2 DEF Return, Goto, IInv, TypeOK, VisitInv, Visiting
  <2>2. \A k \in Listeners : rank[k] \in Nat
    BY DEF IInv, TypeOK
  <2>3. Due(l) <=> l \in list /\ rank[l] > rank[element[t]]
    <3>1. l \in list /\ rank[l] = rank[element[t]] => l = element[t]
      BY <2>1 DEF IInv, RankInv
    <3> QED
      BY <1>1, <2>1, <2>2, <3>1, DueIn, NilAssumption
  <2>4. Due(l)' <=> l \in list /\ element'[t] # Nil /\ rank[l] >= rank[element'[t]]
    BY <1>1, <2>1, DueIn2
  <2>5. After(element[t]) = {k \in list : rank[k] > rank[element[t]]}
    BY <2>1 DEF After
  <2> QED
    BY <2>1, <2>2, <2>3, <2>4, <2>5, NilAssumption DEF IsFirst
<1>3. CASE Reenter(t)
  <2>1. element' = element /\ pc[t] = "callback" /\ pc'[t] = "reentered"
    BY <1>3 DEF Reenter, Goto, IInv, TypeOK
  <2> QED
    BY <1>1, <2>1, DueIn, DueIn2
<1> QED
  BY <1>2, <1>3

(* A visit that has told its event to an element has told it to those *)
(* before.                                                            *)
LEMMA GotStep == IInv /\ LockInv' /\ [Next]_vars => GotInv'
<1> SUFFICES ASSUME IInv, LockInv', [Next]_vars PROVE GotInv'
  OBVIOUS
<1> USE NoThreadAssumption DEF IInv, TypeOK, GotInv
<1>1. ASSUME NEW t \in Threads, PushBack(t) \/ Remove(t) PROVE GotInv'
  BY <1>1 DEF PushBack, Remove, Done, Goto, AddInv
<1>2. ASSUME NEW t \in Threads,
             CallVisit(t) \/ \E l \in Listeners : CallAdd(t, l) \/ CallCancel(t, l)
      PROVE  GotInv'
  BY <1>2, Requests, DueStays
<1>3. ASSUME NEW t \in Threads, Visit(t) PROVE GotInv'
  <2>1. /\ sent \in Nat /\ sent' = sent + 1 /\ lock' = t
        /\ UNCHANGED <<list, rank, got>>
    BY <1>3 DEF Visit
  <2>2. \A l \in Listeners : Due(l)' <=> l \in list
    BY <1>3, AllDue
  <2>3. \A l \in Listeners : got[l] \subseteq 1 .. sent
    OBVIOUS
  <2>4. \A l \in Listeners : got[l] \subseteq 1 .. sent' /\ sent' \notin got[l]
    BY <2>1, <2>3
  <2> QED
    BY <2>1, <2>2, <2>4
<1>4. ASSUME NEW t \in Threads, Call(t) PROVE GotInv'
  <2>1. /\ lock = t /\ lock' = t /\ sent > 0
        /\ UNCHANGED <<list, rank, sent>>
    BY <1>4 DEF Call, Goto, LockInv, VisitInv, Visiting
  <2>2. ASSUME NEW l \in Listeners
        PROVE  /\ element[t] \in list
               /\ Due(l)' <=> Due(l) /\ l # element[t]
               /\ got'[l] = IF l = element[t] THEN got[l] \cup {sent} ELSE got[l]
    BY <1>4, CallDue
  <2>3. ASSUME NEW l \in Listeners, rank'[l] = 0 PROVE got'[l] = {}
    BY <2>1, <2>2, <2>3 DEF RankInv
  <2>4. ASSUME NEW l \in Listeners PROVE got'[l] \subseteq 1 .. sent'
    <3>1. sent \in 1 .. sent /\ got[l] \subseteq 1 .. sent /\ sent' = sent
      BY <2>1
    <3>2. got'[l] = got[l] \/ got'[l] = got[l] \cup {sent}
      BY <2>2
    <3> QED
      BY <3>1, <3>2
  <2>5. ASSUME NEW l \in Listeners PROVE sent' \in got'[l] <=> l \in list' /\ ~Due(l)'
    BY <2>1, <2>2
  <2> QED
    BY <2>3, <2>4, <2>5
<1>5. ASSUME NEW t \in Threads, Return(t) \/ Reenter(t) PROVE GotInv'
  BY <1>5, GoingOn DEF Return, Reenter
<1>6. ASSUME NEW t \in Threads, EndVisit(t) \/ CallbackPanics(t) PROVE GotInv'
  BY <1>6 DEF EndVisit, CallbackPanics
<1>7. CASE UNCHANGED vars
  BY <1>7 DEF vars, Due, Visiting
<1> QED
  BY <1>1, <1>2, <1>3, <1>4, <1>5, <1>6, <1>7 DEF Next, Step

(* An element is called when all before it have been, and is added after *)
(* them.                                                                 *)
LEMMA EldersStep == IInv /\ LockInv' /\ [Next]_vars => EldersHearFirst'
<1> SUFFICES ASSUME IInv, LockInv', [Next]_vars,
                    NEW l \in list', NEW k \in Listeners, rank'[l] < rank'[k]
             PROVE  got'[k] \subseteq got'[l]
  BY DEF EldersHearFirst
<1> USE DEF IInv, TypeOK
<1>1. ASSUME NEW t \in Threads, PushBack(t) PROVE got'[k] \subseteq got'[l]
  <2>1. /\ element[t] \in Listeners /\ rank[element[t]] = 0 /\ got' = got
        /\ list' = list \cup {element[t]}
        /\ rank' = [rank EXCEPT ![element[t]] = added + 1]
    BY <1>1 DEF PushBack, Done, Goto, AddInv
  <2>2. l # element[t]
    BY <2>1 DEF RankInv
  <2>3. k = element[t] => got[k] = {}
    BY <2>1 DEF GotInv
  <2> QED
    BY <2>1, <2>2, <2>3 DEF EldersHearFirst
<1>2. ASSUME NEW t \in Threads, Call(t) PROVE got'[k] \subseteq got'[l]
  <2>1. /\ lock = t /\ UNCHANGED <<list, rank>>
        /\ l \in Listeners /\ got[k] \subseteq got[l]
    BY <1>2 DEF Call, Goto, LockInv, Visiting, EldersHearFirst
  <2>2. k = element[t] => sent \in got[l]
    BY <1>2, <2>1, DueIn, NoThreadAssumption DEF GotInv
  <2>3. ASSUME NEW m \in Listeners
        PROVE  got'[m] = IF m = element[t] THEN got[m] \cup {sent} ELSE got[m]
    BY <1>2, CallDue
  <2> QED
    BY <2>1, <2>2, <2>3
<1>3. ASSUME NEW t \in Threads, Remove(t) PROVE got'[k] \subseteq got'[l]
  BY <1>3 DEF Remove, EldersHearFirst
<1>4. CASE UNCHANGED <<list, rank, got>>
  BY <1>4 DEF EldersHearFirst
<1> QED
  BY <1>1, <1>2, <1>3, <1>4
  DEF Next, Step, CallVisit, CallAdd, CallCancel, Visit, Return, EndVisit, CallbackPanics,
      Reenter, vars

(* Types, the mutex, visits, additions, the order of the list, and what has *)
(* been told to whom.                                                       *)
THEOREM InductiveInvariant == Spec => []IInv
<1>1. Init => IInv
  BY NoThreadAssumption
  DEF Init, IInv, TypeOK, Places, LockInv, VisitInv, AddInv, RankInv, Visiting, GotInv,
      EldersHearFirst
<1>2. IInv /\ [Next]_vars => IInv'
  BY TypeStep, LockStep, VisitStep, AddStep, RankStep, GotStep, EldersStep DEF IInv
<1> QED
  BY <1>1, <1>2, PTL DEF Spec

(* Whoever comes earlier in the list has heard of all a later one has. *)
THEOREM EldersHearFirstHolds == Spec => []EldersHearFirst
BY InductiveInvariant, PTL DEF IInv

-----------------------------------------------------------------------------
(* The refinement.  Got is what each listener will have been told of once   *)
(* the visit under way is over.                                             *)
Known == {l \in Listeners : rank[l] # 0}
Got   == [l \in Listeners |-> IF Due(l) THEN got[l] \cup {sent} ELSE got[l]]

(* The steps outside a visit. *)
LEMMA AtRest ==
    ASSUME IInv, IInv', lock = NoThread, lock' = NoThread, UNCHANGED got
    PROVE  UNCHANGED Got
BY NoneDue, NoneDue2 DEF Got, IInv

(* An addition is a broadcast's Add, a removal its Cancel. *)
LEMMA AddsRefine ==
    ASSUME IInv, IInv', NEW t \in Threads, PushBack(t) \/ Remove(t)
    PROVE  B!Next
<1>1. UNCHANGED Got
  BY AtRest DEF PushBack, Remove
<1>2. element[t] \in Listeners
  BY DEF PushBack, Remove, Done, Goto, IInv, AddInv
<1>3. CASE PushBack(t)
  <2>1. element[t] \notin Known /\ Known' = Known \cup {element[t]}
    BY <1>2, <1>3 DEF PushBack, Done, Goto, IInv, AddInv, TypeOK, Known
  <2>2. B!Add(element[t])
    BY <1>1, <1>3, <2>1 DEF B!Add, PushBack, Known, Got
  <2> QED
    BY <1>2, <2>2 DEF B!Next, B!Add
<1>4. CASE Remove(t)
  <2>1. element[t] \in Known /\ Known' = Known
    BY <1>2, <1>4 DEF Remove, Done, Goto, IInv, AddInv, Known
  <2>2. B!Cancel(element[t])
    BY <1>1, <1>4, <2>1 DEF B!Cancel, Remove, Known, Got
  <2> QED
    BY <1>2, <2>2 DEF B!Next, B!Cancel
<1> QED
  BY <1>3, <1>4

(* A visit is a broadcast as soon as it begins; *)
LEMMA VisitRefines ==
    ASSUME IInv, IInv', NEW t \in Threads, Visit(t)
    PROVE  B!Next
<1>1. lock = NoThread /\ sent' = sent + 1 /\ UNCHANGED <<list, got, joined, cut, Known>>
  BY DEF Visit, Known
<1>2. Got' = [l \in Listeners |-> IF l \in list THEN Got[l] \cup {sent'} ELSE Got[l]]
  BY <1>1, AllDue, NoneDue DEF Got, IInv
<1>3. B!Send
  BY <1>1, <1>2 DEF B!Send, Known, Got
<1> QED
  BY <1>3 DEF B!Next

(* a panic takes it back from those who are due; *)
LEMMA PanicRefines ==
    ASSUME IInv, IInv', NEW t \in Threads, CallbackPanics(t)
    PROVE  B!Next
<1>1. /\ lock = t /\ lock' = NoThread /\ event[t] = sent /\ sent > 0
      /\ UNCHANGED <<list, rank, sent, got, joined>> /\ cut' = cut \cup {sent}
  BY DEF CallbackPanics, Done, Goto, IInv, LockInv, VisitInv, Visiting
<1> DEFINE losers == {l \in list : Due(l)}
<1>2. ASSUME NEW l \in Listeners
      PROVE  /\ ~Due(l)'
             /\ Due(l) => l \in losers /\ sent \notin got[l]
             /\ l \in losers => Due(l)
  BY <1>1, NoneDue2, DueIn, NoThreadAssumption DEF IInv, GotInv
<1>3. losers \subseteq list
  OBVIOUS
<1> HIDE DEF losers
<1>4. Got' = [l \in Listeners |-> IF l \in losers THEN Got[l] \ {sent} ELSE Got[l]]
  BY <1>1, <1>2 DEF Got
<1>5. B!CutShort
  BY <1>1, <1>3, <1>4 DEF B!CutShort, Got
<1> QED
  BY <1>5 DEF B!Next

(* the rest of it is no step at all. *)
LEMMA CallsStutter ==
    ASSUME IInv, IInv', NEW t \in Threads,
           Call(t) \/ Return(t) \/ EndVisit(t) \/ Reenter(t)
    PROVE  UNCHANGED Got
<1>1. sent' = sent
  BY DEF Call, Return, EndVisit, Reenter
<1> SUFFICES ASSUME NEW l \in Listeners PROVE Got'[l] = Got[l]
  BY DEF Got
<1>2. CASE Call(t)
  BY <1>1, <1>2, CallDue DEF Got, IInv
<1>3. CASE Return(t) \/ Reenter(t)
  <2>1. got' = got
    BY <1>3 DEF Return, Reenter
  <2> QED
    BY <1>1, <1>3, <2>1, GoingOn DEF Got, IInv
<1>4. CASE EndVisit(t)
  <2>1. /\ element[t] = Nil /\ lock' = NoThread /\ got' = got
        /\ lock = t
    BY <1>4 DEF EndVisit, Done, Goto, IInv, LockInv, Visiting
  <2>2. ~Due(l) /\ ~Due(l)'
    BY <2>1, DueIn, NoneDue2 DEF IInv
  <2> QED
    BY <2>1, <2>2 DEF Got
<1> QED
  BY <1>2, <1>3, <1>4

(* Adding, cancelling and visiting are steps of a broadcast, in which every *)
(* event is told to all at once.                                            *)
THEOREM BroadcastImplemented == Spec => ImplementsBroadcast
<1>1. Init => B!Init
  BY DEF Init, B!Init, Due, Visiting
<1>2. IInv /\ IInv' /\ [Next]_vars => [B!Next]_(B!vars)
  <2> SUFFICES ASSUME IInv, IInv', [Next]_vars PROVE B!Next \/ UNCHANGED B!vars
    OBVIOUS
  <2>1. ASSUME NEW t \in Threads, PushBack(t) \/ Remove(t) \/ Visit(t) \/ CallbackPanics(t)
        PROVE  B!Next
    BY <2>1, AddsRefine, VisitRefines, PanicRefines
  <2>2. ASSUME NEW t \in Threads, Call(t) \/ Return(t) \/ EndVisit(t) \/ Reenter(t)
        PROVE  UNCHANGED B!vars
    <3>1. UNCHANGED <<list, rank, sent, joined, cut>>
      BY <2>2 DEF Call, Return, EndVisit, Reenter
    <3> QED
      BY <2>2, <3>1, CallsStutter DEF B!vars, Got
  <2>3. ASSUME NEW t \in Threads,
               CallVisit(t) \/ \E l \in Listeners : CallAdd(t, l) \/ CallCancel(t, l)
        PROVE  UNCHANGED B!vars
    <3>1. UNCHANGED Got
      BY <2>3, Requests, DueStays DEF Got
    <3> QED
      BY <2>3, <3>1, Requests DEF B!vars, Got
  <2>4. CASE UNCHANGED vars
    <3>1. UNCHANGED <<list, rank, sent, joined, cut, Got>>
      BY <2>4 DEF vars, Got, Due, Visiting
    <3> QED
      BY <3>1 DEF B!vars, Got
  <2> QED
    BY <2>1, <2>2, <2>3, <2>4 DEF Next, Step
<1> QED
  BY <1>1, <1>2, InductiveInvariant, PTL DEF Spec, ImplementsBroadcast, B!Spec

(* What a broadcast promises therefore holds of every listener whenever     *)
(* nobody visits.                                                           *)
BP == INSTANCE BroadcastProofs WITH
        known      <- {l \in Listeners : rank[l] # 0},
        registered <- list,
        got        <- [l \in Listeners |-> IF Due(l) THEN got[l] \cup {sent} ELSE got[l]]

(* Between visits a listener has missed no event since it was added, but    *)
(* for those that a panic cut short: the mutex in listeners.visit and the   *)
(* order of the list make it a broadcast.                                   *)
THEOREM NoGapsAtRestHolds == Spec => []NoGapsAtRest
<1>1. Spec => BP!Spec
  <2>1. B!Init => BP!Init
    BY DEF B!Init, BP!Init
  <2>2. [B!Next]_(B!vars) => [BP!Next]_(BP!vars)
    BY DEF B!Next, B!vars, B!Add, B!Cancel, B!Send, B!CutShort, BP!Next,
       BP!vars, BP!Add, BP!Cancel, BP!Send, BP!CutShort
  <2> QED
    BY <2>1, <2>2, BroadcastImplemented, PTL DEF ImplementsBroadcast, B!Spec, BP!Spec
<1>2. IInv /\ BP!NoGaps => NoGapsAtRest
  BY NoneDue DEF BP!NoGaps, NoGapsAtRest
<1> QED
  BY <1>1, <1>2, InductiveInvariant, BP!NoGapsHolds, PTL

(* The call a visit is about to make is of an element that is in the list:  *)
(* nobody cancelled it after the visit came to it.                          *)
THEOREM CancelIsFinalHolds == Spec => CancelIsFinal
<1>1. ASSUME IInv, [Next]_vars
      PROVE  [\A l \in Listeners : rank[l] # 0 /\ l \notin list => got'[l] = got[l]]_vars
  <2>1. ASSUME NEW t \in Threads, Call(t)
        PROVE  \A l \in Listeners : l \notin list => got'[l] = got[l]
    BY <1>1, <2>1 DEF Call, Goto, IInv, TypeOK, VisitInv, Visiting
  <2>2. CASE UNCHANGED got
    BY <2>2
  <2> QED
    BY <1>1, <2>1, <2>2
    DEF Next, Step, CallAdd, CallCancel, CallVisit, PushBack, Remove, Visit, Return, EndVisit,
        CallbackPanics, Reenter, vars
<1> QED
  BY <1>1, InductiveInvariant, PTL DEF Spec, CancelIsFinal
=============================================================================
