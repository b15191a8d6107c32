--------------------------- MODULE ResolverProofs ---------------------------
(***************************************************************************)
(* What is true of Resolver for every set of calls, key IDs and responses. *)
(***************************************************************************)
EXTENDS Resolver, TLAPS

(* Storing one key in a ring leaves a ring that has that key, if it has an  *)
(* ID, and every other entry as it was.                                     *)
LEMMA PutOne ==
    ASSUME NEW r \in Rings, WellFiled(r), NEW k \in Key, NEW f \in Put(r, {k})
    PROVE  /\ f \in Rings /\ WellFiled(f)
           /\ k.kid \in KeyIDs => f[k.kid] = k
           /\ \A id \in KeyIDs : id # k.kid => f[id] = r[id]
<1>1. NoKey \notin Key
  BY NoKeyAssumption DEF Key
<1>2. Ids({k}) = {k.kid}
  BY DEF Ids
<1>3. \A id \in KeyIDs : IF id = k.kid THEN f[id] = k ELSE f[id] = r[id]
  BY <1>2 DEF Put
<1> QED
  BY <1>1, <1>3 DEF Put, Rings, WellFiled

(* A key that is selected from a response is one of its keys. *)
LEMMA SelectedKeys ==
    ASSUME NEW id \in KeyIDs, NEW keys \in Responses[id], NEW k \in Selected(keys, id)
    PROVE  k \in keys /\ k \in Key
BY ResponseAssumption DEF Selected

(* A ring is well filed without some of its keys. *)
LEMMA DropRing ==
    ASSUME NEW r \in Rings, WellFiled(r), NEW ids
    PROVE  Drop(r, ids) \in Rings /\ WellFiled(Drop(r, ids))
BY DEF Drop, Rings, WellFiled

-----------------------------------------------------------------------------
(* Every step keeps the types. *)
LEMMA TypeStep == IInv /\ [Next]_vars => TypeOK'
<1> SUFFICES ASSUME IInv, [Next]_vars PROVE TypeOK'
  OBVIOUS
<1> USE NoCallAssumption, NoIDAssumption
<1> USE DEF IInv, TypeOK, Locations, Over, Goto, Result, Errors, Found, Failed, notifyVars
<1>1. ASSUME NEW c \in Calls, NEW d \in Calls, NEW id \in KeyIDs,
             Invoke(c, id) \/ Reenter(c, d, id)
      PROVE  TypeOK'
  <2>1. CASE Invoke(c, id)
    BY <2>1 DEF Invoke
  <2>2. CASE Reenter(c, d, id)
    BY <2>2 DEF Reenter
  <2> QED
    BY <1>1, <2>1, <2>2
<1>2. ASSUME NEW c \in Calls, CheckHit(c) \/ RecheckHit(c) PROVE TypeOK'
  <2>1. arg[c] \in KeyIDs /\ ring[arg[c]] \in Key
    BY <1>2 DEF CheckHit, RecheckHit, Return, InRing, Cached, Rings
  <2>2. Found(ring[arg[c]]) \in Result
    BY <2>1
  <2>3. CASE CheckHit(c)
    BY <2>2, <2>3 DEF CheckHit, Return
  <2>4. CASE RecheckHit(c)
    BY <2>2, <2>4 DEF RecheckHit, Return
  <2> QED
    BY <1>2, <2>3, <2>4
<1>3. ASSUME NEW c \in Calls, CheckMiss(c) \/ RecheckMiss(c) PROVE TypeOK'
  BY <1>3 DEF CheckMiss, RecheckMiss
<1>4. ASSUME NEW c \in Calls, Join(c) \/ Lead(c) PROVE TypeOK'
  <2>1. CASE Join(c)
    <3>1. pending[arg[c]] \in Calls /\ arg[c] # NoID
      BY <2>1 DEF Join
    <3> QED
      BY <2>1, <3>1 DEF Join
  <2>2. CASE Lead(c)
    BY <2>2 DEF Lead
  <2> QED
    BY <1>4, <2>1, <2>2
<1>5. ASSUME NEW c \in Calls, WaitDone(c) \/ WaitCancelled(c) PROVE TypeOK'
  <2>1. request[c] \in closed => value[request[c]] \in Key \cup {NoKey}
    OBVIOUS
  <2>2. CASE WaitDone(c)
    BY <2>1, <2>2 DEF WaitDone, Return
  <2>3. CASE WaitCancelled(c)
    BY <2>3 DEF WaitCancelled, Return
  <2> QED
    BY <1>5, <2>2, <2>3
<1>6. ASSUME NEW c \in Calls, Fetching(c) \/ FetchPanics(c) PROVE TypeOK'
  <2>1. CASE FetchFinds(c)
    <3>1. arg[c] \in KeyIDs
      BY <2>1 DEF FetchFinds
    <3>2. PICK k \in Key : result' = [result EXCEPT ![c] = Found(k)]
      BY <2>1, <3>1, SelectedKeys DEF FetchFinds
    <3> QED
      BY <2>1, <3>2 DEF FetchFinds
  <2>2. CASE FetchFindsNothing(c)
    BY <2>2 DEF FetchFindsNothing
  <2>3. CASE FetchFails(c)
    BY <2>3 DEF FetchFails
  <2>4. CASE FetchPanics(c)
    BY <2>4 DEF FetchPanics
  <2> QED
    BY <1>6, <2>1, <2>2, <2>3, <2>4 DEF Fetching
<1>7. ASSUME NEW c \in Calls, Publish(c) PROVE TypeOK'
  BY <1>7, PutOne DEF Publish, Add
<1>8. ASSUME NEW c \in Calls,
             Cleanup(c) \/ Dispatch(c) \/ Notified(c) \/ ListenerPanics(c) \/ Cancel(c)
      PROVE  TypeOK'
  BY <1>8 DEF Cleanup, Dispatch, Notified, ListenerPanics, Cancel
<1>9. ASSUME NEW k \in ClientKeys, ClientAdd(k) \/ ClientRemove(k) PROVE TypeOK'
  BY <1>9, PutOne, DropRing, ResponseAssumption DEF ClientAdd, ClientRemove, Add, Remove
<1>10. ASSUME AllReturned \/ UNCHANGED vars PROVE TypeOK'
  BY <1>10 DEF AllReturned, vars
<1> QED
  BY <1>1, <1>2, <1>3, <1>4, <1>5, <1>6, <1>7, <1>8, <1>9, <1>10
  DEF Next, Scheduled

(* A step that touches none of lock, pending, pc, arg, request, closed and   *)
(* value, nor the result of a call in flight, can be ignored below.          *)
Bystander == \/ \E c \in Calls : Cancel(c)
             \/ \E k \in ClientKeys : ClientAdd(k) \/ ClientRemove(k)
             \/ AllReturned
             \/ UNCHANGED vars

(* The kinds of steps there are. *)
LEMMA Steps ==
    ASSUME [Next]_vars
    PROVE  \/ \E c \in Calls : \/ \E id \in KeyIDs : Invoke(c, id)
                               \/ \E d \in Calls, id \in KeyIDs : Reenter(c, d, id)
                               \/ Scheduled(c) \/ Fetching(c) \/ FetchPanics(c)
                               \/ Notified(c) \/ ListenerPanics(c)
           \/ Bystander
BY DEF Next, Bystander

(* A context that ends and a client of the ring change nothing that calls *)
(* share but the ring.                                                    *)
LEMMA BystanderStep ==
    ASSUME Bystander
    PROVE  UNCHANGED <<lock, pending, pc, arg, request, value, closed, result, notifyVars>>
BY DEF Bystander, Cancel, ClientAdd, ClientRemove, AllReturned, vars

(* Every step keeps LockInv: the lock is held exactly by the call that *)
(* elects.                                                             *)
LEMMA LockStep == IInv /\ [Next]_vars => LockInv'
<1> SUFFICES ASSUME IInv, [Next]_vars PROVE LockInv'
  OBVIOUS
<1> USE NoCallAssumption DEF IInv, TypeOK, LockInv, Locations, Goto
<1>1. ASSUME NEW c \in Calls, NEW id \in KeyIDs, Invoke(c, id) PROVE LockInv'
  BY <1>1 DEF Invoke
<1>2. ASSUME NEW c \in Calls, CheckHit(c) \/ RecheckHit(c) PROVE LockInv'
  BY <1>2 DEF CheckHit, RecheckHit, Return
<1>3. ASSUME NEW c \in Calls, CheckMiss(c) \/ RecheckMiss(c) PROVE LockInv'
  BY <1>3 DEF CheckMiss, RecheckMiss
<1>4. ASSUME NEW c \in Calls, Join(c) PROVE LockInv'
  BY <1>4 DEF Join
<1>5. ASSUME NEW c \in Calls, Lead(c) PROVE LockInv'
  BY <1>5 DEF Lead
<1>6. ASSUME NEW c \in Calls, WaitDone(c) PROVE LockInv'
  BY <1>6 DEF WaitDone, Return
<1>7. ASSUME NEW c \in Calls, WaitCancelled(c) PROVE LockInv'
  BY <1>7 DEF WaitCancelled, Return
<1>8. ASSUME NEW c \in Calls, FetchFinds(c) PROVE LockInv'
  BY <1>8 DEF FetchFinds
<1>9. ASSUME NEW c \in Calls, FetchFindsNothing(c) \/ FetchFails(c) PROVE LockInv'
  BY <1>9 DEF FetchFindsNothing, FetchFails
<1>10. ASSUME NEW c \in Calls, FetchPanics(c) \/ Dispatch(c) PROVE LockInv'
  BY <1>10 DEF FetchPanics, Dispatch
<1>11. ASSUME NEW c \in Calls, Publish(c) PROVE LockInv'
  BY <1>11 DEF Publish
<1>12. ASSUME NEW c \in Calls, Cleanup(c) PROVE LockInv'
  BY <1>12 DEF Cleanup
<1>13. ASSUME NEW c \in Calls, NEW d \in Calls, NEW id \in KeyIDs, Reenter(c, d, id) PROVE LockInv'
  BY <1>13 DEF Reenter
<1>14. ASSUME NEW c \in Calls, Notified(c) \/ ListenerPanics(c) PROVE LockInv'
  BY <1>14 DEF Notified, ListenerPanics
<1>15. CASE Bystander
  BY <1>15, BystanderStep
<1> QED
  BY <1>1, <1>2, <1>3, <1>4, <1>5, <1>6, <1>7, <1>8, <1>9, <1>10, <1>11, <1>12,
     <1>13, <1>14, <1>15, Steps DEF Scheduled, Fetching

(* Every step keeps PendingInv: Lead adds the entry that Cleanup removes. *)
LEMMA PendingStep == IInv /\ [Next]_vars => PendingInv'
<1> SUFFICES ASSUME IInv, [Next]_vars PROVE PendingInv'
  OBVIOUS
<1> USE NoCallAssumption DEF IInv, TypeOK, PendingInv, Locations, Goto, Leading, Unfinished
<1>1. ASSUME NEW c \in Calls, NEW id \in KeyIDs, Invoke(c, id) PROVE PendingInv'
  BY <1>1 DEF Invoke
<1>2. ASSUME NEW c \in Calls, CheckHit(c) \/ RecheckHit(c) PROVE PendingInv'
  BY <1>2 DEF CheckHit, RecheckHit, Return
<1>3. ASSUME NEW c \in Calls, CheckMiss(c) \/ RecheckMiss(c) PROVE PendingInv'
  BY <1>3 DEF CheckMiss, RecheckMiss
<1>4. ASSUME NEW c \in Calls, Join(c) PROVE PendingInv'
  BY <1>4 DEF Join
<1>5. ASSUME NEW c \in Calls, Lead(c) PROVE PendingInv'
  BY <1>5 DEF Lead
<1>6. ASSUME NEW c \in Calls, WaitDone(c) PROVE PendingInv'
  BY <1>6 DEF WaitDone, Return
<1>7. ASSUME NEW c \in Calls, WaitCancelled(c) PROVE PendingInv'
  BY <1>7 DEF WaitCancelled, Return
<1>8. ASSUME NEW c \in Calls, FetchFinds(c) PROVE PendingInv'
  BY <1>8 DEF FetchFinds
<1>9. ASSUME NEW c \in Calls, FetchFindsNothing(c) \/ FetchFails(c) PROVE PendingInv'
  BY <1>9 DEF FetchFindsNothing, FetchFails
<1>10. ASSUME NEW c \in Calls, FetchPanics(c) \/ Dispatch(c) PROVE PendingInv'
  BY <1>10 DEF FetchPanics, Dispatch
<1>11. ASSUME NEW c \in Calls, Publish(c) PROVE PendingInv'
  BY <1>11 DEF Publish
<1>12. ASSUME NEW c \in Calls, Cleanup(c) PROVE PendingInv'
  BY <1>12 DEF Cleanup
<1>13. ASSUME NEW c \in Calls, NEW d \in Calls, NEW id \in KeyIDs, Reenter(c, d, id) PROVE PendingInv'
  BY <1>13 DEF Reenter
<1>14. ASSUME NEW c \in Calls, Notified(c) \/ ListenerPanics(c) PROVE PendingInv'
  BY <1>14 DEF Notified, ListenerPanics
<1>15. CASE Bystander
  BY <1>15, BystanderStep
<1> QED
  BY <1>1, <1>2, <1>3, <1>4, <1>5, <1>6, <1>7, <1>8, <1>9, <1>10, <1>11, <1>12,
     <1>13, <1>14, <1>15, Steps DEF Scheduled, Fetching

(* Every step keeps RequestInv: a waiter's request was made by a leader of *)
(* its ID.                                                                 *)
LEMMA RequestStep == IInv /\ [Next]_vars => RequestInv'
<1> SUFFICES ASSUME IInv, [Next]_vars PROVE RequestInv'
  OBVIOUS
<1> USE NoCallAssumption DEF IInv, TypeOK, RequestInv, Locations, Goto, Leading, Unfinished, Led, Waited, PendingInv, ClosedInv
<1>1. ASSUME NEW c \in Calls, NEW id \in KeyIDs, Invoke(c, id) PROVE RequestInv'
  BY <1>1 DEF Invoke
<1>2. ASSUME NEW c \in Calls, CheckHit(c) \/ RecheckHit(c) PROVE RequestInv'
  BY <1>2 DEF CheckHit, RecheckHit, Return
<1>3. ASSUME NEW c \in Calls, CheckMiss(c) \/ RecheckMiss(c) PROVE RequestInv'
  BY <1>3 DEF CheckMiss, RecheckMiss
<1>4. ASSUME NEW c \in Calls, Join(c) PROVE RequestInv'
  BY <1>4 DEF Join
<1>5. ASSUME NEW c \in Calls, Lead(c) PROVE RequestInv'
  BY <1>5 DEF Lead
<1>6. ASSUME NEW c \in Calls, WaitDone(c) PROVE RequestInv'
  BY <1>6 DEF WaitDone, Return
<1>7. ASSUME NEW c \in Calls, WaitCancelled(c) PROVE RequestInv'
  BY <1>7 DEF WaitCancelled, Return
<1>8. ASSUME NEW c \in Calls, FetchFinds(c) PROVE RequestInv'
  BY <1>8 DEF FetchFinds
<1>9. ASSUME NEW c \in Calls, FetchFindsNothing(c) \/ FetchFails(c) PROVE RequestInv'
  BY <1>9 DEF FetchFindsNothing, FetchFails
<1>10. ASSUME NEW c \in Calls, FetchPanics(c) \/ Dispatch(c) PROVE RequestInv'
  BY <1>10 DEF FetchPanics, Dispatch
<1>11. ASSUME NEW c \in Calls, Publish(c) PROVE RequestInv'
  BY <1>11 DEF Publish
<1>12. ASSUME NEW c \in Calls, Cleanup(c) PROVE RequestInv'
  BY <1>12 DEF Cleanup
<1>13. ASSUME NEW c \in Calls, NEW d \in Calls, NEW id \in KeyIDs, Reenter(c, d, id) PROVE RequestInv'
  BY <1>13 DEF Reenter
<1>14. ASSUME NEW c \in Calls, Notified(c) \/ ListenerPanics(c) PROVE RequestInv'
  BY <1>14 DEF Notified, ListenerPanics
<1>15. CASE Bystander
  BY <1>15, BystanderStep
<1> QED
  BY <1>1, <1>2, <1>3, <1>4, <1>5, <1>6, <1>7, <1>8, <1>9, <1>10, <1>11, <1>12,
     <1>13, <1>14, <1>15, Steps DEF Scheduled, Fetching

(* Every step keeps ClosedInv: a request is closed when its leader is past *)
(* Cleanup.                                                                *)
LEMMA ClosedStep == IInv /\ [Next]_vars => ClosedInv'
<1> SUFFICES ASSUME IInv, [Next]_vars PROVE ClosedInv'
  OBVIOUS
<1> USE NoCallAssumption DEF IInv, TypeOK, ClosedInv, Locations, Goto, Led, Waited, Answered, RequestInv, Leading, Unfinished, PendingInv, Failed, Found
<1>1. ASSUME NEW c \in Calls, NEW id \in KeyIDs, Invoke(c, id) PROVE ClosedInv'
  BY <1>1 DEF Invoke
<1>2. ASSUME NEW c \in Calls, CheckHit(c) \/ RecheckHit(c) PROVE ClosedInv'
  BY <1>2 DEF CheckHit, RecheckHit, Return
<1>3. ASSUME NEW c \in Calls, CheckMiss(c) \/ RecheckMiss(c) PROVE ClosedInv'
  BY <1>3 DEF CheckMiss, RecheckMiss
<1>4. ASSUME NEW c \in Calls, Join(c) PROVE ClosedInv'
  BY <1>4 DEF Join
<1>5. ASSUME NEW c \in Calls, Lead(c) PROVE ClosedInv'
  BY <1>5 DEF Lead
<1>6. ASSUME NEW c \in Calls, WaitDone(c) PROVE ClosedInv'
  BY <1>6 DEF WaitDone, Return
<1>7. ASSUME NEW c \in Calls, WaitCancelled(c) PROVE ClosedInv'
  BY <1>7 DEF WaitCancelled, Return
<1>8. ASSUME NEW c \in Calls, FetchFinds(c) PROVE ClosedInv'
  BY <1>8 DEF FetchFinds
<1>9. ASSUME NEW c \in Calls, FetchFindsNothing(c) \/ FetchFails(c) PROVE ClosedInv'
  BY <1>9 DEF FetchFindsNothing, FetchFails
<1>10. ASSUME NEW c \in Calls, FetchPanics(c) \/ Dispatch(c) PROVE ClosedInv'
  BY <1>10 DEF FetchPanics, Dispatch
<1>11. ASSUME NEW c \in Calls, Publish(c) PROVE ClosedInv'
  BY <1>11 DEF Publish
<1>12. ASSUME NEW c \in Calls, Cleanup(c) PROVE ClosedInv'
  BY <1>12 DEF Cleanup
<1>13. ASSUME NEW c \in Calls, NEW d \in Calls, NEW id \in KeyIDs, Reenter(c, d, id) PROVE ClosedInv'
  BY <1>13 DEF Reenter
<1>14. ASSUME NEW c \in Calls, Notified(c) \/ ListenerPanics(c) PROVE ClosedInv'
  BY <1>14 DEF Notified, ListenerPanics
<1>15. CASE Bystander
  BY <1>15, BystanderStep
<1> QED
  BY <1>1, <1>2, <1>3, <1>4, <1>5, <1>6, <1>7, <1>8, <1>9, <1>10, <1>11, <1>12,
     <1>13, <1>14, <1>15, Steps DEF Scheduled, Fetching

(* Every step keeps ValueInv: a request's value is stored before it is *)
(* closed, and once.                                                   *)
LEMMA ValueStep == IInv /\ [Next]_vars => ValueInv'
<1> SUFFICES ASSUME IInv, [Next]_vars PROVE ValueInv'
  OBVIOUS
<1>0. NoKey \notin Key
  BY NoKeyAssumption DEF Key
<1> USE NoCallAssumption DEF IInv, TypeOK, ValueInv, Locations, Goto, Led, Found, Failed, ClosedInv, RequestInv, Leading, Unfinished, PendingInv
<1>1. ASSUME NEW c \in Calls, NEW id \in KeyIDs, Invoke(c, id) PROVE ValueInv'
  BY <1>1 DEF Invoke
<1>2. ASSUME NEW c \in Calls, CheckHit(c) \/ RecheckHit(c) PROVE ValueInv'
  BY <1>2 DEF CheckHit, RecheckHit, Return
<1>3. ASSUME NEW c \in Calls, CheckMiss(c) \/ RecheckMiss(c) PROVE ValueInv'
  BY <1>3 DEF CheckMiss, RecheckMiss
<1>4. ASSUME NEW c \in Calls, Join(c) PROVE ValueInv'
  BY <1>4 DEF Join
<1>5. ASSUME NEW c \in Calls, Lead(c) PROVE ValueInv'
  BY <1>5 DEF Lead
<1>6. ASSUME NEW c \in Calls, WaitDone(c) PROVE ValueInv'
  BY <1>6 DEF WaitDone, Return
<1>7. ASSUME NEW c \in Calls, WaitCancelled(c) PROVE ValueInv'
  BY <1>7 DEF WaitCancelled, Return
<1>8. ASSUME NEW c \in Calls, FetchFinds(c) PROVE ValueInv'
  BY <1>8 DEF FetchFinds
<1>9. ASSUME NEW c \in Calls, FetchFindsNothing(c) \/ FetchFails(c) PROVE ValueInv'
  BY <1>9 DEF FetchFindsNothing, FetchFails, Result, Errors
<1>10. ASSUME NEW c \in Calls, FetchPanics(c) \/ Dispatch(c) PROVE ValueInv'
  BY <1>10 DEF FetchPanics, Dispatch
<1>11. ASSUME NEW c \in Calls, Publish(c) PROVE ValueInv'
  BY <1>0, <1>11 DEF Publish
<1>12. ASSUME NEW c \in Calls, Cleanup(c) PROVE ValueInv'
  BY <1>12 DEF Cleanup
<1>13. ASSUME NEW c \in Calls, NEW d \in Calls, NEW id \in KeyIDs, Reenter(c, d, id) PROVE ValueInv'
  BY <1>13 DEF Reenter
<1>14. ASSUME NEW c \in Calls, Notified(c) \/ ListenerPanics(c) PROVE ValueInv'
  BY <1>14 DEF Notified, ListenerPanics
<1>15. CASE Bystander
  BY <1>15, BystanderStep
<1> QED
  BY <1>1, <1>2, <1>3, <1>4, <1>5, <1>6, <1>7, <1>8, <1>9, <1>10, <1>11, <1>12,
     <1>13, <1>14, <1>15, Steps DEF Scheduled, Fetching

(* Every step keeps WaitersAgree: a waiter that is woken reads its leader's *)
(* result.                                                                  *)
LEMMA WaitersAgreeStep == IInv /\ [Next]_vars => WaitersAgree'
<1> SUFFICES ASSUME IInv, [Next]_vars PROVE WaitersAgree'
  OBVIOUS
<1> USE NoCallAssumption DEF IInv, TypeOK, WaitersAgree, Locations, Goto, Led, Waited, Answered, Found, Failed, ValueInv, ClosedInv, RequestInv, PendingInv, Leading, Unfinished
<1>1. ASSUME NEW c \in Calls, NEW id \in KeyIDs, Invoke(c, id) PROVE WaitersAgree'
  BY <1>1 DEF Invoke
<1>2. ASSUME NEW c \in Calls, CheckHit(c) \/ RecheckHit(c) PROVE WaitersAgree'
  BY <1>2 DEF CheckHit, RecheckHit, Return
<1>3. ASSUME NEW c \in Calls, CheckMiss(c) \/ RecheckMiss(c) PROVE WaitersAgree'
  BY <1>3 DEF CheckMiss, RecheckMiss
<1>4. ASSUME NEW c \in Calls, Join(c) PROVE WaitersAgree'
  BY <1>4 DEF Join
<1>5. ASSUME NEW c \in Calls, Lead(c) PROVE WaitersAgree'
  BY <1>5 DEF Lead
<1>6. ASSUME NEW c \in Calls, WaitDone(c) PROVE WaitersAgree'
  BY <1>6 DEF WaitDone, Return
<1>7. ASSUME NEW c \in Calls, WaitCancelled(c) PROVE WaitersAgree'
  BY <1>7 DEF WaitCancelled, Return
<1>8. ASSUME NEW c \in Calls, FetchFinds(c) PROVE WaitersAgree'
  BY <1>8 DEF FetchFinds
<1>9. ASSUME NEW c \in Calls, FetchFindsNothing(c) \/ FetchFails(c) PROVE WaitersAgree'
  BY <1>9 DEF FetchFindsNothing, FetchFails
<1>10. ASSUME NEW c \in Calls, FetchPanics(c) \/ Dispatch(c) PROVE WaitersAgree'
  BY <1>10 DEF FetchPanics, Dispatch
<1>11. ASSUME NEW c \in Calls, Publish(c) PROVE WaitersAgree'
  BY <1>11 DEF Publish
<1>12. ASSUME NEW c \in Calls, Cleanup(c) PROVE WaitersAgree'
  BY <1>12 DEF Cleanup
<1>13. ASSUME NEW c \in Calls, NEW d \in Calls, NEW id \in KeyIDs, Reenter(c, d, id) PROVE WaitersAgree'
  BY <1>13 DEF Reenter
<1>14. ASSUME NEW c \in Calls, Notified(c) \/ ListenerPanics(c) PROVE WaitersAgree'
  BY <1>14 DEF Notified, ListenerPanics
<1>15. CASE Bystander
  BY <1>15, BystanderStep
<1> QED
  BY <1>1, <1>2, <1>3, <1>4, <1>5, <1>6, <1>7, <1>8, <1>9, <1>10, <1>11, <1>12,
     <1>13, <1>14, <1>15, Steps DEF Scheduled, Fetching

(* Every step keeps ListenersInv: only the visit's end frees the mutex, and *)
(* it comes after that of every call made from a listener.                  *)
LEMMA ListenersStep == IInv /\ [Next]_vars => ListenersInv'
<1> SUFFICES ASSUME IInv, [Next]_vars PROVE ListenersInv'
  OBVIOUS
<1> USE NoCallAssumption
    DEF IInv, TypeOK, ListenersInv, ReentrantLeadersHang, SelfBlocked, Unfinished, Leading,
        Led, Locations, Over, Goto, notifyVars
<1>1. ASSUME NEW c \in Calls, NEW to, pc' = [pc EXCEPT ![c] = to],
             UNCHANGED notifyVars, to \notin {"idle", "notify"},
             pc[c] \notin Over \cup {"idle", "notify", "dispatch"},
             \A d \in Calls \ {c} : request'[d] = request[d],
             request'[c] = c => to \in {"fetch", "publish", "cleanup", "dispatch", "panicked"}
      PROVE  ListenersInv'
  BY <1>1
<1>2. ASSUME NEW c \in Calls, Dispatch(c) PROVE ListenersInv'
  BY <1>2 DEF Dispatch
<1>3. ASSUME NEW c \in Calls, NEW d \in Calls, NEW id \in KeyIDs, Reenter(c, d, id)
      PROVE  ListenersInv'
  BY <1>3 DEF Reenter, RequestInv
<1>4. ASSUME NEW c \in Calls, Notified(c) \/ ListenerPanics(c) PROVE ListenersInv'
  BY <1>4 DEF Notified, ListenerPanics, Busy
<1>5. CASE Bystander
  BY <1>5, BystanderStep
<1>6. ASSUME NEW c \in Calls, Fetching(c) \/ FetchPanics(c) PROVE ListenersInv'
  BY <1>1, <1>6
  DEF Fetching, FetchFinds, FetchFindsNothing, FetchFails, FetchPanics
<1>7. ASSUME NEW c \in Calls, NEW id \in KeyIDs, Invoke(c, id) PROVE ListenersInv'
  BY <1>7 DEF Invoke
<1>8. ASSUME NEW c \in Calls, CheckHit(c) \/ RecheckHit(c) \/ WaitDone(c) \/ WaitCancelled(c)
      PROVE  ListenersInv'
  BY <1>1, <1>8
  DEF CheckHit, RecheckHit, WaitDone, WaitCancelled, Return, RequestInv, Waited
<1>9. ASSUME NEW c \in Calls, CheckMiss(c) \/ RecheckMiss(c) \/ Publish(c) \/ Cleanup(c)
      PROVE  ListenersInv'
  BY <1>1, <1>9 DEF CheckMiss, RecheckMiss, Publish, Cleanup, RequestInv
<1>10. ASSUME NEW c \in Calls, Join(c) \/ Lead(c) PROVE ListenersInv'
  <2>1. CASE Join(c)
    BY <1>1, <2>1 DEF Join, PendingInv, RequestInv
  <2>2. CASE Lead(c)
    BY <1>1, <2>2 DEF Lead
  <2> QED
    BY <1>10, <2>1, <2>2
<1> QED
  BY <1>2, <1>3, <1>4, <1>5, <1>6, <1>7, <1>8, <1>9, <1>10, Steps DEF Scheduled

(* A call that has panicked has done so under a caller that recovers. *)
LEMMA PanicStep == IInv /\ [Next]_vars => PanicInv'
<1> SUFFICES ASSUME IInv, [Next]_vars PROVE PanicInv'
  OBVIOUS
<1>1. ASSUME Bystander PROVE PanicInv'
  BY <1>1, BystanderStep DEF IInv, PanicInv
<1>2. ASSUME NEW c \in Calls, NEW to, pc' = [pc EXCEPT ![c] = to],
             to \in {"panicked", "aborted"} => PanicsRecovered
      PROVE  PanicInv'
  BY <1>2 DEF IInv, TypeOK, PanicInv
<1> QED
  BY <1>1, <1>2, Steps
  DEF Goto, Return, Scheduled, Fetching, FetchPanics, Invoke, CheckHit, CheckMiss,
      RecheckHit, RecheckMiss, Join, Lead, WaitDone, WaitCancelled, FetchFinds,
      FetchFindsNothing, FetchFails, Publish, Cleanup, Dispatch, Reenter, Notified,
      ListenerPanics

(* Before the first call nothing is pending. *)
LEMMA InitInv == Init => IInv
<1> SUFFICES ASSUME Init PROVE IInv
  OBVIOUS
<1>1. TypeOK
  BY NoCallAssumption, NoIDAssumption
  DEF Init, TypeOK, EmptyRing, Rings, WellFiled, Locations, Result, Errors, Failed
<1>2. LockInv /\ PendingInv /\ RequestInv /\ ClosedInv /\ ValueInv /\ ListenersInv
      /\ PanicInv /\ WaitersAgree
  BY NoCallAssumption
  DEF Init, LockInv, PendingInv, RequestInv, ClosedInv, ValueInv, ListenersInv, WaitersAgree,
      PanicInv, ReentrantLeadersHang, Unfinished, Leading, Led, Waited, Answered, Failed
<1> QED
  BY <1>1, <1>2 DEF IInv

(* Every step keeps the whole invariant. *)
LEMMA InvStep == IInv /\ [Next]_vars => IInv'
BY TypeStep, LockStep, PendingStep, RequestStep, ClosedStep, ValueStep, ListenersStep,
   PanicStep, WaitersAgreeStep
DEF IInv

-----------------------------------------------------------------------------
(* IInv holds initially and every step preserves it: pending, the lock and  *)
(* the program counters agree on who leads, and a closed request holds what *)
(* its leader returns.                                                      *)
THEOREM InductiveInvariant == Spec => []IInv
BY InitInv, InvStep, PTL DEF Spec

(* Who waits for whom.  A call that elects, fetches or publishes waits for  *)
(* no one, and neither does one that is over.                               *)
LEMMA Waits ==
    ASSUME IInv, NEW c \in Calls, NEW d \in Calls, WaitsFor(c, d)
    PROVE  \/ pc[c] \in {"lock", "cleanup"} /\ pc[d] = "elect"
           \/ pc[c] = "wait" /\ pc[d] \in {"fetch", "publish", "cleanup", "panicked"}
           \/ pc[c] = "dispatch" /\ pc[d] = "notify" /\ listenersLock = d
           \/ pc[c] = "notify" /\ caller[d] = c /\ pc[d] \notin Over /\ listenersLock = c
<1> USE NoCallAssumption DEF WaitsFor, IInv, TypeOK
<1>1. CASE pc[c] \in {"lock", "cleanup"}
  BY <1>1 DEF LockInv
<1>2. CASE pc[c] = "wait"
  <2>1. request[c] = d /\ d \notin closed /\ arg[c] \in KeyIDs
    BY <1>2
  <2>2. pending[arg[c]] = d
    BY <1>2, <2>1 DEF RequestInv, Waited
  <2> QED
    BY <1>2, <2>1, <2>2 DEF PendingInv, Unfinished, Leading
<1>3. CASE pc[c] \in {"dispatch", "notify"}
  BY <1>3 DEF ListenersInv
<1> QED
  BY <1>1, <1>2, <1>3

(* In a circle of waits no call is before its fetch is over; what is left   *)
(* of the circle is a visit of the listeners and a call made from it.       *)
LEMMA WaitsEnd == IInv => NoCircularWait
<1> SUFFICES ASSUME IInv PROVE NoCircularWait
  OBVIOUS
<1>1. ASSUME NEW S \in SUBSET Calls, S # {}, \A c \in S : \E d \in S : WaitsFor(c, d)
      PROVE  \E c \in S : SelfBlocked(c) /\ caller[c] \in S
  <2>1. \A c \in S : pc[c] \in {"lock", "cleanup", "wait", "dispatch", "notify"}
    BY <1>1, Waits
  <2>2. \A c \in S : pc[c] \notin {"lock", "cleanup"}
    BY <1>1, <2>1, Waits
  <2>3. \A c \in S : pc[c] # "wait"
    BY <1>1, <2>1, <2>2, Waits
  <2>4. PICK v \in S : pc[v] = "notify"
    BY <1>1, <2>1, <2>2, <2>3, Waits
  <2>5. PICK c \in S : WaitsFor(v, c)
    BY <1>1
  <2>6. caller[c] = v /\ listenersLock = v /\ v # NoCall
    BY <2>4, <2>5, Waits, NoCallAssumption
  <2>7. pc[c] # "notify"
    BY <2>6 DEF IInv, ListenersInv
  <2> QED
    BY <2>1, <2>2, <2>3, <2>6, <2>7 DEF SelfBlocked
<1>2. ASSUME NEW c \in Calls, NEW d \in Calls, WaitsFor(c, d), pc[d] \in Over
      PROVE  pc[c] = "wait" /\ pc[d] = "panicked"
  BY <1>2, Waits DEF Over
<1>3. \A S \in (SUBSET Calls) \ {{}} : S \in SUBSET Calls /\ S # {}
  OBVIOUS
<1> QED
  BY <1>1, <1>2, <1>3 DEF NoCircularWait

(* What calls promise each other, whoever else writes the ring. *)
LEMMA CallsPromise == IInv => SingleFlight /\ WaitersCanBeWoken /\ NoCircularWait
<1>1. IInv => SingleFlight
  BY DEF IInv, TypeOK, PendingInv, SingleFlight, Unfinished
<1>2. IInv => WaitersCanBeWoken
  BY DEF IInv, TypeOK, RequestInv, WaitersCanBeWoken, Waited
<1> QED
  BY <1>1, <1>2, WaitsEnd

(* Without recovered panics what is pending is being worked on. *)
LEMMA PendingFlies == IInv => PanicsRecovered \/ PendingIsInFlight
BY DEF IInv, TypeOK, PendingInv, PanicInv, PendingIsInFlight, Unfinished

(* No two calls ever fetch one key ID at the same time. *)
THEOREM SingleFlightHolds == Spec => []SingleFlight
BY CallsPromise, InductiveInvariant, PTL

(* No call waits on a request that nothing will close. *)
THEOREM WaitersCanBeWokenHolds == Spec => []WaitersCanBeWoken
BY CallsPromise, InductiveInvariant, PTL

(* Calls wait in a circle only behind a listener that calls Resolve, and    *)
(* leads, whatever their number.                                            *)
THEOREM NoCircularWaitHolds == Spec => []NoCircularWait
BY CallsPromise, InductiveInvariant, PTL

(* A call of Resolve that a listener makes and that leads a fetch never     *)
(* returns, and with it hangs the visit of the listeners it was made from.  *)
THEOREM ReentrantLeadersHangHolds == Spec => []ReentrantLeadersHang
<1>1. IInv => ReentrantLeadersHang
  BY DEF IInv, ListenersInv
<1> QED
  BY <1>1, InductiveInvariant, PTL

(* Waiters return their leader's key, or ErrKeyNotFound for its error. *)
THEOREM WaitersAgreeHolds == Spec => []WaitersAgree
<1>1. IInv => WaitersAgree
  BY DEF IInv
<1> QED
  BY <1>1, InductiveInvariant, PTL

(* When no panic is recovered, what is pending is in flight. *)
THEOREM PendingIsInFlightHolds ==
    ASSUME PanicsRecovered = FALSE
    PROVE  Spec => []PendingIsInFlight
<1>1. IInv => PendingIsInFlight
  BY PendingFlies
<1> QED
  BY <1>1, InductiveInvariant, PTL

-----------------------------------------------------------------------------
(* A faithful source gives the key that was asked for. *)
LEMMA FoundKey ==
    ASSUME Faithful, IInv, NEW c \in Calls, FetchFinds(c)
    PROVE  /\ result'[c].key.kid = arg[c]
           /\ \A d \in Calls \ {c} : result'[d] = result[d]
<1>1. arg[c] \in KeyIDs
  BY DEF FetchFinds, Goto, IInv, TypeOK
<1>2. PICK k : /\ result' = [result EXCEPT ![c] = Found(k)]
               /\ \E keys \in Responses[arg[c]] : k \in Selected(keys, arg[c])
  BY DEF FetchFinds
<1>3. PICK keys \in Responses[arg[c]] : k \in Selected(keys, arg[c])
  BY <1>2
<1>4. k.kid = arg[c]
  <2>1. CASE keys = {k}
    BY <1>1, <2>1 DEF Faithful
  <2>2. CASE keys # {k}
    BY <1>3, <2>2 DEF Selected
  <2> QED
    BY <2>1, <2>2
<1> QED
  BY <1>2, <1>4 DEF IInv, TypeOK, Found

(* Every step keeps AnswersHaveRequestedID: from the ring by its filing, *)
(* from a source by its faith.                                           *)
LEMMA AnswersStep == AnswersHaveRequestedID /\ IInv /\ [Next]_vars => AnswersHaveRequestedID'
<1> SUFFICES ASSUME AnswersHaveRequestedID, IInv, [Next]_vars, Faithful
             PROVE  AnswersHaveRequestedID'
  BY DEF AnswersHaveRequestedID, Faithful
<1> USE DEF IInv, TypeOK, AnswersHaveRequestedID, Goto, Found, Failed
<1>1. ASSUME NEW c \in Calls, NEW d \in Calls, NEW id \in KeyIDs,
             Invoke(c, id) \/ Reenter(c, d, id)
      PROVE  AnswersHaveRequestedID'
  BY <1>1 DEF Invoke, Reenter, ValueInv
<1>2. ASSUME NEW c \in Calls, CheckHit(c) \/ RecheckHit(c)
      PROVE  AnswersHaveRequestedID'
  BY <1>2, NoIDAssumption DEF CheckHit, RecheckHit, Return, InRing, Cached, WellFiled
<1>3. ASSUME NEW c \in Calls, WaitDone(c)
      PROVE  AnswersHaveRequestedID'
  BY <1>3, NoCallAssumption
  DEF WaitDone, Return, RequestInv, ClosedInv, ValueInv, Led, Waited
<1>4. ASSUME NEW c \in Calls, FetchFinds(c)
      PROVE  AnswersHaveRequestedID'
  BY <1>4, FoundKey DEF FetchFinds
<1>5. ASSUME NEW c \in Calls,
             FetchFindsNothing(c) \/ FetchFails(c) \/ WaitCancelled(c)
      PROVE  AnswersHaveRequestedID'
  BY <1>5 DEF FetchFindsNothing, FetchFails, WaitCancelled, Return
<1>6. CASE UNCHANGED <<arg, result>>
  BY <1>6
<1> QED
  BY <1>1, <1>2, <1>3, <1>4, <1>5, <1>6, Steps, BystanderStep
  DEF Scheduled, Fetching, FetchPanics, CheckMiss, RecheckMiss, Join, Lead, Publish,
      Cleanup, Dispatch, Notified, ListenerPanics

(* Whatever route a key takes to a caller, it has the ID that was asked for:*)
(* the ring files keys by their ID, a request is for the waiter's ID, and a *)
(* faithful source gives the leader the right key.                          *)
THEOREM AnswersHaveRequestedIDHolds == Spec => []AnswersHaveRequestedID
<1>1. Init => AnswersHaveRequestedID
  BY DEF Init, AnswersHaveRequestedID, Failed
<1> QED
  BY <1>1, AnswersStep, InductiveInvariant, PTL DEF Spec

(* Once a key ID has been fetched into a ring no client empties, it is not  *)
(* fetched again.  The lock makes it so: who misses under the lock either   *)
(* precedes the publication, and finds the leader's request still pending,  *)
(* or follows it, and does not miss.                                        *)
THEOREM NoSecondFetchHolds == Spec => []NoSecondFetch
<1> DEFINE J == FetchedInv /\ NoSecondFetch /\ AnswersHaveRequestedID
<1>1. Init => J
  BY DEF Init, FetchedInv, NoSecondFetch, AnswersHaveRequestedID, Failed, Fetched
<1>2. J /\ IInv /\ IInv' /\ AnswersHaveRequestedID' /\ [Next]_vars => J'
  <2> SUFFICES ASSUME J, IInv, IInv', AnswersHaveRequestedID', [Next]_vars, OnlyResolversFill
               PROVE  FetchedInv' /\ NoSecondFetch'
    BY DEF FetchedInv, NoSecondFetch, OnlyResolversFill, Faithful
  <2> USE NoCallAssumption
      DEF IInv, TypeOK, Goto, FetchedInv, NoSecondFetch, Fetched, Led, Leading
  <2>1. ASSUME NEW c \in Calls, NEW d \in Calls, NEW id \in KeyIDs,
               Invoke(c, id) \/ Reenter(c, d, id)
        PROVE  FetchedInv' /\ NoSecondFetch'
    BY <2>1 DEF Invoke, Reenter, Cached, RequestInv
  <2>2. ASSUME NEW c \in Calls, CheckHit(c) \/ RecheckHit(c)
        PROVE  FetchedInv' /\ NoSecondFetch'
    BY <2>2 DEF CheckHit, RecheckHit, Return, Cached, RequestInv
  <2>3. ASSUME NEW c \in Calls, CheckMiss(c) \/ RecheckMiss(c)
        PROVE  FetchedInv' /\ NoSecondFetch'
    BY <2>3 DEF CheckMiss, RecheckMiss, Cached, InRing, OnlyResolversFill
  <2>4. ASSUME NEW c \in Calls, Join(c) \/ Lead(c)
        PROVE  FetchedInv' /\ NoSecondFetch'
    BY <2>4 DEF Join, Lead, Cached, LockInv, PendingInv, RequestInv, ValueInv, Unfinished
  <2>5. ASSUME NEW c \in Calls, WaitDone(c) \/ WaitCancelled(c)
        PROVE  FetchedInv' /\ NoSecondFetch'
    BY <2>5 DEF WaitDone, WaitCancelled, Return, Cached, RequestInv, Waited
  <2>6. ASSUME NEW c \in Calls, FetchFinds(c)
        PROVE  FetchedInv' /\ NoSecondFetch'
    BY <2>6, FoundKey DEF FetchFinds, Cached, PendingInv, Unfinished, OnlyResolversFill
  <2>7. ASSUME NEW c \in Calls, FetchFindsNothing(c) \/ FetchFails(c) \/ FetchPanics(c)
        PROVE  FetchedInv' /\ NoSecondFetch'
    BY <2>7 DEF FetchFindsNothing, FetchFails, FetchPanics, Cached, Failed
  <2>8. ASSUME NEW c \in Calls, Publish(c)
        PROVE  FetchedInv' /\ NoSecondFetch'
    <3>1. /\ result[c].key \in Key
          /\ result[c].key.kid = arg[c]
          /\ arg[c] \in KeyIDs
      BY <2>8, NoKeyAssumption
      DEF Publish, AnswersHaveRequestedID, OnlyResolversFill, Key
    <3>2. /\ ring'[arg[c]] = result[c].key
          /\ \A id \in KeyIDs \ {arg[c]} : ring'[id] = ring[id]
      BY <2>8, <3>1, PutOne DEF Publish, Add, OnlyResolversFill, Cached
    <3> QED
      BY <2>8, <3>1, <3>2, NoKeyAssumption
      DEF Publish, Cached, PendingInv, ValueInv, Unfinished, Key
  <2>9. ASSUME NEW c \in Calls,
               Cleanup(c) \/ Dispatch(c) \/ Notified(c) \/ ListenerPanics(c)
        PROVE  FetchedInv' /\ NoSecondFetch'
    BY <2>9 DEF Cleanup, Dispatch, Notified, ListenerPanics, Cached, LockInv
  <2>10. CASE Bystander
    <3>1. UNCHANGED ring
      BY <2>10 DEF Bystander, Cancel, AllReturned, vars, OnlyResolversFill
    <3> QED
      BY <2>10, <3>1, BystanderStep DEF Cached
  <2> QED
    BY <2>1, <2>2, <2>3, <2>4, <2>5, <2>6, <2>7, <2>8, <2>9, <2>10, Steps
    DEF Scheduled, Fetching
<1>3. J => NoSecondFetch
  OBVIOUS
<1> QED
  BY <1>1, <1>2, <1>3, InductiveInvariant, AnswersHaveRequestedIDHolds, PTL DEF Spec

-----------------------------------------------------------------------------
(* Who has an answer, and who is in the air. *)
LEMMA AnswersOf ==
    ASSUME IInv, NEW c \in Calls
    PROVE  /\ Answers[c] = IF pc[c] = "done" THEN result[c] ELSE Failed("nil")
           /\ pc[c] # "idle" => arg[c] \in KeyIDs
           /\ pc[c] # "idle" /\ pc[c] # "done" => F!Under(c)
BY NoIDAssumption DEF IInv, TypeOK, Answers, Answered, F!Under, F!None, Failed

(* A call returns r: all that changes is its answer. *)
LEMMA ReturnAnswers ==
    ASSUME IInv, NEW c \in Calls, NEW from, NEW r, Return(c, from, r),
           from # "done", closed' = closed, c \notin closed
    PROVE  /\ Answers' = [Answers EXCEPT ![c] = r]
           /\ Outcomes' = Outcomes
BY DEF IInv, TypeOK, Return, Goto, Answers, Outcomes, Answered

(* What each call does is a step of Flights, or none.  (A composition that *)
(* makes steps of Resolver cites this lemma, not the theorem.)             *)
LEMMA FlightsStep == IInv /\ IInv' /\ [Next]_vars => [F!Next]_(F!vars)
<1> SUFFICES ASSUME IInv, IInv', [Next]_vars PROVE F!Next \/ UNCHANGED F!vars
  OBVIOUS
<1> USE DEF IInv, TypeOK, Goto
<1>1. ASSUME NEW c \in Calls, NEW d \in Calls, NEW id \in KeyIDs,
             Invoke(c, id) \/ Reenter(c, d, id)
      PROVE  F!Ask(c, id)
  BY <1>1 DEF Invoke, Reenter, F!Ask, Answers, Outcomes, Answered
<1>2. ASSUME NEW c \in Calls, CheckHit(c) \/ RecheckHit(c) PROVE F!Hit(c)
  <2>1. PICK from \in {"check", "lock"} : Return(c, from, Found(ring[arg[c]]))
    BY <1>2 DEF CheckHit, RecheckHit
  <2>2. /\ UNCHANGED <<arg, pending, request, closed>>
        /\ Cached(arg[c])
    BY <1>2 DEF CheckHit, RecheckHit, InRing
  <2>3. /\ pc[c] \in {"check", "lock"} /\ request[c] = NoCall /\ c \notin closed
        /\ arg[c] \in KeyIDs
    BY <2>1, AnswersOf DEF Return, RequestInv, ClosedInv
  <2>4. ring[arg[c]] \in Key /\ ring[arg[c]].kid = arg[c]
    BY <2>2, <2>3 DEF Cached, WellFiled, Rings
  <2>5. Answers' = [Answers EXCEPT ![c] = Found(ring[arg[c]])] /\ Outcomes' = Outcomes
    BY <2>1, <2>2, <2>3, ReturnAnswers
  <2>6. F!Under(c)
    BY <2>3, AnswersOf
  <2>7. \E k \in Key : k.kid = arg[c] /\ F!Answer(c, F!Found(k))
    BY <2>4, <2>5 DEF F!Answer, F!Found, Found
  <2> QED
    BY <2>2, <2>3, <2>5, <2>6, <2>7 DEF F!Hit, Key, F!Key
<1>3. ASSUME NEW c \in Calls, CheckMiss(c) \/ RecheckMiss(c) PROVE UNCHANGED F!vars
  BY <1>3 DEF CheckMiss, RecheckMiss, F!vars, Answers, Outcomes, Answered
<1>4. ASSUME NEW c \in Calls, Join(c) \/ Lead(c) PROVE F!Board(c) \/ F!Depart(c)
  <2>1. UNCHANGED <<Answers, Outcomes>>
    BY <1>4 DEF Join, Lead, Answers, Outcomes, Answered
  <2>2. F!Under(c) /\ request[c] = NoCall
    BY <1>4, AnswersOf DEF Join, Lead, RequestInv
  <2> QED
    BY <1>4, <2>1, <2>2 DEF Join, Lead, F!Board, F!Depart
<1>5. ASSUME NEW c \in Calls, WaitDone(c) PROVE F!Arrive(c)
  <2> DEFINE d == request[c]
  <2>1. /\ pc[c] = "wait" /\ d # c /\ d \in closed /\ c \notin closed
        /\ UNCHANGED <<arg, pending, request, closed>>
    BY <1>5 DEF WaitDone, Return, RequestInv, Waited, ClosedInv
  <2>2. /\ value[d] = result[d].key
        /\ result[d].err = "nil" <=> result[d].key # NoKey
        /\ result[d] = IF result[d].err = "nil" THEN Found(value[d])
                                                ELSE Failed(result[d].err)
    BY <2>1 DEF ValueInv
  <2>3. Return(c, "wait", IF Outcomes[d].err = "nil" \/ d = c
                          THEN Outcomes[d] ELSE Failed("ErrKeyNotFound"))
    BY <1>5, <2>1, <2>2 DEF WaitDone, Outcomes
  <2> QED
    BY <2>1, <2>3, AnswersOf, ReturnAnswers DEF F!Arrive, F!Answer, F!Failed, Failed
<1>6. ASSUME NEW c \in Calls, WaitCancelled(c) PROVE F!Leave(c)
  <2>1. /\ pc[c] = "wait" /\ request[c] \notin {c, NoCall} /\ c \notin closed
        /\ UNCHANGED <<arg, pending, request, closed>>
        /\ Return(c, "wait", Failed("ctx"))
    BY <1>6 DEF WaitCancelled, Return, RequestInv, Waited, ClosedInv
  <2> QED
    BY <2>1, AnswersOf, ReturnAnswers DEF F!Leave, F!Answer, F!Failed, Failed
<1>7. ASSUME NEW c \in Calls, Fetching(c) \/ FetchPanics(c) PROVE UNCHANGED F!vars
  <2>1. /\ pc[c] = "fetch" /\ pc'[c] # "done"
        /\ UNCHANGED <<arg, pending, request, closed>>
        /\ \A d \in Calls \ {c} : pc'[d] = pc[d] /\ result'[d] = result[d]
    BY <1>7
    DEF Fetching, FetchFinds, FetchFindsNothing, FetchFails, FetchPanics
  <2>2. c \notin closed
    BY <2>1 DEF ClosedInv
  <2> QED
    BY <2>1, <2>2 DEF F!vars, Answers, Outcomes, Answered
<1>8. ASSUME NEW c \in Calls, Publish(c) PROVE UNCHANGED F!vars
  BY <1>8 DEF Publish, F!vars, Answers, Outcomes, Answered
<1>9. ASSUME NEW c \in Calls, Cleanup(c) PROVE F!Land(c)
  <2>1. /\ pc[c] = "cleanup" /\ pc'[c] = "dispatch" /\ request[c] = c /\ c \notin closed
        /\ result' = result
    BY <1>9 DEF Cleanup, RequestInv, Unfinished, Leading, Led, ClosedInv
  <2>2. \E o \in {F!Found(k) : k \in Key}
                 \cup {F!Failed(e) : e \in {"ErrKeyNotFound", "fetch", "ctx"}} : result[c] = o
    BY <2>1 DEF ValueInv, Result, Errors, Found, Failed, F!Found, F!Failed
  <2>3. Answers' = Answers /\ Outcomes' = [Outcomes EXCEPT ![c] = result[c]]
    BY <1>9, <2>1 DEF Cleanup, Answers, Outcomes, Answered
  <2>4. \E o \in {F!Found(k) : k \in Key}
                 \cup {F!Failed(e) : e \in {"ErrKeyNotFound", "fetch", "ctx"}} :
           Outcomes' = [Outcomes EXCEPT ![c] = o]
    BY <2>2, <2>3
  <2>5. /\ pending' = [pending EXCEPT ![arg[c]] = NoCall]
        /\ closed' = closed \cup {c}
        /\ UNCHANGED <<arg, request>>
    BY <1>9 DEF Cleanup
  <2> QED
    BY <2>1, <2>3, <2>4, <2>5 DEF F!Land, Key, F!Key
<1>10. ASSUME NEW c \in Calls, Notified(c) PROVE F!Arrive(c)
  <2>1. /\ pc[c] = "notify" /\ pc' = [pc EXCEPT ![c] = "done"]
        /\ request[c] = c /\ c \in closed
        /\ UNCHANGED <<arg, pending, request, closed, result>>
    BY <1>10 DEF Notified, RequestInv, Led, ClosedInv
  <2>2. Answers' = [Answers EXCEPT ![c] = Outcomes[c]] /\ Outcomes' = Outcomes
    BY <2>1 DEF Answers, Outcomes, Answered
  <2> QED
    BY <2>1, <2>2, AnswersOf DEF F!Arrive, F!Answer
<1>11. ASSUME NEW c \in Calls, Dispatch(c) \/ ListenerPanics(c) PROVE UNCHANGED F!vars
  BY <1>11 DEF Dispatch, ListenerPanics, F!vars, Answers, Outcomes, Answered
<1>12. CASE Bystander
  BY <1>12, BystanderStep DEF F!vars, Answers, Outcomes, Answered
<1> QED
  BY <1>1, <1>2, <1>3, <1>4, <1>5, <1>6, <1>7, <1>8, <1>9, <1>10, <1>11, <1>12, Steps
  DEF Scheduled, F!Next

(* The flights begin as Flights has them. *)
LEMMA FlightsInit == Init => F!Init
BY DEF Init, F!Init, F!None, Failed, Answers, Outcomes, Answered

(* The requests of Resolver are the flights of Flights. *)
THEOREM FlightsImplemented == Spec => ImplementsFlights
BY FlightsInit, FlightsStep, InductiveInvariant, PTL
DEF Spec, ImplementsFlights, F!Spec
=============================================================================
