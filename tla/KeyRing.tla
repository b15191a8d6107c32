------------------------------ MODULE KeyRing ------------------------------
(***************************************************************************)
(* The client-side key cache of clortho, keyRing.go.                       *)
(*                                                                         *)
(* A keyRing is a map from key IDs to keys behind an RWMutex.  Every       *)
(* method holds that mutex for its whole body and calls nothing outside    *)
(* the package while it does, so each method is one atomic step and each   *)
(* operator below constrains ring and ring' only.  The modules whose       *)
(* processes share a ring extend this one.                                 *)
(*                                                                         *)
(* When two keys of a slice have one ID the code keeps the last, and here  *)
(* either may win.                                                         *)
(***************************************************************************)
EXTENDS Keys

VARIABLE ring   \* ring[id] is the cached key, NoKey when the map has no entry

Rings == [KeyIDs -> Key \cup {NoKey}]

Cached(id) == ring[id] # NoKey

EmptyRing == [id \in KeyIDs |-> NoKey]

(* An entry is a key with the ID it is filed under. *)
WellFiled(r) == \A id \in KeyIDs : r[id] = NoKey \/ r[id].kid = id

(* What the map can be once a slice of keys has been stored in it, and what *)
(* is left once a set of IDs has been deleted.                              *)
Put(r, keys) ==
    {f \in Rings : \A id \in KeyIDs :
        IF id \in Ids(keys) THEN f[id] \in {k \in keys : k.kid = id}
                            ELSE f[id] = r[id]}
Drop(r, ids) == [id \in KeyIDs |-> IF id \in ids THEN NoKey ELSE r[id]]

-----------------------------------------------------------------------------
Add(keys)   == ring' \in Put(ring, keys)
Remove(ids) == ring' = Drop(ring, ids)

(* A refresh event changes the ring unless it reports an error or has      *)
(* neither keys nor deleted keys.  Deletion comes after insertion.         *)
IgnoredWithoutKeys(event) == event.err \/ event.keys = {}   \* a fault

Ignored(event) == event.err \/ (event.keys = {} /\ event.deleted = {})

Merged(r, event) == {Drop(f, Ids(event.deleted)) : f \in Put(r, event.keys)}

OnRefreshEvent(event) ==
    \/ Ignored(event)  /\ UNCHANGED ring
    \/ ~Ignored(event) /\ ring' \in Merged(ring, event)
=============================================================================
