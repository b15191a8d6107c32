-------------------------------- MODULE Keys --------------------------------
(***************************************************************************)
(* Keys as the rest of clortho sees them (key.go, keys.go): an identifier, *)
(* possibly empty, and the key material.  A slice of keys is the set of    *)
(* the keys in it.                                                         *)
(***************************************************************************)
CONSTANTS
    KeyIDs,     \* the nonempty key identifiers
    NoID,       \* the empty identifier, Key.KeyID() == ""
    Materials,  \* the values key material may have
    NoKey       \* the nil Key

ASSUME NoIDAssumption  == NoID \notin KeyIDs
ASSUME NoKeyAssumption == NoKey \notin [kid : KeyIDs \cup {NoID}, mat : Materials]

Key == [kid : KeyIDs \cup {NoID}, mat : Materials]

Ids(keys) == {k.kid : k \in keys}
=============================================================================
