----------------------------- MODULE MCClortho -----------------------------
(* The instances of Clortho that TLC checks. *)
EXTENDS Clortho

CONSTANTS a,        \* a key ID
          m, n,     \* two key materials, before and after a rotation
          s1        \* a source

K(id, mat) == [kid |-> id, mat |-> mat]

(* A source has a key, which may be rotated or withdrawn. *)
OneKey == [s \in {s1} |-> {{}, {K(a, m)}, {K(a, n)}}]
=============================================================================
