---------------------------- MODULE MCRefresher ----------------------------
(* The instances of Refresher that TLC checks. *)
EXTENDS Refresher, TLC

CONSTANTS a, b,     \* two key IDs
          m, n,     \* two key materials
          s1, s2    \* two sources

K(id, mat) == [kid |-> id, mat |-> mat]

(* One source has a key that the other serves too, and one of its own,      *)
(* which it withdraws, brings back and rotates.                             *)
MixedKeys ==
    [s \in {s1, s2} |-> IF s = s1 THEN {{}, {K(a, m), K(b, m)}, {K(b, n)}}
                                  ELSE {{}, {K(a, m)}}]

(* A single source, that rotates one key and drops another, of whose ID it *)
(* had two.                                                                *)
Rotating == [s \in {s1} |-> {{K(a, m), K(b, m), K(b, n)}, {K(a, n)}}]

(* A single source, of a single key. *)
OneKey == [s \in {s1} |-> {{}, {K(a, m)}}]
=============================================================================
