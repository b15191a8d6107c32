----------------------------- MODULE MCResolver -----------------------------
(* The instances of Resolver that TLC checks. *)
EXTENDS Resolver, TLC

CONSTANTS a, b,     \* two key IDs
          m, n      \* two key materials, before and after a rotation

K(id, mat) == [kid |-> id, mat |-> mat]

(* A well-behaved key server: nothing, the key asked for, or a set with it, *)
(* the material being whatever it is at that moment.                        *)
FaithfulResponses ==
    [id \in {a, b} |->
        {{}, {K(a, m), K(b, m)}} \cup {{K(id, mat)} : mat \in {m, n}}]

(* A server that also answers with a key of another ID, or of none. *)
AnyResponses ==
    [id \in {a, b} |->
        {{}, {K(a, m)}, {K(NoID, m)}, {K(b, m), K(NoID, m)}}]

(* A well-behaved one for a single ID, the key alone or in a set.           *)
FaithfulA == [id \in {a} |-> {{}, {K(a, m)}, {K(a, n), K(NoID, m)}}]

NoKeys  == {}
RingKeys == {K(a, n)}

CallSymmetry == Permutations(Calls)
=============================================================================
