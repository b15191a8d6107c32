----------------------------- MODULE MCFetcher -----------------------------
(* The instances of Fetcher that TLC checks. *)
EXTENDS Fetcher, TLC

CONSTANTS a, b,       \* two key IDs
          m, n, x, y  \* materials: two good ones, one unusable, one unhashable

K(id, mat) == [kid |-> id, mat |-> mat]
Doc(kind, keys) == [kind |-> kind, jwks |-> keys]

Thumbprints == [mat \in {m, n, x, y} |-> b]

(* Sets, single JWKs, PEM and a custom kind, with keys named and nameless,  *)
(* good and bad.                                                            *)
ManyDocs ==
    {Doc("set", {}), Doc("set", {K(a, m), K(NoID, n)}), Doc("set", {K(a, m), K(a, x)}),
     Doc("jwk", {K(NoID, m)}), Doc("jwk", {K(NoID, y)}), Doc("pem", {K(NoID, m)}),
     Doc("custom", {K(a, n)}), Doc("custom", {K(NoID, n), K(a, m)})}

AllParsers == [f \in {"json", "jwk", "pem", "own"} |->
                 CASE f = "json" -> "set" [] f = "jwk" -> "jwk"
                   [] f = "pem" -> "pem" [] f = "own" -> "custom"]
=============================================================================
