--------------------------- MODULE MCApplication ---------------------------
(* The instances of Application that TLC checks, with an int64 of 8 bits,   *)
(* in which 32 seconds are too many, and a float64 that has 6 bits for it.  *)
EXTENDS Application, TLC

CONSTANTS u, v,              \* two URIs
          p, q, l,           \* two parsers, a loader
          template, broken   \* two URI templates

Tenth == [num |-> 1, den |-> 10]

Source(uri, interval, min, num, den) ==
    [uri |-> uri, interval |-> interval, minInterval |-> min,
     jitter |-> [num |-> num, den |-> den]]

Unset(uri) == Source(uri, 0, 0, 0, 1)

(* Every kind of interval, minimum and jitter: unset, improper, small, and  *)
(* so large that arithmetic overflows.                                      *)
SourceLists ==
    {<<Source(u, i, min, j[1], j[2])>> :
        i \in {0, 20, 120}, min \in {-1, 5, 60}, j \in {<<0, 1>>, <<1, 4>>, <<1, 128>>, <<9, 10>>, <<3, 2>>}}
    \cup {<<>>, <<Unset(NoURI)>>, <<Unset(u), Unset(u)>>, <<Unset(u), Source(v, 4, 2, 1, 4)>>}

App(options, parser, loader, t, sources) ==
    [fetcherOptions |-> options, parser |-> parser, loader |-> loader,
     config |-> [template |-> t, sources |-> sources]]

(* Every way to wire one source, and every source wired in one way. *)
ManyApplications ==
    {App(options, parser, loader, t, <<Unset(u)>>) :
        options \in {<<>>, <<WithParser(q), WithKeyIDHash("MD5")>>, <<WithLoader(l)>>},
        parser \in {Nil, p}, loader \in {Nil, l}, t \in {template, broken}}
    \cup {App(<<>>, Nil, Nil, template, sources) : sources \in SourceLists}

Age(n)   == <<[name |-> "max-age", value |-> n]>>
Others   == <<[name |-> "other", value |-> NoValue], [name |-> "max-age", value |-> NoValue]>>

(* No max-age or a bad one; then ages on both sides of where they overflow. *)
ManyHeaders ==
    {<<>>, Others, Age(Bad) \o Age(10), Others \o Age(10)}
    \cup {Age(n) : n \in {-2, 0, 1, 3, 10, 31, 32, 63, 64, 65}}
=============================================================================
