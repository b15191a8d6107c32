------------------------------ MODULE Options ------------------------------
(***************************************************************************)
(* The options of clortho (options.go), the constructors they are passed   *)
(* to, and the validation of sources (config.go).                          *)
(*                                                                         *)
(* An option stores a value in a field of what is being constructed.  One  *)
(* that fails sets err.                                                    *)
(***************************************************************************)
EXTENDS Integers, Sequences

CONSTANTS
    Nil,                           \* a nil interface
    DefaultLoader, DefaultParser,  \* NewLoader() and NewParser()
    SHA256,                        \* the default keyIDHash
    NoURI,                         \* the empty URI
    BadTemplates                   \* the URI templates that do not parse

Option(field, v) == [field |-> field, v |-> v]

(* Sources add up.  Any other field keeps the last value. *)
Apply(x, o) == [x EXCEPT ![o.field] = IF o.field = "sources" THEN @ \o o.v ELSE o.v]

Applied(x, options) ==
    LET f[i \in 0 .. Len(options)] == IF i = 0 THEN x ELSE Apply(f[i - 1], options[i])
    IN  f[Len(options)]

Default(x, d) == IF x = Nil THEN d ELSE x

-----------------------------------------------------------------------------
WithLoader(l)        == Option("loader", l)
WithParser(p)        == Option("parser", p)
WithKeyIDHash(h)     == Option("keyIDHash", h)
WithFetcher(f)       == Option("fetcher", f)
WithKeyRing(kr)      == Option("keyRing", kr)
WithKeyIDExpander(e) == Option("keyIDExpander", e)
WithSources(sources) == Option("sources", sources)

WithKeyIDTemplate(t) ==
    IF t \in BadTemplates THEN Option("err", TRUE) ELSE WithKeyIDExpander(t)

(* WithConfig is another option to a Resolver and to a Refresher. *)
ResolverConfig(cfg)  == WithKeyIDTemplate(cfg.template)
RefresherConfig(cfg) == WithSources(cfg.sources)

-----------------------------------------------------------------------------
NewFetcher(options) ==
    LET f == Applied([loader |-> Nil, parser |-> Nil, keyIDHash |-> SHA256], options)
    IN  [f EXCEPT !.loader = Default(@, DefaultLoader), !.parser = Default(@, DefaultParser)]

NewResolver(options) ==
    LET r == Applied([fetcher |-> Nil, keyRing |-> Nil, keyIDExpander |-> Nil, err |-> FALSE],
                     options)
    IN  [r EXCEPT !.fetcher = Default(@, NewFetcher(<<>>)),
                  !.err = @ \/ r.keyIDExpander = Nil]

(* validateRefreshSources. *)
InvalidAlone(sources) == \E i \in DOMAIN sources : sources[i].uri = NoURI   \* a fault

Invalid(sources) ==
    \E i \in DOMAIN sources :
        \/ sources[i].uri = NoURI
        \/ \E k \in 1 .. i - 1 : sources[k].uri = sources[i].uri

NewRefresher(options) ==
    LET r == Applied([fetcher |-> Nil, sources |-> <<>>, err |-> FALSE], options)
    IN  [r EXCEPT !.fetcher = Default(@, NewFetcher(<<>>)),
                  !.err = @ \/ Invalid(r.sources)]
=============================================================================
