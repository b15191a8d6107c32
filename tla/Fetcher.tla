------------------------------ MODULE Fetcher ------------------------------
(***************************************************************************)
(* fetcher.Fetch and what it is made of: the Loader that gets content from *)
(* a URI (loader.go), the Parser that turns content into keys (parser.go,  *)
(* key.go), and EnsureKeyID, which gives keys without an ID their          *)
(* thumbprint.  Here one refreshTask (refresher.go) polls one source and   *)
(* keeps the keys and the ContentMeta of its last good fetch.              *)
(*                                                                         *)
(* The servers, file systems and the JWK library are external.  Content is *)
(* a document of some kind with its JWKs; a stamp is a time of last        *)
(* modification, 0 when there is none.                                     *)
(***************************************************************************)
EXTENDS Keys, Naturals

CONSTANTS
    Thumbprint,    \* Thumbprint[mat]: the ID EnsureKeyID derives from material
    Unusable,      \* materials convertJWKKey cannot convert
    Unhashable,    \* materials that have no thumbprint
    Docs,          \* documents the source may hold
    ParserFor,     \* ParserFor[format]: "jwk", "set", "pem" or "custom"; parsers.p
    Formats,       \* the formats content may be labelled with
    Schemes,       \* the schemes the source's URI may have
    EmptyIsValid,  \* the parsers that take no content for no keys, as "pem" does
    Coarse,        \* whether content may change and keep its stamp
    MaxStamp       \* bound on stamps

NoData == [kind |-> "none", jwks |-> {}]

ASSUME ParsersAssumption ==
    /\ DOMAIN ParserFor \subseteq Formats
    /\ ParserFor \in [DOMAIN ParserFor -> {"jwk", "set", "pem", "custom"}]
ASSUME ThumbprintAssumption == Thumbprint \in [Materials -> KeyIDs]
ASSUME MaxStampAssumption == MaxStamp \in Nat
ASSUME DocsAssumption ==
    Docs \subseteq [kind : {"jwk", "set", "pem", "custom"}, jwks : SUBSET Key]

VARIABLES
    src,       \* the source as it is now
    prevMeta,  \* the metadata the task sends, ZeroMeta after an error
    prevKeys,  \* the keys of its last good fetch
    last       \* what became of its last fetch

vars == <<src, prevMeta, prevKeys, last>>

Source == [scheme : Schemes, format : Formats, doc : Docs, stamp : 0 .. MaxStamp,
           sized : BOOLEAN,   \* an HTTP response has a Content-Length
           get : BOOLEAN,     \* the encoders leave the HTTP method a GET or HEAD
           strict : BOOLEAN]  \* the server says "not modified" only when it may

(* "none" stands for the empty format, and for the scheme of a plain path. *)
ZeroMeta == [format |-> "none", stamp |-> 0]
Meta     == [format : Formats \cup {"none"}, stamp : 0 .. MaxStamp]

-----------------------------------------------------------------------------
(* LoadContent: what it returns, and for HTTP the status it was told.       *)
Loaded(status, data, meta)  == [status |-> status, data |-> data, meta |-> meta, err |-> FALSE]
LoadFailed(status, meta)    == [status |-> status, data |-> NoData, meta |-> meta, err |-> TRUE]

(* newRequest: conditional if there is a stamp and the method is right.     *)
IsConditional(meta) == meta.stamp # 0 /\ src.get

(* HTTPLoader: an encoder, the client (the timeout included) or the body    *)
(* fails; the status is not one of two; the server says that its content    *)
(* has not been modified, which is not held against the request, and there  *)
(* is no data, nor need there be a Content-Type; or it sends its content,   *)
(* which is read if its length is known.                                    *)
HTTPLoads(meta) ==
    {LoadFailed("failed", meta), LoadFailed("other", meta)}
    \cup {Loaded("304", NoData, told) :
            told \in {t \in [format : {"none", src.format}, stamp : {0, src.stamp}] :
                        src.strict => IsConditional(meta) /\ src.stamp <= meta.stamp}}
    \cup {Loaded("200", IF src.sized THEN src.doc ELSE NoData,
                 [format |-> src.format, stamp |-> src.stamp])}

(* FileLoader: not there, not a file or not readable; else all of it.  The  *)
(* metadata that comes in is not used.                                      *)
FileLoads(meta) ==
    {LoadFailed("failed", meta),
     Loaded("file", src.doc, [format |-> src.format, stamp |-> src.stamp])}

(* loaders: by the scheme, which a Loader must be registered for.           *)
Loads(meta) ==
    CASE src.scheme \in {"http", "https"} -> HTTPLoads(meta)
      [] src.scheme \in {"file", "none"}      -> FileLoads(meta)
      [] OTHER                            -> {LoadFailed("unsupported", meta)}

-----------------------------------------------------------------------------
ParsedSilently(jwks) ==         \* a fault: conversion errors are dropped
    [keys |-> {k \in jwks : k.mat \notin Unusable}, err |-> FALSE]

Parsed(jwks) ==
    [keys |-> {k \in jwks : k.mat \notin Unusable},
     err  |-> \E k \in jwks : k.mat \in Unusable]
ParseFailed == [keys |-> {}, err |-> TRUE]

(* JWKKeyParser takes a single JWK, JWKSetParser that or a set, and with    *)
(* its PEM option only PEM, of which no content is a set of no keys.  A     *)
(* custom Parser has content, and keys, of its own kind.                    *)
Accepts(parser) ==
    CASE parser = "jwk" -> {"jwk"}
      [] parser = "set" -> {"jwk", "set"}
      [] parser = "pem" -> {"pem"}
      [] parser = "custom" -> {"custom"}

(* parsers.Parse, by the format without its parameters. *)
Parse(format, data) ==
    IF /\ format \in DOMAIN ParserFor
       /\ \/ data.kind \in Accepts(ParserFor[format])
          \/ data = NoData /\ ParserFor[format] \in EmptyIsValid
    THEN Parsed(data.jwks) ELSE ParseFailed

(* EnsureKeyID on every key: one that cannot be hashed stays as it is, and  *)
(* is an error.                                                             *)
RawThumbprint(k) ==             \* a fault: the thumbprint is not encoded
    IF k.kid = NoID /\ k.mat \notin Unhashable THEN [k EXCEPT !.kid = k.mat] ELSE k

EnsureKeyID(k) ==
    IF k.kid = NoID /\ k.mat \notin Unhashable
    THEN [k EXCEPT !.kid = Thumbprint[k.mat]] ELSE k

Identified(parsed) ==
    [keys |-> {EnsureKeyID(k) : k \in parsed.keys},
     err  |-> parsed.err \/ \E k \in parsed.keys : EnsureKeyID(k).kid = NoID]

(* Fetch, of what was loaded: keys may come with an error. *)
Fetched(load) ==
    IF load.err THEN ParseFailed ELSE Identified(Parse(load.meta.format, load.data))

(* EnsureKeyID copies a key it has a thumbprint for, which it asserts to be *)
(* one of clortho's own: it panics on a custom Parser's.                    *)
Panics(load) ==
    /\ ~load.err
    /\ load.meta.format \in DOMAIN ParserFor
    /\ ParserFor[load.meta.format] = "custom"
    /\ \E k \in Parse(load.meta.format, load.data).keys :
          k.kid = NoID /\ k.mat \notin Unhashable

-----------------------------------------------------------------------------
Init ==
    /\ src \in Source
    /\ prevMeta = ZeroMeta
    /\ prevKeys = {}
    /\ last = [status |-> "none", err |-> FALSE]

Remember(load, got) == last' = [status |-> load.status, err |-> got.err]

Running == last.status # "panicked"

(* The two faults of a poll that handles an error badly. *)
PollKeepingMeta ==
    Running /\ \E load \in Loads(prevMeta) : ~Panics(load) /\
        LET got == Fetched(load)
        IN  /\ Remember(load, got)
            /\ prevKeys' = IF got.err THEN prevKeys ELSE got.keys
            /\ prevMeta' = load.meta
            /\ UNCHANGED src

PollKeepingKeys ==
    Running /\ \E load \in Loads(prevMeta) : ~Panics(load) /\
        LET got == Fetched(load)
        IN  /\ Remember(load, got)
            /\ prevKeys' = IF load.err THEN prevKeys ELSE got.keys
            /\ prevMeta' = IF got.err THEN ZeroMeta ELSE load.meta
            /\ UNCHANGED src

(* One iteration of run: the fetch, and what the task remembers of it. *)
Poll ==
    Running /\ \E load \in Loads(prevMeta) : ~Panics(load) /\
        LET got == Fetched(load)
        IN  /\ Remember(load, got)
            /\ prevKeys' = IF got.err THEN prevKeys ELSE got.keys
            /\ prevMeta' = IF got.err THEN ZeroMeta ELSE load.meta
            /\ UNCHANGED src

(* No one recovers in a task: a panic ends the program. *)
PollPanics ==
    /\ Running
    /\ \E load \in Loads(prevMeta) : Panics(load)
    /\ last' = [status |-> "panicked", err |-> TRUE]
    /\ UNCHANGED <<src, prevMeta, prevKeys>>

Crashed == ~Running /\ UNCHANGED vars

(* Anything about the source but its URI, its encoders and what its server  *)
(* is like may change.                                                      *)
Change ==
    /\ Running
    /\ \E s \in Source :
          /\ s.scheme = src.scheme /\ s.get = src.get /\ s.strict = src.strict
          /\ s.stamp \in {src.stamp + 1} \cup (IF Coarse THEN {src.stamp} ELSE {})
          /\ src' = s
    /\ UNCHANGED <<prevMeta, prevKeys, last>>

Next == Poll \/ PollPanics \/ Change \/ Crashed

Spec == Init /\ [][Next]_vars

-----------------------------------------------------------------------------
Statuses == {"none", "failed", "other", "304", "200", "file", "unsupported", "panicked"}

TypeOK ==
    /\ src \in Source
    /\ prevMeta \in Meta
    /\ prevKeys \in SUBSET Key
    /\ last \in [status : Statuses, err : BOOLEAN]

(* What a task may tell its listeners: keys that all have an ID, though     *)
(* neither the source nor the parser promises one.                          *)
KeysHaveIDs == \A k \in prevKeys : k.kid \in KeyIDs

(* A response without content passes for one without keys, when its format  *)
(* has a parser that takes it so, as PEM has.                               *)
TakesNothing(format) == format \in DOMAIN ParserFor /\ ParserFor[format] \in EmptyIsValid

(* A task does not send the stamp of content it has not got the keys of: if *)
(* the source has not been modified since, to read all of it again would    *)
(* give the keys the task has.  So nothing is missed by a "not modified",   *)
(* if stamps change with the content, and the last good response was in a   *)
(* format that needs content.                                               *)
WouldGet ==
    LET whole == src.sized \/ src.scheme \notin {"http", "https"}
    IN  Fetched(Loaded("again", IF whole THEN src.doc ELSE NoData,
                       [format |-> src.format, stamp |-> src.stamp]))

NotModifiedMissesNothing ==
    /\ ~Coarse /\ ~TakesNothing(prevMeta.format)
    /\ prevMeta.stamp # 0 /\ prevMeta.stamp = src.stamp
    => ~WouldGet.err /\ prevKeys = WouldGet.keys

(* "Not modified" is an error to the parser and makes the task forget its   *)
(* stamp, so the poll after it is unconditional, and reads the content.  It *)
(* takes a server that answers so to an unconditional request to do it      *)
(* twice, or a "not modified" that says to be in a format that needs no     *)
(* content.                                                                 *)
NeverTwoNotModified ==
    [][Poll /\ last.status = "304" /\ last'.status = "304" =>
          ~src.strict \/ TakesNothing(prevMeta.format)]_vars

(* All or nothing: a good fetch has a key for each JWK the source has.  But *)
(* a response that has no content, or none whose length is known, in a      *)
(* format that needs none is a good one too, and leaves the task no keys.   *)
WholeFetch ==
    /\ last'.status \in {"200", "file"}
    /\ \A j \in src.doc.jwks : \E k \in prevKeys' :
          k.mat = j.mat /\ (j.kid # NoID => k = j)

EmptyFetch ==
    /\ last'.status = "304" \/ (last'.status = "200" /\ ~src.sized)
    /\ TakesNothing(prevMeta'.format)
    /\ prevKeys' = {}

NothingIsDropped == [][Poll /\ ~last'.err => WholeFetch \/ EmptyFetch]_vars
=============================================================================
