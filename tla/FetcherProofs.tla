--------------------------- MODULE FetcherProofs ---------------------------
(***************************************************************************)
(* What is true of Fetcher for every source, parser table and key.         *)
(***************************************************************************)
EXTENDS Fetcher, TLAPS

(* A fetch without an error gives keys, all of them with an ID. *)
LEMMA GoodFetch ==
    ASSUME NEW load, load.data \in Docs \cup {NoData}, ~Fetched(load).err
    PROVE  /\ ~load.err
           /\ Fetched(load).keys \in SUBSET Key
           /\ \A k \in Fetched(load).keys : k.kid \in KeyIDs
<1> DEFINE p == Parse(load.meta.format, load.data)
<1>1. ~load.err /\ Fetched(load) = Identified(p)
  BY DEF Fetched, ParseFailed
<1>2. p.keys \in SUBSET Key
  BY DocsAssumption DEF Parse, Parsed, ParseFailed, NoData
<1>3. \A k \in p.keys : EnsureKeyID(k).kid # NoID
  <2>1. Identified(p).err = (p.err \/ \E k \in p.keys : EnsureKeyID(k).kid = NoID)
    BY Zenon DEF Identified
  <2>2. ~Identified(p).err
    BY <1>1, Zenon
  <2> QED
    BY <2>1, <2>2, Zenon
<1>4. \A k \in Key : EnsureKeyID(k) \in Key
  BY ThumbprintAssumption DEF EnsureKeyID, Key
<1>5. \A k \in Key : k.kid \in KeyIDs \cup {NoID}
  BY DEF Key
<1> QED
  BY <1>1, <1>2, <1>3, <1>4, <1>5 DEF Identified

(* What a load can be. *)
LoadOK(meta, load) ==
    /\ load.status \in Statuses
    /\ load.data \in Docs \cup {NoData}
    /\ load.meta \in Meta
    /\ load.err \in BOOLEAN
    /\ load.status = "304" => load.data = NoData /\ (src.strict => IsConditional(meta))
    /\ load.status = "200" => load.data = IF src.sized THEN src.doc ELSE NoData
    /\ load.status = "file" => load.data = src.doc
    /\ ~load.err => load.status \in {"304", "200", "file"}

(* Whatever a loader returns is what a load can be. *)
LEMMA LoadTypes ==
    ASSUME src \in Source, NEW meta \in Meta, NEW load \in Loads(meta)
    PROVE  LoadOK(meta, load)
<1> USE DEF LoadOK
<1>0. /\ src.format \in Formats /\ src.doc \in Docs /\ src.stamp \in 0 .. MaxStamp
      /\ src.sized \in BOOLEAN /\ 0 \in 0 .. MaxStamp
  BY MaxStampAssumption DEF Source
<1>1. CASE src.scheme \in {"http", "https"}
  <2>1. load \in HTTPLoads(meta)
    BY <1>1 DEF Loads
  <2> QED
    <3>1. load \in {LoadFailed("failed", meta), LoadFailed("other", meta)}
          \/ \E told \in Meta :
                /\ src.strict => IsConditional(meta)
                /\ load = Loaded("304", NoData, told)
          \/ load = Loaded("200", IF src.sized THEN src.doc ELSE NoData,
                           [format |-> src.format, stamp |-> src.stamp])
      <4>1. \A t \in [format : {"none", src.format}, stamp : {0, src.stamp}] : t \in Meta
        BY <1>0 DEF Meta
      <4> QED
        BY <2>1, <4>1 DEF HTTPLoads
    <3>2. CASE load \in {LoadFailed("failed", meta), LoadFailed("other", meta)}
      <4>1. CASE load = LoadFailed("failed", meta)
        BY <4>1 DEF LoadFailed, Statuses
      <4>2. CASE load = LoadFailed("other", meta)
        BY <4>2 DEF LoadFailed, Statuses
      <4> QED
        BY <3>2, <4>1, <4>2
    <3>3. ASSUME NEW told \in Meta, src.strict => IsConditional(meta),
                 load = Loaded("304", NoData, told)
          PROVE  LoadOK(meta, load)
      BY <3>3 DEF Loaded, Meta, Statuses
    <3>4. CASE load = Loaded("200", IF src.sized THEN src.doc ELSE NoData,
                             [format |-> src.format, stamp |-> src.stamp])
      BY <1>0, <3>4 DEF Loaded, Meta, Statuses
    <3> QED
      BY <3>1, <3>2, <3>3, <3>4
<1>2. CASE src.scheme \in {"file", "none"}
  <2>1. load \in FileLoads(meta)
    BY <1>2 DEF Loads
  <2> QED
    <3>1. CASE load = LoadFailed("failed", meta)
      BY <3>1 DEF LoadFailed, Statuses
    <3>2. CASE load = Loaded("file", src.doc, [format |-> src.format, stamp |-> src.stamp])
      BY <1>0, <3>2 DEF Loaded, Meta, Statuses
    <3> QED
      BY <2>1, <3>1, <3>2 DEF FileLoads
<1>3. CASE src.scheme \notin {"http", "https", "file", "none"}
  <2>1. load = LoadFailed("unsupported", meta)
    BY <1>3 DEF Loads
  <2> QED
    BY <2>1 DEF LoadFailed, Statuses
<1> QED
  BY <1>1, <1>2, <1>3

(* Without content a fetch fails, or gives no keys when the format takes it *)
(* so.                                                                      *)
LEMMA NoContent ==
    ASSUME NEW load, load.data = NoData, ~Fetched(load).err
    PROVE  TakesNothing(load.meta.format) /\ Fetched(load).keys = {}
<1> DEFINE p == Parse(load.meta.format, load.data)
<1>1. ~load.err /\ Fetched(load) = Identified(p)
  BY DEF Fetched, ParseFailed
<1>2. ~p.err
  <2>1. Identified(p).err = (p.err \/ \E k \in p.keys : EnsureKeyID(k).kid = NoID)
    BY Zenon DEF Identified
  <2> QED
    BY <1>1, <2>1, Zenon
<1>3. \A f \in DOMAIN ParserFor : load.data.kind \notin Accepts(ParserFor[f])
  BY ParsersAssumption DEF NoData, Accepts
<1>4. TakesNothing(load.meta.format) /\ p = Parsed(load.data.jwks)
  BY <1>2, <1>3 DEF Parse, ParseFailed, TakesNothing
<1>5. p.keys = {}
  BY <1>4 DEF Parsed, NoData
<1> QED
  BY <1>1, <1>4, <1>5 DEF Identified

(* A fetch fails or does not. *)
LEMMA FetchedErr ==
    ASSUME NEW load
    PROVE  Fetched(load).err \in BOOLEAN
BY DEF Fetched, Parse, Parsed, ParseFailed, Identified

(* Every variable keeps its type, whatever the source becomes (loader.go, *)
(* parser.go).                                                            *)
THEOREM TypeCorrect == Spec => []TypeOK
<1>1. Init => TypeOK
  BY MaxStampAssumption DEF Init, TypeOK, ZeroMeta, Meta, Statuses
<1>2. TypeOK /\ [Next]_vars => TypeOK'
  <2> SUFFICES ASSUME TypeOK, [Next]_vars PROVE TypeOK'
    OBVIOUS
  <2>1. CASE Poll
    <3>1. PICK load \in Loads(prevMeta) :
            /\ Remember(load, Fetched(load))
            /\ prevKeys' = IF Fetched(load).err THEN prevKeys ELSE Fetched(load).keys
            /\ prevMeta' = IF Fetched(load).err THEN ZeroMeta ELSE load.meta
            /\ UNCHANGED src
      BY <2>1 DEF Poll
    <3>2. load.status \in Statuses /\ load.data \in Docs \cup {NoData} /\ load.meta \in Meta
      BY <3>1, LoadTypes DEF LoadOK, TypeOK
    <3>3. ZeroMeta \in Meta
      BY MaxStampAssumption DEF ZeroMeta, Meta
    <3> QED
      BY <3>1, <3>2, <3>3, GoodFetch, FetchedErr DEF TypeOK, Remember
  <2>2. CASE PollPanics
    BY <2>2 DEF PollPanics, TypeOK, Statuses
  <2>3. CASE Change
    BY <2>3 DEF Change, TypeOK
  <2>4. CASE Crashed \/ UNCHANGED vars
    BY <2>4 DEF Crashed, vars, TypeOK
  <2> QED
    BY <2>1, <2>2, <2>3, <2>4 DEF Next
<1> QED
  BY <1>1, <1>2, PTL DEF Spec

(* Every key a task keeps has an ID. *)
THEOREM KeysHaveIDsHolds == Spec => []KeysHaveIDs
<1>1. Init => KeysHaveIDs
  BY DEF Init, KeysHaveIDs
<1>2. TypeOK /\ KeysHaveIDs /\ [Next]_vars => KeysHaveIDs'
  BY LoadTypes, GoodFetch DEF LoadOK, TypeOK, KeysHaveIDs, Next, Poll, PollPanics, Crashed,
         Change, vars
<1> QED
  BY <1>1, <1>2, TypeCorrect, PTL DEF Spec

(* A stamp that is kept is no newer than the source, and, unless contents   *)
(* change behind it, the stamp of the keys that are kept.                   *)
StampInv == ~Coarse /\ ~TakesNothing(prevMeta.format) /\ prevMeta.stamp # 0 =>
    /\ prevMeta.stamp <= src.stamp
    /\ prevMeta.stamp = src.stamp => ~WouldGet.err /\ prevKeys = WouldGet.keys

(* The content behind a stamp a task sends is content it has the keys of,   *)
(* but for a format that needs no content.                                  *)
THEOREM NotModifiedMissesNothingHolds == Spec => []NotModifiedMissesNothing
<1>1. Init => StampInv
  BY DEF Init, StampInv, ZeroMeta
<1>2. TypeOK /\ StampInv /\ [Next]_vars => StampInv'
  <2> SUFFICES ASSUME TypeOK, StampInv, [Next]_vars, ~Coarse,
                      ~TakesNothing(prevMeta'.format), prevMeta'.stamp # 0
               PROVE  /\ prevMeta'.stamp <= src'.stamp
                      /\ prevMeta'.stamp = src'.stamp => ~WouldGet'.err /\ prevKeys' = WouldGet'.keys
    BY DEF StampInv, TakesNothing
  <2>1. CASE Poll
    <3>1. PICK load \in Loads(prevMeta) :
            /\ prevKeys' = IF Fetched(load).err THEN prevKeys ELSE Fetched(load).keys
            /\ prevMeta' = IF Fetched(load).err THEN ZeroMeta ELSE load.meta
            /\ UNCHANGED src
      BY <2>1 DEF Poll
    <3>2. ~Fetched(load).err /\ prevMeta' = load.meta
      BY <3>1 DEF ZeroMeta
    <3>3. load.data # NoData
      BY <3>2, NoContent
    <3>4. ~load.err
      BY <3>2 DEF Fetched, ParseFailed
    <3>5. /\ load.data = src.doc
          /\ src.sized \/ src.scheme \notin {"http", "https"}
          /\ load.meta = [format |-> src.format, stamp |-> src.stamp]
      BY <3>1, <3>3, <3>4 DEF Loads, HTTPLoads, FileLoads, Loaded, LoadFailed
    <3>6. Fetched(load) = WouldGet
      <4>1. (IF src.sized \/ src.scheme \notin {"http", "https"} THEN src.doc ELSE NoData) = load.data
        BY <3>5
      <4> QED
        BY <3>4, <3>5, <4>1 DEF WouldGet, Fetched, Loaded
    <3> QED
      BY <3>1, <3>2, <3>5, <3>6 DEF WouldGet, Fetched, Loaded, TypeOK, Source
  <2>2. CASE Change
    BY <2>2, MaxStampAssumption DEF Change, TypeOK, StampInv, Source, Meta
  <2>3. CASE PollPanics \/ Crashed \/ UNCHANGED vars
    BY <2>3 DEF PollPanics, Crashed, vars, StampInv, WouldGet, Fetched, Loaded
  <2> QED
    BY <2>1, <2>2, <2>3 DEF Next
<1>3. StampInv => NotModifiedMissesNothing
  BY DEF StampInv, NotModifiedMissesNothing
<1> QED
  BY <1>1, <1>2, <1>3, TypeCorrect, PTL DEF Spec

(* After a "not modified" the next poll is unconditional, unless there was  *)
(* content in it to the parser.                                             *)
THEOREM NeverTwoNotModifiedHolds == Spec => NeverTwoNotModified
<1> DEFINE Forgets ==
      last.status = "304" => prevMeta = ZeroMeta \/ TakesNothing(prevMeta.format)
<1>1. Init => Forgets
  BY DEF Init
<1>2. TypeOK /\ Forgets /\ [Next]_vars => Forgets'
  <2> SUFFICES ASSUME TypeOK, Forgets, [Next]_vars, last'.status = "304"
               PROVE  prevMeta' = ZeroMeta \/ TakesNothing(prevMeta'.format)
    BY DEF TakesNothing
  <2>1. CASE Poll
    <3>1. PICK load \in Loads(prevMeta) :
            /\ last' = [status |-> load.status, err |-> Fetched(load).err]
            /\ prevMeta' = IF Fetched(load).err THEN ZeroMeta ELSE load.meta
      BY <2>1 DEF Poll, Remember
    <3>2. load.data = NoData
      BY <3>1, LoadTypes DEF LoadOK, TypeOK
    <3> QED
      BY <3>1, <3>2, NoContent
  <2>2. CASE PollPanics
    BY <2>2 DEF PollPanics
  <2>3. CASE Change \/ Crashed \/ UNCHANGED vars
    BY <2>3 DEF Change, Crashed, vars
  <2> QED
    BY <2>1, <2>2, <2>3 DEF Next
<1>3. TypeOK /\ Forgets /\ [Next]_vars =>
        (Poll /\ last.status = "304" /\ last'.status = "304" =>
            ~src.strict \/ TakesNothing(prevMeta.format))
  <2> SUFFICES ASSUME TypeOK, Forgets, Poll, last.status = "304", last'.status = "304",
                      src.strict
               PROVE  TakesNothing(prevMeta.format)
    OBVIOUS
  <2>1. PICK load \in Loads(prevMeta) : last' = [status |-> load.status, err |-> Fetched(load).err]
    BY DEF Poll, Remember
  <2>2. prevMeta.stamp # 0
    BY <2>1, LoadTypes DEF LoadOK, TypeOK, IsConditional
  <2> QED
    BY <2>2 DEF ZeroMeta
<1> QED
  BY <1>1, <1>2, <1>3, TypeCorrect, PTL DEF Spec, NeverTwoNotModified

(* A good fetch converts every JWK, and identifying a key keeps its         *)
(* material, and the key itself if it has an ID.                            *)
LEMMA GoodFetchIsWhole ==
    ASSUME NEW load, load.data \in Docs \cup {NoData}, ~Fetched(load).err,
           NEW j \in load.data.jwks
    PROVE  \E k \in Fetched(load).keys : k.mat = j.mat /\ (j.kid # NoID => k = j)
<1> DEFINE p == Parse(load.meta.format, load.data)
<1>1. Fetched(load) = Identified(p)
  BY DEF Fetched, ParseFailed
<1>2. Fetched(load).keys = {EnsureKeyID(k) : k \in p.keys}
  BY <1>1 DEF Identified
<1>3. ~p.err
  <2>1. Identified(p).err = (p.err \/ \E k \in p.keys : EnsureKeyID(k).kid = NoID)
    BY Zenon DEF Identified
  <2> QED
    BY <1>1, <2>1, Zenon
<1>4. p = Parsed(load.data.jwks)
  BY <1>3 DEF Parse, ParseFailed
<1>5. j \in p.keys
  <2>1. ~ \E k \in load.data.jwks : k.mat \in Unusable
    BY <1>3, <1>4 DEF Parsed
  <2> QED
    BY <1>4, <2>1 DEF Parsed
<1>6. j \in Key
  BY DocsAssumption DEF NoData
<1>7. EnsureKeyID(j).mat = j.mat /\ (j.kid # NoID => EnsureKeyID(j) = j)
  BY <1>6, ThumbprintAssumption DEF EnsureKeyID, Key
<1> QED
  BY <1>2, <1>5, <1>7

(* A good fetch has a key for each JWK the source has (parser.go, key.go),  *)
(* or is one without content, of a format that needs none (loader.go).      *)
THEOREM NothingIsDroppedHolds == Spec => NothingIsDropped
<1>1. TypeOK /\ [Next]_vars => (Poll /\ ~last'.err => WholeFetch \/ EmptyFetch)
  <2> SUFFICES ASSUME TypeOK, Poll, ~last'.err PROVE WholeFetch \/ EmptyFetch
    OBVIOUS
  <2>1. PICK load \in Loads(prevMeta) :
          /\ last' = [status |-> load.status, err |-> Fetched(load).err]
          /\ prevKeys' = IF Fetched(load).err THEN prevKeys ELSE Fetched(load).keys
          /\ prevMeta' = IF Fetched(load).err THEN ZeroMeta ELSE load.meta
    BY DEF Poll, Remember
  <2>2. /\ ~Fetched(load).err /\ last'.status = load.status
        /\ prevKeys' = Fetched(load).keys /\ prevMeta' = load.meta
    BY <2>1
  <2>3. LoadOK(prevMeta, load) /\ ~load.err
    BY <2>1, <2>2, LoadTypes DEF TypeOK, Fetched, ParseFailed
  <2>4. CASE load.data = src.doc /\ load.status \in {"200", "file"}
    BY <2>2, <2>3, <2>4, GoodFetchIsWhole DEF LoadOK, WholeFetch
  <2>5. CASE load.data = NoData /\ (load.status = "304" \/ (load.status = "200" /\ ~src.sized))
    BY <2>2, <2>5, NoContent DEF EmptyFetch
  <2> QED
    BY <2>3, <2>4, <2>5 DEF LoadOK
<1> QED
  BY <1>1, TypeCorrect, PTL DEF Spec, NothingIsDropped
=============================================================================
