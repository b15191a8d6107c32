SPECIFICATION FairSpec
CONSTANTS
    a = a
    m = m
    n = n
    s1 = s1
    KeyIDs = {a}
    NoID = NoID
    Materials = {m, n}
    NoKey = NoKey
    Calls = {c1}
    NoCall = NoCall
    PanicsRecovered = TRUE
    Sources = {s1}
    Contents <- OneKey
    Conditional = {s1}
    Reliable = {}
    MaxRuns = 1
    MaxChanges = 2
INVARIANTS
    TypeOK
    RingIsExplained
    GaugeIsLastKnown
PROPERTIES
    ServedKeysAreFresh
