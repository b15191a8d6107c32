SPECIFICATION AnsweringSpec
CONSTANTS
    a = a
    b = b
    m = m
    n = n
    s1 = s1
    s2 = s2
    KeyIDs = {a, b}
    NoID = NoID
    Materials = {m, n}
    NoKey = NoKey
    Sources = {s1, s2}
    Contents <- MixedKeys
    Conditional = {s1}
    Reliable = {}
    MaxRuns = 1
    MaxChanges = 2
INVARIANTS
    RingTracksEvents
PROPERTIES
    Converges
