SPECIFICATION Spec
CONSTANTS
    a = a
    b = b
    m = m
    n = n
    s1 = s1
    s2 = s2
    KeyIDs = {a, b}
    NoID = NoID
    Materials = {m, n}
    NoKey = NoKey
    Sources = {s1}
    Contents <- OneKey
    Conditional = {s1}
    Reliable = {s1}
    MaxRuns = 1
    MaxChanges = 0
INVARIANTS
    NotModifiedIsNoError
