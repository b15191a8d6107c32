SPECIFICATION FairSpec
CONSTANTS
    a = a
    b = b
    m = m
    n = n
    s1 = s1
    s2 = s2
    KeyIDs = {a, b}
    NoID = NoID
    Materials = {m, n}
    NoKey = NoKey
    Sources = {s1}
    Contents <- Rotating
    Conditional = {s1}
    Reliable = {}
    MaxRuns = 2
    MaxChanges = 2
INVARIANTS
    IInv
    AtMostOneLateEvent
    OneLiveRun
    ErrKeysAreLastKnown
    DiffsAreExact
PROPERTIES
    StoppedTasksExit
