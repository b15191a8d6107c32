SPECIFICATION Spec
CONSTANTS
    a = a
    b = b
    m = m
    n = n
    KeyIDs = {a, b}
    NoID = NoID
    Materials = {m, n}
    NoKey = NoKey
    Calls = {c1, c2, c3}
    NoCall = NoCall
    HasRing = TRUE
    PanicsRecovered = TRUE
    Responses <- FaithfulResponses
    ClientKeys <- NoKeys
SYMMETRY CallSymmetry
INVARIANTS
    PendingIsInFlight
