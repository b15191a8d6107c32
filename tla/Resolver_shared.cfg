SPECIFICATION Spec
CONSTANTS
    a = a
    b = b
    m = m
    n = n
    KeyIDs = {a, b}
    NoID = NoID
    Materials = {m, n}
    NoKey = NoKey
    Calls = {c1, c2, c3}
    NoCall = NoCall
    HasRing = TRUE
    PanicsRecovered = TRUE
    Responses <- AnyResponses
    ClientKeys <- RingKeys
SYMMETRY CallSymmetry
INVARIANTS
    IInv
    SingleFlight
    WaitersCanBeWoken
    WaitersAgree
    NoCircularWait
PROPERTIES
    ImplementsFlights
