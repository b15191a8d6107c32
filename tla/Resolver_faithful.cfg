SPECIFICATION ScheduledSpec
CONSTANTS
    a = a
    b = b
    m = m
    n = n
    KeyIDs = {a}
    NoID = NoID
    Materials = {m, n}
    NoKey = NoKey
    Calls = {c1, c2, c3}
    NoCall = NoCall
    HasRing = TRUE
    PanicsRecovered = FALSE
    Responses <- FaithfulA
    ClientKeys <- NoKeys
INVARIANTS
    AnswersHaveRequestedID
    NoSecondFetch
    PendingIsInFlight
PROPERTIES
    CallsReturn
    CancelledWaitersReturn
    LockIsGranted
