SPECIFICATION Spec
CONSTANTS
    a = a
    b = b
    m = m
    n = n
    x = x
    y = y
    KeyIDs = {a, b}
    NoID = NoID
    Materials = {m, n, x, y}
    NoKey = NoKey
    Thumbprint <- Thumbprints
    Unusable = {x}
    Unhashable = {y}
    Docs <- ManyDocs
    ParserFor <- AllParsers
    Formats = {"json", "jwk", "pem", "own", "text"}
    Schemes = {"http", "file", "ftp"}
    EmptyIsValid = {"pem"}
    Coarse = FALSE
    MaxStamp = 3
INVARIANTS
    TypeOK
    KeysHaveIDs
    NotModifiedMissesNothing
PROPERTIES
    
    NothingIsDropped
