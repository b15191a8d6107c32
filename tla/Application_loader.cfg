SPECIFICATION Spec
CONSTANTS
    u = u
    v = v
    p = p
    q = q
    l = l
    template = template
    broken = broken
    MaxInt = 127
    Exact = 64
    Second = 4
    DefaultInterval = 40
    DefaultMinInterval = 6
    DefaultJitter <- Tenth
    Bad = Bad
    NoValue = NoValue
    Nil = Nil
    DefaultLoader = DefaultLoader
    DefaultParser = DefaultParser
    SHA256 = SHA256
    NoURI = NoURI
    BadTemplates = {broken}
    Applications <- ManyApplications
    Headers <- ManyHeaders
INVARIANTS
    InjectedLoaderIsUsed
