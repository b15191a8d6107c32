SPECIFICATION FairSpec
CONSTANTS
    Threads = {t1, t2, t3}
    NoThread = NoThread
    Listeners = {l1, l2}
    Nil = Nil
    MaxEvents = 2
\* A callback that calls back blocks for ever, and every other thread with it.
CHECK_DEADLOCK FALSE
INVARIANTS
    IInv
    NoGapsAtRest
PROPERTIES
    ImplementsBroadcast
    CancelIsFinal
    OnlyReentryBlocks
