SPECIFICATION FairSpec
CONSTANTS
    Call = {c1, c2}
    Visit = {v1, v2}
INVARIANTS
    TypeOK
    CleanExitDrains
    AgentsNotIteratedWhileWritten
PROPERTIES
    SignalEndsStart
    WatchedFailureEndsStart
CHECK_DEADLOCK FALSE
