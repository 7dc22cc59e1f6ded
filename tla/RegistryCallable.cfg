SPECIFICATION FairSpec
CONSTANTS
    Id = {i1}
    Addr = {a1, a2, bad}
    BadAddr = {bad}
    Port = {p1}
    Name = {n1, n2}
    Placeholder = toBeSet
    Conn = {c1, c2, c3}
    Handler = {h1, h2}
    NoPort = noPort
    NoConn = noConn
    NoHandler = noHandler
    NoRequest = noRequest
    MaxEdits = 1
    MaxGiveUps = 1
    MaxCrashes = 2
INVARIANT
    ClosedClientIsBeingReplaced
PROPERTY EventuallyCallable
CHECK_DEADLOCK FALSE
