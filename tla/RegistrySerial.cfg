SPECIFICATION Spec
CONSTANTS
    Id = {i1, i2}
    Addr = {a1, a2, bad}
    BadAddr = {bad}
    Port = {p1}
    Name = {n1, n2}
    Placeholder = toBeSet
    Conn = {c1, c2, c3}
    Handler = {h1, h2}
    NoPort = noPort
    NoConn = noConn
    NoHandler = noHandler
    NoRequest = noRequest
    MaxEdits = 2
    MaxGiveUps = 0
    MaxCrashes = 1
SYMMETRY RegistrySymmetry
INVARIANTS
    TypeOK
    NoOrphanedClient
    AcceptedHeartbeatIsCallable
    RecordedEndpointIsDialled
    ClientHasHeartbeat
PROPERTY ImplementsDirectory
CHECK_DEADLOCK FALSE
