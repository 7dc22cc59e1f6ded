SPECIFICATION Spec
CONSTANTS
    Id = {i1}
    Late = {l1}
    HeartbeatInterval = 1
    AliveInterval = 5
    MaxDelay = 3
    QueryDelay = 1
    NoAgent = noAgent
    MaxFails = 1
    MaxRestarts = 1
    Horizon = 18
INVARIANTS
    TypeOK
    SteadyAgentIsOnline
    DeadAgentGoesOffline
CHECK_DEADLOCK FALSE
