SPECIFICATION FairSpec
CONSTANTS
    Program = {"agent", "central"}
    Proc = {serve, command}
    Server = serve
    Setting = {x}
    Default = unset
    Missing = missing
    Garbled = garbled
    MaxStarts <- WatchStarts
    MaxEdits = 1
    MaxCrashes = 1
    MaxFails = 1
INVARIANTS
    TypeOK
    RegistersOnce
    LoadedIsCurrent
    ServesWithUuid
PROPERTY EventuallyLoaded
CHECK_DEADLOCK FALSE
