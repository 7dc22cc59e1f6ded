SPECIFICATION Spec
CONSTANTS
    Program = {"agent"}
    Proc = {serve}
    Server = serve
    Setting = {x}
    Default = unset
    Missing = missing
    Garbled = garbled
    MaxStarts <- ResetStarts
    MaxEdits = 0
    MaxCrashes = 0
    MaxFails = 0
INVARIANT SettingIsKept
CHECK_DEADLOCK FALSE
