SPECIFICATION Spec
CONSTANTS
    Req = {r1}
    File = {f1, f2}
    FilesOf <- AnyFile
    Content = {x, y}
    Empty = empty
    Absent = absent
    NoFile = nofile
    MaxCommits = 3
    MaxFileFails = 1
    MaxGitFails = 0
    MaxPushFails = 1
    MaxRestarts = 1
    MaxForeign = 1
INVARIANTS
    TypeOK
    AnsweredIsPublished
    PushedIsNotLost
    CommittedIsComplete
PROPERTIES
    KeepsHistory
CHECK_DEADLOCK FALSE
SYMMETRY AnyNames
