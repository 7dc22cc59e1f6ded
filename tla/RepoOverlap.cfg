SPECIFICATION Spec
CONSTANTS
    Req = {r1, r2}
    File = {f1, f2}
    FilesOf <- OwnFile
    Content = {x}
    Empty = empty
    Absent = absent
    NoFile = nofile
    MaxCommits = 2
    MaxFileFails = 0
    MaxGitFails = 0
    MaxPushFails = 0
    MaxRestarts = 0
    MaxForeign = 0
INVARIANT AnsweredIsPublished
CHECK_DEADLOCK FALSE
