SPECIFICATION FairSpec
CONSTANTS
    Req = {r1}
    File = {f1}
    FilesOf <- AnyFile
    Content = {x}
    Empty = empty
    Absent = absent
    NoFile = nofile
    MaxCommits = 3
    MaxFileFails = 0
    MaxGitFails = 0
    MaxPushFails = 1
    MaxRestarts = 0
    MaxForeign = 0
PROPERTY EventuallyPublished
CHECK_DEADLOCK FALSE
