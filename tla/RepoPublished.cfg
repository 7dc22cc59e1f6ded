SPECIFICATION FairSpec
CONSTANTS
    Req = {r1, r2}
    File = {f1}
    FilesOf <- AnyFile
    Content = {x}
    Empty = empty
    Absent = absent
    NoFile = nofile
    MaxCommits = 2
    MaxFileFails = 0
    MaxGitFails = 1
    MaxPushFails = 1
    MaxRestarts = 1
    MaxForeign = 1
INVARIANT UnpublishedIsPending
PROPERTY HeadIsPushed
CHECK_DEADLOCK FALSE
