SPECIFICATION SyncSpec
CONSTANTS
    Agent = {a1, a2}
    Page = {p1, p2}
    File = {f1}
    Content = {x, y}
    Named = {x}
    Nameless = {y}
    Empty = empty
    Absent = absent
    NoAgent = noagent
    NotApplied = notapplied
    MaxCommits = 2
INVARIANTS
    TypeOK
    SyncWasTrue
    AppliedWasPublished
    AppliedIsNotOlder
    OnlyNamelessEnds
SYMMETRY AnyNames
CHECK_DEADLOCK FALSE
