SPECIFICATION FairListsSpec
CONSTANTS
    Agent = {a1, a2}
    Name = {n1, n2}
    Place = {p}
    Unnamed = unnamed
    Undialled = undialled
    Nowhere = nowhere
    NoAgent = noagent
    MaxChanges = 2
INVARIANTS
    TypeOK
    AnswerIsTrue
    AnswerIsComplete
PROPERTIES
    OnlyNewcomersPanic
    RequestsEnd
CHECK_DEADLOCK FALSE
