CONSTANTS
    j1 = j1
    j2 = j2
    s1 = s1
    s2 = s2
    People <- MCPeople
    Jobs = {j1, j2}
    Subject <- MCSubject
    Seed = Seed
    Searches = {s1, s2}
    Queries <- MCQueries
    KeyedIds = 2
    DayLength = 2
    Lifetime = 1
    Horizon = 2
SYMMETRY Symmetric
SPECIFICATION Spec
INVARIANTS
    LoneIngestIsExact
PROPERTIES
    DatedAnswers
    AnswersFitScope
CHECK_DEADLOCK FALSE
