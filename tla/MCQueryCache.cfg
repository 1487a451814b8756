CONSTANTS
    None = None
    Employees <- MCEmployees
    Record <- MCRecord
    Principals <- MCPrincipals
    Turns <- MCTurns
    Starts <- MCStarts
    Drafts <- MCDrafts
    Calls = {"c1", "c2"}
    MaxRows = 1
    TTL = 2
    Timeout = 1
    Midnight = 2
    Horizon = 3
    MaxTurns = 2
    MaxWrites = 1
SPECIFICATION Spec
INVARIANTS
    AnswersAreRecent
    PairsAgree
    SalariesStayHome
    DraftsAreChecked
CHECK_DEADLOCK FALSE
