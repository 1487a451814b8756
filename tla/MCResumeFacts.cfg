CONSTANTS
    None = None
    Employees <- MCEmployees
    Resumes <- MCResumes
    Starts <- MCStarts
    Asks <- MCAsks
    Within <- MCWithin
    MaxDays = 2
    Limit = 4
    Cited = 1
    Named = 2
    Written = 1
SPECIFICATION FactsSpec
INVARIANTS
    CountdownHolds
    AgesCome
    CohortsAreExact
    GapsAreAdmitted
    FacetsAreCohorts
