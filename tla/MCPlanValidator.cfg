CONSTANTS
    NodeIds <- MCNodeIds
    Tools <- MCTools
    Operators = {"intersect_ids"}
    Roles = {"employee", "recruiter"}
    CanUseTool <- MCCanUse
    MaxNodes = 3
    Plans <- MCPlans
SPECIFICATION FairSpec
INVARIANTS
    VerdictExact
PROPERTY Returns
CHECK_DEADLOCK FALSE
