CONSTANTS
    None = None
    p1 = p1
    p2 = p2
    p3 = p3
    People <- MCPeople
    Record <- MCRecord
    Questions <- MCQuestions
SPECIFICATION FollowUpSpec
INVARIANTS
    FreshStandsAlone
    FollowUpsStayInside
    ListedIsThem
    CountedAreThem
    TiersAgree
