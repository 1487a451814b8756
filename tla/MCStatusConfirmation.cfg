CONSTANTS
    ann = ann
    bob = bob
    cleo = cleo
    People <- MCPeople
    Names <- MCNames
    NameOf <- MCNameOf
    Utterances <- MCUtterances
    TTL = 1
SPECIFICATION Spec
INVARIANTS
    FailureKeepsQuestion
PROPERTY EveryChangeWasAsked
