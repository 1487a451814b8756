CONSTANTS
    ann = ann
    bob = bob
    cleo = cleo
    People <- MCPeople
    Names <- MCNames
    NameOf <- MCNameOf
    Utterances <- MCUnclear
    TTL = 1
SPECIFICATION Spec
INVARIANT YesMeansShown
