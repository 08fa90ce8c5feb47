\* Two requests over any number of connections.
SPECIFICATION FairSpec
CONSTANTS
    NoMessage = NoMessage
    Nobody = Nobody
    Requests = {r1, r2}
    Messages <- MCMessages
    Capacity = 1
    ReconnectMin = 1
    ReconnectMax = 1
    DirectoryOutcomes = {"directory_error", "success"}
    Ttl = 1
    Window = 1
    Block = 1
    Limit <- LimitOne
    MaxLag = 0
    MaxClock = 2
INVARIANTS
    TypeOK
    AtMostOncePerTtl
    NoFalseReplay
    TokensConserved
PROPERTIES
    CapacityRecovers
    EveryRequestAnswered
