\* Two connectors, authenticated and unauthenticated traffic.
SPECIFICATION Spec
CONSTANTS
    c1 = c1
    c2 = c2
    Nonces = {n1}
    NoMessage = NoMessage
    Requests = {r1, r2, r3}
    Connectors = {c1, c2}
    Keys <- MCKeys
    Messages <- MixedMessages
    Capacity <- CapacityOne
    Limit <- LimitOne
    DirectoryOutcomes = {"source_unavailable", "failure"}
    Skew = 1
    Ttl = 4
    MaxLag = 1
    MaxStep = 0
    Window = 1
    Block = 1
    MaxClock = 1
SYMMETRY Symmetric
INVARIANTS
    TokensConserved
    StormCountsJustified
PROPERTIES
    ImplementsGate
