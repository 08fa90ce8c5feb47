\* Repeated HMAC failures of one connector.
SPECIFICATION Spec
CONSTANTS
    c1 = c1
    c2 = c2
    Nonces = {n1}
    NoMessage = NoMessage
    Requests = {r1, r2, r3}
    Connectors = {c1}
    Keys <- MCKeys
    Messages <- ForgedMessages
    Capacity <- CapacityOne
    Limit <- LimitTwo
    DirectoryOutcomes = {"source_unavailable", "failure"}
    Skew = 1
    Ttl = 4
    MaxLag = 1
    MaxStep = 0
    Window = 3
    Block = 2
    MaxClock = 3
SYMMETRY Symmetric
INVARIANTS
    HmacFailuresLimited
