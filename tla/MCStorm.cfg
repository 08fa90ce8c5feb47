\* Directory failures and malformed bodies against their storm counters.
SPECIFICATION Spec
CONSTANTS
    c1 = c1
    c2 = c2
    Nonces = {n1, n2, n3}
    NoMessage = NoMessage
    Requests = {r1, r2, r3}
    Connectors = {c1}
    Keys <- MCKeys
    Messages <- StormMessages
    Capacity <- CapacityTwo
    Limit <- LimitOne
    DirectoryOutcomes = {"directory_error", "success"}
    Skew = 4
    Ttl = 10
    MaxLag = 1
    MaxStep = 0
    Window = 1
    Block = 3
    MaxClock = 3
SYMMETRY Symmetric
INVARIANTS
    StormOvershootBounded
PROPERTIES
    BlocksNotCutShort
