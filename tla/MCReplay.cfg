\* Copies of signed requests against the replay cache, with wall-clock steps and restarts.
\* Ttl is exactly 2 * Skew + MaxStep + 2 * MaxLag.
SPECIFICATION Spec
CONSTANTS
    c1 = c1
    c2 = c2
    Nonces = {n1}
    NoMessage = NoMessage
    Requests = {r1, r2, r3}
    Connectors = {c1}
    Keys <- MCKeys
    Messages <- ReplayMessages
    Capacity <- CapacityOne
    Limit <- LimitOne
    DirectoryOutcomes = {"success"}
    Skew = 1
    Ttl = 5
    MaxLag = 1
    MaxStep = 1
    Window = 1
    Block = 2
    MaxClock = 9
SYMMETRY Symmetric
INVARIANTS
    TypeOK
    AtMostOnce
    NoFalseReplay
