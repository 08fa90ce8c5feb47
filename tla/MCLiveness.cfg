\* Progress of the handlers when the scheduler and the directory are fair.
SPECIFICATION FairSpec
CONSTANTS
    c1 = c1
    c2 = c2
    Nonces = {n1}
    NoMessage = NoMessage
    Requests = {r1, r2}
    Connectors = {c1, c2}
    Keys <- MCKeys
    Messages <- MixedMessages
    Capacity <- CapacityOne
    Limit <- LimitOne
    DirectoryOutcomes = {"directory_error", "success"}
    Skew = 2
    Ttl = 6
    MaxLag = 1
    MaxStep = 0
    Window = 1
    Block = 2
    MaxClock = 2
PROPERTIES
    EveryCallerAnswered
    CapacityRecovers
