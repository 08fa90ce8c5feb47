\* Three starts, two ids.
SPECIFICATION FairSpec
CONSTANTS
    RawConfigs <- MCConfigs
    Ids = {id1, id2}
    NoId = NoId
    NoFile = NoFile
    SecretLengths = {0, 1}
    IdLength = 2
    Interval = 2
    SendTimeout = 1
    ShutdownTimeout = 1
    MaxStarts = 3
    ReconnectMin = 1
    ReconnectMax = 2
INVARIANTS
    TypeOK
    StableIdentity
    IdentityStored
    AcceptedIsUsable
PROPERTIES
    ServesAgain
    BeatsGoOn
    StopEnds
