SPECIFICATION Spec
CONSTANTS
    e1 = e1
    e2 = e2
    e3 = e3
    e4 = e4
    NoEntry = NoEntry
    NoConn = NoConn
    Entries <- AllEntries
    Users <- AllUsers
    Matching <- MCMatching
    Referred <- MCReferred
    Named <- MCNamed
    Password <- MCPassword
    Status <- MCStatus
    Calls = {c1}
    Conns = {k1, k2}
    MaxIdle = 1
    Endpoints = 2
    Requests <- VerdictRequests
    Configs <- VerdictConfigs
    Outages = TRUE
INVARIANTS
    NoFalseAccept
    NoFalseReject
