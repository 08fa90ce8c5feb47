SPECIFICATION Spec
CONSTANTS
    e1 = e1
    e2 = e2
    e3 = e3
    e4 = e4
    NoEntry = NoEntry
    NoConn = NoConn
    Entries <- AllEntries
    Users <- AllUsers
    Matching <- MCMatching
    Referred <- MCReferred
    Named <- MCNamed
    Password <- MCPassword
    Status <- MCStatus
    Calls = {c1, c2, c3}
    Conns = {k1, k2, k3, k4}
    MaxIdle = 1
    Endpoints = 1
    Requests <- PoolRequests
    Configs <- PoolConfigs
    Outages = TRUE
SYMMETRY PoolSymmetry
INVARIANTS
    TypeOK
    PoolServiceBound
    Ownership
    NoFalseAccept
