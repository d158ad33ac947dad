SPECIFICATION MCSpec
CONSTANTS
    Writers = {w1, w2}
    Principals = {s1, d1}
    Detections = {d1}
    Threads = {t1, t2}
    None = None
    Cap = 1
    Budget = 1
    MaxPending = 1
    MaxEvents = 5
    MaxCrashes = 1
    MaxFaults = 1
    MaxCalls = 3
    MaxCallsAlone = 3
    github = github
    aws = aws
    user = user
    a2 = a2
    Unset = Unset
    Ids = {a1, a2}
    Handlers = {h1, h2}
    Requesters = {agent, user}
    Classes <- MCClasses
    Catalog <- MCCatalog
    TTL_MIN_SECS = 1
    Defaults <- MCDefaults
    OrgDirs <- MCOrgDirs
    Tokens = {k1, k2}
    MAX_LIVE_TOKENS = 1
    MAX_PENDING_PER_REQUESTER = 1
    Ttls <- MCTtls
    MaxTime = 1
    MaxSetBacks = 1
    MaxBrokerFaults = 1
INVARIANTS
    
    
    TokensAccounted
PROPERTIES
    ImplementsVault
CHECK_DEADLOCK FALSE
