SPECIFICATION MCSpec
CONSTANTS
    alice = alice
    Root = root
    fw = fw
    tz = tz
    agt = agt
    a1 = a1
    a2 = a2
    g1 = g1
    g2 = g2
    None = None
    Users <- MCUsers
    Sessions <- MCSessions
    ConsoleUser = alice
    Capabilities <- MCCapabilities
    Ruling <- MCRuling
    CreateCalls <- MCCreateCalls
    Ids = {a1}
    GrantIds = {g1, g2}
    APPROVAL_TTL_MIN_SECS = 1
    APPROVAL_TTL_MAX_SECS = 2
    GRANT_MIN_MINUTES = 1
    GRANT_MAX_MINUTES = 2
    Durations <- MCDurations
    MAX_PENDING_APPROVALS = 2
    MAX_PENDING_PER_REQUESTER = 1
    MAX_APPROVAL_RECORDS = 3
    MaxTime = 3
    LastRequest = 3
    Faults = {"write", "index", "unlink", "crash"}
INVARIANTS
    PrivilegeHasConsent
    CalmIsExact
PROPERTIES
    ImplementsLifecycle
    EverythingLapses
