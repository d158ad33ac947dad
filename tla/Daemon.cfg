SPECIFICATION MCSpec
CONSTANTS
    fw = fw
    on = on
    off = off
    None = None
    Registry <- OneCapability
    Values = {on, off}
    OsDefault <- MCOsDefault
    OrgPolicies <- Served
    Threads = {t1, t2}
    Boot = t1
    MAX_REMEDIATION_ATTEMPTS = 2
    MaxCalls = 3
    MaxDrifts = 2
    Capabilities = {"firewall", "hostname", "timezone"}
    Compiled <- MCCompiled
    States = {"a", "b"}
    Ids = {"dev1", "dev2"}
    MaxFaults = 2
    MaxAdminChanges = 1
    Absent = Absent
    Clients = {c1, c2, c3}
    MaxConnections = 1
    Backlog = 2
    MaxRequests = 1
    MaxErrors = 1

    
PROPERTIES
    SeededOnce
    Converges
    
CHECK_DEADLOCK FALSE
