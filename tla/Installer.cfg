SPECIFICATION MCSpec
CONSTANTS
    PLAN_REGISTRY_LIMIT = 1
    MaxPlans = 2
    MaxStarts = 2
    MaxFaults = 2
    MaxClients = 2
    MediumFaults = 1
    FairFaults = 1
    None = None
    Absent = Absent
    Missing = Missing
    Unreadable = Unreadable
    MODULE_CLAIM_LIMIT = 2
    Logs <- MCLogs
    MaxTries = 2
    MaxUpsets = 2
    Nothing = Nothing
INVARIANTS
    RecoveryKeyKept
    SucceededIsComplete
    PlanIsSound
    DiskWorkSound

    
CHECK_DEADLOCK FALSE
