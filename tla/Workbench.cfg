SPECIFICATION MCSpec
CONSTANTS
    Sessions = {s1, s2}
    MaxFaults = 1
    MaxAttempts = 1
    MaxCalls = 1
    NamedZones = {"corporate", "production"}
    Width = 2
    MaxCidrs = 1
    LocalAddresses = {3}
INVARIANTS
    
    ReportsAreTrue
    RulesMeanPolicy
CHECK_DEADLOCK FALSE
