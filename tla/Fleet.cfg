SPECIFICATION MCSpec
CONSTANTS
    acme = acme
    p1 = p1
    p2 = p2
    asker = asker
    keeper = keeper
    d1 = d1
    d2 = d2
    None = None
    Orgs = {acme}
    PolicyFiles <- OneOrganization
    Inventories = {i1, i2}
    Threads = {t1, t2}
    Boot = t1
    Faults = {"write", "refused", "lost"}
    MaxRegistrations = 2
    MaxChanges = 1
    MaxOutages = 1
    MaxCrashes = 1
    AskedScopes = {"inventory"}
    Askers = {asker}
    AskerScopes <- MCAskerScopes
    Drains = {t1, t2}
    Cap = 2
    LogMax = 1
    MaxAsked = 2
    MaxMalformed = 1
    MaxGrants = 2
    MaxDisconnects = 1
    Missing = Missing
    Devices = {d1, d2}
    Admins = {asker, keeper}
    Role <- MCRole
    RoleScopes <- MCRoleScopes
    ReleaseRoles = {"recovery_admin"}
    Volume <- MCVolume
    MaxPerSync = 1
    MaxTokens = 2
    MaxQueries = 1
    MaxLines = 1
    MaxSeals = 2
    MaxReleases = 1
    MaxFaults = 1
INVARIANTS
    
    AnswersWithinGrant
    AcknowledgementsHold
PROPERTIES
    InventoryArrives
    QueriesAnswered
CHECK_DEADLOCK FALSE
