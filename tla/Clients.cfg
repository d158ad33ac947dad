SPECIFICATION MCSpec
CONSTANTS
    Launches = {l1, l2, l3}
    RelayTries = 2
    MaxKills = 1
    MaxRefusals = 1
    Nobody = Nobody
    Digests = {d1, d2}
    GrantIds = {g1, g2}
    MaxCommands = 2
    MaxChanges = 2
    Nothing = Nothing
    Callers = {c1}
    Channels = {"stable", "dev"}
    Slots = {"B"}
    Publications <- MCPublications
    Builds <- MCBuilds
    Buckets <- MCBuckets
    MaxFaults = 1
    MaxSelections = 1
    Unheld = Unheld
    None = None
INVARIANTS
    CallbackOnce
    InstallsWhatWasChecked
PROPERTIES
    ChecksRecover
CHECK_DEADLOCK FALSE
