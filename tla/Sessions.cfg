SPECIFICATION MCSpec
CONSTANTS
    Sessions = {s1}
    Pids = {p1}
    Sigs = {g1}
    Threads = {t1, t2}
    Main = t1
    None = None
    QuietWindow = 1
    MaxRetained = 1
    MaxTime = 2
    MaxBirths = 2
    MaxRestarts = 1
    MaxFaults = 1
    NoValue = NoValue
    Old = Old
    Accounts = {a1, a2}
    Dialogs = {o1}
    Overlap = 1
    CardEvents = 4
    Homes = {NoValue}
    MaxAttempts = 2
    MaxOthers = 3
    MaxSetbacks = 2
    Uids = {u1, u2}
    Tickets = {k1, k2}
    Calls = {c1, c2}
    TicketMaxAge = 1
    MaxClock = 2
    MaxMessages = 2
INVARIANTS
    
    AtMostOnce

    
    
