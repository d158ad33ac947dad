SPECIFICATION FairSpec
CONSTANTS
    Versions = {1, 2, 3}
    Factory = 1
    Sound = {1, 2}
    Torn = Torn
    None = None
    Tries = 2
    EspRoom = 3
    MaxFaults = 2
    MaxRollbacks = 1
    Platforms <- BothPlatforms
    Publications <- Channel
INVARIANTS
    
    StatusIsTrue

    
