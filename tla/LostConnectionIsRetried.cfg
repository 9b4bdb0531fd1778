CONSTANTS
    c1 = c1
    c2 = c2
    Calls <- MCCalls
    MaxStrays = 0
    MaxTimers = 1
    MaxPairs = 2
SPECIFICATION FairSpec
PROPERTIES
    LostConnectionIsRetried
