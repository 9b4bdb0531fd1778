CONSTANTS
    c1 = c1
    c2 = c2
    Calls <- MCCalls
    MaxStrays = 1
    MaxTimers = 2
    MaxPairs = 2
SPECIFICATION Spec
INVARIANTS
    TypeOK
    StoredTokenIsLive
    NeverStranded
    SessionConsistent
