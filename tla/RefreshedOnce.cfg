\* Four calls by one user.
CONSTANTS
    c1 = c1
    c2 = c2
    c3 = c3
    c4 = c4
    ann = ann
    bob = bob
    eve = eve
    Calls <- MCFourCalls
    Names <- MCOneName
    spells <- MCNoSpelling
    Registered <- MCOneUser
    FirstFree = 12
    MaxUser = 12
SPECIFICATION Spec
INVARIANTS
    RefreshedOnce
CHECK_DEADLOCK FALSE
