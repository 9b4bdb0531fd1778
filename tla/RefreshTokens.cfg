\* Three calls by two users and a newcomer.
CONSTANTS
    c1 = c1
    c2 = c2
    c3 = c3
    c4 = c4
    ann = ann
    bob = bob
    eve = eve
    Calls <- MCThreeCalls
    Names <- MCThreeNames
    spells <- MCSpells
    Registered <- MCTwoUsers
    FirstFree = 12
    MaxUser = 13
SPECIFICATION FairSpec
INVARIANTS
    TypeOK
    SessionsConsistent
    EndedTokenIsRefused
    HeldTokenHasUser
    NamesAreUnique
PROPERTIES
    OnlyNamedSessionsEnd
    ImplementsTokenStore
    ReuseEndsSessions
CHECK_DEADLOCK FALSE
