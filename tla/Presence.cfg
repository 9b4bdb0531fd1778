\* Two users, three sessions on two instances.
CONSTANTS
    ann = ann
    bob = bob
    a1 = a1
    a2 = a2
    b1 = b1
    i1 = i1
    i2 = i2
    Users <- MCUsers
    Sessions <- MCSessions
    Instances <- MCInstances
    user <- MCUser
    host <- MCHost
    TTL = 3
SPECIFICATION FairSpec
INVARIANTS
    TypeOK
    FramesKeepOnline
    GhostsFade
    PresenceConsistent
PROPERTIES
    GoneIsOffline
