\* One user with two sessions on two instances.
CONSTANTS
    ann = ann
    bob = bob
    a1 = a1
    a2 = a2
    b1 = b1
    i1 = i1
    i2 = i2
    Users <- MCOneUser
    Sessions <- MCHerSessions
    Instances <- MCInstances
    user <- MCHerUser
    host <- MCHerHost
    TTL = 3
SPECIFICATION Spec
INVARIANTS
    SenderIsOnline
