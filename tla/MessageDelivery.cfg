\* One user, two instances with a request thread each, a session on one of them;
\* no user 1.
CONSTANTS
    u1 = u1
    i1 = i1
    i2 = i2
    q1 = q1
    q2 = q2
    s1 = s1
    Users <- MCUsers
    SystemUser = NoUser
    RoomIds = {1}
    Instances <- MCInstances
    Requests <- MCRequests
    home <- MCHome
    Sessions <- MCSessions
    host <- MCHost
    MaxMsgs = 2
SPECIFICATION FollowFairSpec
INVARIANTS
    PipelineConsistent
    AtMostOncePerSession
    NothingLost
PROPERTIES
    LeaverFallsSilent
    ImplementsRoomFeed
    FollowersReceive
