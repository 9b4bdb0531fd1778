\* One user, one thread and one session on one instance.
CONSTANTS
    u1 = u1
    i1 = i1
    i2 = i2
    q1 = q1
    q2 = q2
    s1 = s1
    Users <- MCUsers
    SystemUser = u1
    RoomIds = {1}
    Instances <- MCOneInstance
    Requests <- MCOneRequest
    home <- MCOneHome
    Sessions <- MCSessions
    host <- MCNearHost
    MaxMsgs = 2
SPECIFICATION Spec
PROPERTIES
    RedisFailureKeepsMessage
