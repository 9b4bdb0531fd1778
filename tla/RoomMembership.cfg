\* Two registered users, one unregistered id, three request threads.
CONSTANTS
    u1 = u1
    u2 = u2
    u3 = u3
    q1 = q1
    q2 = q2
    q3 = q3
    Users <- MCUsers
    UserIds <- MCUserIds
    Requests <- MCRequests
    NoUser = NoUser
    MaxRooms = 1
    MaxRows = 4
SPECIFICATION FairSpec
INVARIANTS
    TypeOK
    UniqueMembership
    Consistent
    OnlyRivalInsertsDeadlock
PROPERTIES
    AdminlessForever
    PrivateGrowsOnlyByAdminInvite
    LeaveRemovesOnlyWhatItRead
    RoomBornWithAdmin
    ImplementsMembership
    RequestsFinish
