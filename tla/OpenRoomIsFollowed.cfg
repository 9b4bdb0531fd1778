CONSTANTS
    r1 = r1
    r2 = r2
    pat = pat
    m1 = m1
    d0 = d0
    d1 = d1
    None = None
    Rooms <- MCRooms
    People <- MCPeople
    Messages <- MCMessages
    place <- MCPlace
    Mine <- MCMine
    Old <- MCOld
    created <- MCCreated
    PageSize = 1
    Slots <- MCSlots
    Calls <- MCCalls
    Faults = {}
SPECIFICATION Spec
INVARIANTS
    OpenRoomIsFollowed
