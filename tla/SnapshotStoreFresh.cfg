CONSTANTS
    roomA = roomA
    roomB = roomB
    u1 = u1
    u2 = u2
    u3 = u3
    Room = {roomA}
    Upload = {u1, u2}
    RoomOf <- MCRoomOf
    Length <- MCLength
    Latest = Latest
    MaxHistoryAge = 1
    LatestAge = 1
    AllowDeleteLatest = TRUE
    DiskErrors = FALSE
    SlowCalls = FALSE
    MaxCrashes = 0
    MaxTime = 4
SPECIFICATION Spec
PROPERTIES OnlyOldLatestDeleted
