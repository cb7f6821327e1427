CONSTANTS
    roomA = roomA
    roomB = roomB
    u1 = u1
    u2 = u2
    u3 = u3
    Room = {roomA}
    Upload = {u1, u2}
    RoomOf <- MCRoomOf
    Length <- MCLength
    Latest = Latest
    MaxHistoryAge = 0
    LatestAge = 0
    AllowDeleteLatest = TRUE
    DiskErrors = TRUE
    SlowCalls = TRUE
    MaxCrashes = 0
    MaxTime = 2
SPECIFICATION Spec
PROPERTIES LatestGoesOldOrEmptied UploadsEnd SweepsEnd
