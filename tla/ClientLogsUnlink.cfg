CONSTANTS
    roomA = roomA
    roomB = roomB
    l1 = l1
    l2 = l2
    l3 = l3
    Room = {roomA}
    Line = {l1, l2}
    LineRoom <- MCLineRoom
    Stream = {s1, s2}
    IdleLimit = 1
    DiskErrors = FALSE
    None = None
SPECIFICATION Spec
INVARIANT NoUnlinkBehindStream
