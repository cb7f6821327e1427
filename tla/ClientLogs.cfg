CONSTANTS
    roomA = roomA
    roomB = roomB
    l1 = l1
    l2 = l2
    l3 = l3
    Room = {roomA, roomB}
    Line = {l1, l2, l3}
    LineRoom <- MCLineRoom
    Stream = {s1, s2}
    IdleLimit = 0
    DiskErrors = TRUE
    None = None
SPECIFICATION Spec
INVARIANTS TypeOK NoLeakedHandle LinesAccounted
PROPERTIES ActiveLogKept LinesSettle HandlesClose
