CONSTANTS
    l1 = l1
    l2 = l2
    l3 = l3
    l4 = l4
    Line = {l1, l2, l3}
    LineBytes <- MCLineBytes
    MaxBytes = 2
    RenamesFail = TRUE
    DiskErrors = TRUE
    MaxStreams = 4
    MaxTime = 2
    MaxRestarts = 1
SPECIFICATION Spec
INVARIANTS NothingLostButByCollision LinesKeptInOrder ActiveLogBounded
PROPERTIES LinesFlushed OldStreamsClose
CHECK_DEADLOCK FALSE
