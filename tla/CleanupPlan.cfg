CONSTANTS
    h1 = h1
    h2 = h2
    c1 = c1
    r1 = r1
    l1 = l1
    s1 = s1
    File = {h1, h2, c1, l1}
    KindOf <- MCKindOf
    TotalSize <- MCTotalSize
    MaxHistoryAge = 1
    MaxLogAge = 1
    LatestAge = 1
    MaxSnapshotBytes = 3
    MaxLogBytes = 1
    MinFree = 3
    Ages = {0, 1, 2}
    Sizes = {1, 2}
    FreeReadings = {0, 2}
    Missing = Missing
SPECIFICATION Spec
INVARIANTS TypeOK CapsExhausted EmergencyOrder OldestFirst AllClearIsTrue
PROPERTIES KeepsContract DeletionJustified
