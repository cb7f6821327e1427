CONSTANTS
    RangeError = RangeError
    RoomId <- MCRoomId
    UserId <- MCUserId
    Body <- MCBody
    History <- MCHistory
    HistoryV2 <- MCHistoryV2
    Instant <- MCInstant
SPECIFICATION Spec
INVARIANTS SnapshotUnderItsRoom HistoryRoundTrip
