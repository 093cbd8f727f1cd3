SPECIFICATION FairSpec
CONSTANTS
    ClosedStatuses <- McClosed
    IntMax = 7
    ExactMax = 3
    TaskTypes <- McNoTypes
    DenyUntyped = FALSE
    DefaultStatus <- Todo
    ReservedNames <- McReserved
    DisplayColumns <- McColumns
    Blockers <- McBlockers
    Hierarchy = {}
    StringRank <- McRank
    InverseName <- McInverse
    TimeColumns <- McTimes
    StatusField = "state"
    TypeField = "type"
    Commands <- McCommands
    Genesis <- GenesisXY
    KeepEvents = 2
    WatchQuery <- McWatch
    Queries <- McQueries
    MaxCount = 2
    Starts <- McStarts
INVARIANTS
    UndoIsAsIfNever
    PreviewIsHonest
    UndoMarksAreSound
    NothingMissed
    PollIsNetOfHistory
PROPERTIES
    UndoKeepsCommitted
    WritesForgetNoName
    StableChangeIsReported
CHECK_DEADLOCK FALSE
