SPECIFICATION Spec
CONSTANTS
    ClosedStatuses <- McClosed
    IntMax = 7
    ExactMax = 3
    TaskTypes <- PointsType
    DenyUntyped = FALSE
    DefaultStatus <- McStatus
    ReservedNames <- McReserved
    DisplayColumns <- McColumns
    Blockers <- McBlockers
    Hierarchy = {}
    Commands <- MergeCommands
    Genesis <- GenesisXY
    Times = {1, 2, 3}
    Policy = "latest"
    KeepEvents = 2
    MaxCommits = 3
    MaxReverts = 1
    MaxFolds = 2
    MaxSteps = 4
    MaxMerges = 1
INVARIANTS
    LogsOrdered
    LossIsWarned
    MergeConverges
    NewestWriteWins
CHECK_DEADLOCK FALSE
