SPECIFICATION Spec
CONSTANTS
    ClosedStatuses <- McClosed
    IntMax = 7
    ExactMax = 3
    TaskTypes <- PointsType
    DenyUntyped = FALSE
    DefaultStatus <- McStatus
    ReservedNames <- McReserved
    DisplayColumns <- McColumns
    Blockers <- McBlockers
    Hierarchy = {}
    Commands <- FoldCommands
    Genesis <- GenesisPoints
    Times = {1, 2, 3}
    Policy = "latest"
    KeepEvents = 2
    MaxCommits = 2
    MaxReverts = 0
    MaxFolds = 2
    MaxSteps = 4
    MaxMerges = 1
INVARIANT EveryEventOnce
CHECK_DEADLOCK FALSE
