SPECIFICATION FairSpec
CONSTANTS
    ClosedStatuses <- McClosed
    IntMax = 7
    ExactMax = 3
    TaskTypes <- McNoTypes
    DenyUntyped = FALSE
    DefaultStatus <- McStatus
    ReservedNames <- McReserved
    DisplayColumns <- McColumns
    Blockers <- McBlockers
    Hierarchy = {}
    Procs = {p1, p2}
    Commands <- OverlapCommands
    Genesis <- GenesisOrphan
    KeepEvents = 1
    MaxOps = 2
    MaxCrashes = 2
    MaxBatch = 4
    Exclusive = FALSE
INVARIANTS
    TypeOK
    LogOrdered
    BatchLandsOnVettedStore
PROPERTIES
    CommandsEnd
