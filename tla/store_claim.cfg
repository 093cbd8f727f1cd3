SPECIFICATION Spec
CONSTANTS
    ClosedStatuses <- McClosed
    IntMax = 7
    ExactMax = 3
    TaskTypes <- McNoTypes
    DenyUntyped = FALSE
    DefaultStatus <- McStatus
    ReservedNames <- McReserved
    DisplayColumns <- McColumns
    Blockers <- McBlockers
    Hierarchy = {}
    Procs = {p1, p2}
    Commands <- ClaimCommands
    Genesis <- GenesisXY
    KeepEvents = 1
    MaxOps = 3
    MaxCrashes = 0
    MaxBatch = 4
    Exclusive = FALSE
INVARIANTS
    OneWinner
