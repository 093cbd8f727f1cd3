SPECIFICATION Spec
CONSTANTS
    ClosedStatuses <- McClosed
    IntMax = 7
    ExactMax = 3
    TaskTypes <- McNoTypes
    DenyUntyped = FALSE
    DefaultStatus <- McStatus
    ReservedNames <- McReserved
    DisplayColumns <- McColumns
    Blockers <- McBlockers
    Hierarchy = {}
    Procs = {p1, p2}
    Commands <- WindowCommands
    Genesis <- GenesisOrphanY
    KeepEvents = 1
    MaxOps = 4
    MaxCrashes = 0
    MaxBatch = 4
    Exclusive = TRUE
SYMMETRY ProcsAlike
INVARIANTS
    OneWinner
PROPERTIES
    ReadIsMomentUnlessRewritten
    ImplementsLedger
