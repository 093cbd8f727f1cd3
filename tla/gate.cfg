SPECIFICATION Spec
CONSTANTS
    ClosedStatuses <- McClosed
    IntMax = 7
    ExactMax = 3
    TaskTypes <- McTypes
    DenyUntyped = TRUE
    DefaultStatus <- Todo
    ReservedNames <- McReserved
    DisplayColumns <- McColumns
    Blockers <- McBlockers
    Hierarchy <- McHierarchy
    Commands <- McCommands
    Genesis <- GenesisXYZ
INVARIANTS
    EveryTaskConforms
    EveryLoggedEventCounts
    OneBlockerOneParent
PROPERTIES
    TerminalIsForever
