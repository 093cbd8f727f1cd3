SPECIFICATION Spec
CONSTANTS
    ClosedStatuses <- McClosed
    IntMax = 7
    ExactMax = 3
    TaskTypes <- McTypes
    DenyUntyped = FALSE
    DefaultStatus <- Todo
    ReservedNames <- McReserved
    DisplayColumns <- McColumns
    Blockers <- McBlockers
    Hierarchy <- McHierarchy
    StringRank <- McRank
    InverseName <- McInverse
    TimeColumns <- McTimes
    StatusField = "state"
    TypeField = "type"
    Commands <- McCommands
    Genesis <- GenesisWXYZ
    Guards <- McGuards
INVARIANTS
    OpenWorkIsReadyOrBlocked
    NeedsAreReported
    PlansAreRight
    TreeIsComplete
    OneGrammar
