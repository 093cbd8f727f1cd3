SPECIFICATION Spec
CONSTANTS
    IntMax = 7
    ExactMax = 3
    StringRank <- Rank
    StaticReserved <- Reserved
    MinKeepEvents = 2
    Settings <- Made
    HandMade <- ByHand
    FirstConfig <- Config0
    Genesis <- Begin
    Commands <- Work
    Renames <- McRenames
    Backfills <- McBackfills
    Edits <- Documents
    EditedIds = {"x", "z"}
    KeepEvents = 2
    Steps = 3
INVARIANTS
    PreviewedSaveLands
    SaveKeepsOthersWork
    TypesAreUsable
    NamesRoundTrip
    RepairKeepsWhatFits
    RepairSettles
CHECK_DEADLOCK FALSE
