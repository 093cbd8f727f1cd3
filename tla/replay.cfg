SPECIFICATION Spec
CONSTANTS
    ClosedStatuses <- McClosed
    IntMax = 100
    ExactMax = 3
    Drafts <- McDrafts
    Times = {1, 3}
    MaxLen = 4
INVARIANTS
    CloseTimeIsLastClosing
    TimesFollowTheLog
    OrphansAreNeutral
    RetentionIsExact
    AddsCommute
CHECK_DEADLOCK FALSE
