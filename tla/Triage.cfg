SPECIFICATION Spec
CHECK_DEADLOCK FALSE
CONSTANTS
    a1 = a1
    a2 = a2
    a3 = a3
    a4 = a4
    none = none
    App <- MCApp
    Listing <- MCListing
    WithResume <- MCWithResume
    Settled <- MCSettled
    PageSize = 1
    MaxPages = 2
    MaxCalls = 2
    MaxVisits = 2
INVARIANTS
    TypeOK
    IndexInQueue
    UndoNamesADecidedCandidate
    ShownDecisionIsSaved
PROPERTIES
    SlideEnds
