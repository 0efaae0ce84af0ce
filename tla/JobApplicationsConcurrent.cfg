SPECIFICATION Spec
CONSTANTS
    None = None
    Jobs = {j1}
    Candidates = {c1}
    Apps = {a1, a2}
    Requests = {r1, r2}
    AdminStatuses = {"NEW"}
SYMMETRY Symmetry
INVARIANTS
    TypeOK
    OneLiveApplication
    TimelineLacksOnlyCompanies
    PushedPairStaysDecided
PROPERTIES
    CascadeTellsOnce
