SPECIFICATION Spec
CHECK_DEADLOCK FALSE
CONSTANTS
    None = None
    Users = {u1, u2}
    Tokens = {t1, t2, t3}
    Profiles = {p1, p2}
    Requests = {r1, r2}
SYMMETRY Symmetry
INVARIANTS
    TypeOK
    OnlyLatestLinkOpens
    CompanyIsApproved
    ActiveCandidateIsLinked
