SPECIFICATION Spec
CONSTANTS
    None = None
    Jobs = {j1}
    Candidates = {c1}
    Apps = {a1, a2}
    Requests = {r1, r2}
    AdminStatuses = {"APPROVED_BY_ADMIN", "REJECTED"}
SYMMETRY Symmetry
PROPERTIES
    WithdrawalIsFinal
