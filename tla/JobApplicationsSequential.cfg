SPECIFICATION Spec
CONSTANTS
    None = None
    Jobs = {j1}
    Candidates = {c1, c2}
    Apps = {a1, a2}
    Requests = {r1}
    AdminStatuses = {"NEW", "APPROVED_BY_ADMIN", "REJECTED", "HIRED"}
SYMMETRY Symmetry
PROPERTIES
    PromisedLifecycle
