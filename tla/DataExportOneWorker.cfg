SPECIFICATION ExportSpec
CHECK_DEADLOCK FALSE
CONSTANTS
    None = None
    Exports = {e1, e2}
    Builds = {b1, b2}
    Requests = {r1, r2}
    Workers = {w1}
    MaxReceives = 2
SYMMETRY Symmetry
INVARIANTS
    ExportTypeOK
    OneActiveExport
    LinkHasRow
