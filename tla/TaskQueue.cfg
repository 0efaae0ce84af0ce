SPECIFICATION Spec
CHECK_DEADLOCK FALSE
CONSTANTS
    None = None
    Messages = {m1, m2}
    UnknownTasks = {m2}
    Workers = {w1, w2}
    BatchSize = 2
    MaxReceives = 3
INVARIANTS
    TypeOK
    NoTaskLost
    DuplicatesBounded
PROPERTIES
    EveryMessageSettles
