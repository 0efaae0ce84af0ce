SPECIFICATION Spec
CONSTANTS
    None = None
    Tokens = {t1, t2, t3}
    ResetTokens = {k1}
    Requests = {r1}
    MaxPassword = 2
SYMMETRY Symmetry
PROPERTIES
    PromisedSessions
