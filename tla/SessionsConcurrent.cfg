SPECIFICATION Spec
CONSTANTS
    None = None
    Tokens = {t1, t2, t3}
    ResetTokens = {k1}
    Requests = {r1, r2}
    MaxPassword = 1
SYMMETRY Symmetry
INVARIANTS
    TypeOK
    UsedNeverLive
    OneLiveTokenPerSession
    LogoutIsFinal
