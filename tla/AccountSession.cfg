CONSTANTS
    Callers = {panel, dictionary}
    Users = {u1, u2}
    NoUser = NoUser
    MaxPairs = 3
    MaxGeneration = 4
SPECIFICATION Spec
INVARIANTS TypeOK ActsForCapturedUser RestartFindsSession RevokedIsNotUsed
