\* Two sign-ins, sign-outs and a revocation of all sessions; an own key.
CONSTANTS
    Token = {s1, s2}
    index = index
    OwnKey = {w}
    Slot = {t1, t2}
    Key <- MCKey
    IndexKey <- MCIndexKey
    Null = Null
    MaxNow = 3
    Lifetime = 2
    MaxCount = 2
    MaxRemovals = 2
SPECIFICATION Spec
INVARIANT SignInsListed
INVARIANT RevocationReaches
PROPERTY KeepsContract
PROPERTY ExpiredRemoved
CHECK_DEADLOCK FALSE
