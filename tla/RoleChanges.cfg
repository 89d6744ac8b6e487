\* Three role changes at a time, from a company with one OWNER.
CONSTANTS
    User = {u1, u2, u3}
    Company = {c1}
    Invitation = {}
    Slot = {t1, t2, t3}
    None = None
    Gone = Gone
    NoCompany = NoCompany
    Unwritten = Unwritten
    Ops = {"changeRole"}
    InitialDb <- MCOneOwner
SYMMETRY MCSymmetry
SPECIFICATION Spec
INVARIANT OwnerKept
CHECK_DEADLOCK FALSE
