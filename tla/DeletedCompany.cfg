\* An invitation is inserted after its company was deleted, and accepted.
CONSTANTS
    User = {u1, u2}
    Company = {c1, c2}
    Invitation = {i1}
    Slot = {t1, t2}
    None = None
    Gone = Gone
    NoCompany = NoCompany
    Unwritten = Unwritten
    Ops = {"createInvitation", "acceptInvitation", "deleteCompany"}
    InitialDb <- MCPopulated
SYMMETRY MCSymmetry
SPECIFICATION Spec
INVARIANT NoGhostMembership
CHECK_DEADLOCK FALSE
