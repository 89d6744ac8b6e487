\* A withdrawal races a transfer of ownership to the user who withdraws.
CONSTANTS
    User = {u1, u2, u3}
    Company = {c1}
    Invitation = {}
    Slot = {t1, t2}
    None = None
    Gone = Gone
    NoCompany = NoCompany
    Unwritten = Unwritten
    Ops = {"transferOwnership", "deleteAccount"}
    InitialDb <- MCStaffed
SYMMETRY MCSymmetry
SPECIFICATION Spec
INVARIANT OwnerKept
CHECK_DEADLOCK FALSE
