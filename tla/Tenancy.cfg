\* One company, three users: sign-up, role changes, transfers, and an
\* invitation that is created, revoked, expires or is accepted.
CONSTANTS
    User = {u1, u2, u3}
    Company = {c1}
    Invitation = {i1}
    Slot = {t1, t2}
    None = None
    Gone = Gone
    NoCompany = NoCompany
    Unwritten = Unwritten
    Ops = {"changeRole", "transferOwnership", "createInvitation", "revokeInvitation", "acceptInvitation"}
    InitialDb <- MCGrowing
SYMMETRY MCSymmetry
SPECIFICATION Spec
INVARIANT OwnerKept
PROPERTY OwnerInvitationBacked
PROPERTY InvitationSpentOnce
