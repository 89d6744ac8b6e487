\* Two users and two companies: registration, switching, leaving, company
\* deletion, withdrawal, the sweep, and an invitation that may be out.
CONSTANTS
    User = {u1, u2}
    Company = {c1, c2}
    Invitation = {i1}
    Slot = {t1, t2}
    None = None
    Gone = Gone
    NoCompany = NoCompany
    Unwritten = Unwritten
    Ops = {"createSignupCompany", "addCompany", "updateCompanyInfo", "deleteCompany", "removeMember", "switchCurrentCompany", "deleteAccount", "sweep", "acceptInvitation"}
    InitialDb <- MCSettled
SYMMETRY MCSymmetry
SPECIFICATION Spec
INVARIANT TypeOK
INVARIANT OwnerKept
INVARIANT CurrentCompanyTracksMembership
INVARIANT NoGhostMembership
INVARIANT UpdatesCompanyInUse
PROPERTY NeverOrphaned
PROPERTY OnlyOrphansDeleted
PROPERTY SignupCompanyIsFirst
CHECK_DEADLOCK FALSE
