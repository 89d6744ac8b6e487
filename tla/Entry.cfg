\* One visitor, two companies and three commits from elsewhere.
CONSTANTS
    Company = {c1, c2}
    None = None
    Gone = Gone
    Unversioned = Unversioned
    MaxChanges = 3
    MaxBack = 3
SPECIFICATION Spec
INVARIANT SameCompany
INVARIANT AnswersHeld
INVARIANT BarredStayOut
INVARIANT GoalKept
PROPERTY Arrives
