\* A sign-in overlaps the activation.
CONSTANTS
    Totp = Totp
    Enrollment = {e1}
    Challenge = {c1}
    Session = {s1, s2}
    CodeNo = {1}
    MaxNow = 2
    MaxCount = 3
    LoginAttempts = 2
    LoginWindow = 2
    DisableAttempts = 2
    DisableWindow = 2
    ChallengeEnabled = TRUE
    Slot = {t1, t2}
    None = None
    NoValue = 0
    Unwritten = Unwritten
    Key <- MCKey
    Tried <- MCTried
    Ops = {"enroll", "activate", "signIn"}
    InitiallyEnabled = FALSE
SYMMETRY MCSymmetry
SPECIFICATION Spec
INVARIANT SecondFactorStands
CHECK_DEADLOCK FALSE
