\* Nobody is enrolled yet: overlapping enrolments and activations, then signing
\* in and passing or failing the challenge.
CONSTANTS
    Totp = Totp
    Enrollment = {e1, e2}
    Challenge = {c1}
    Session = {s1, s2, s3}
    CodeNo = {1}
    MaxNow = 2
    MaxCount = 3
    LoginAttempts = 2
    LoginWindow = 1
    DisableAttempts = 1
    DisableWindow = 2
    ChallengeEnabled = TRUE
    Slot = {t1, t2}
    None = None
    NoValue = 0
    Unwritten = Unwritten
    Key <- MCKey
    Tried <- MCTried
    Ops = {"enroll", "activate", "signIn", "verify"}
    InitiallyEnabled = FALSE
SYMMETRY MCSymmetry
SPECIFICATION Spec
CHECK_DEADLOCK FALSE
INVARIANT ShownCodesWork
INVARIANT ChallengePassedOnce
INVARIANT BudgetKept
