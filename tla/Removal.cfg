\* The second factor is active: signing in, passing or failing the challenge,
\* removing the second factor.
CONSTANTS
    Totp = Totp
    Enrollment = {e1}
    Challenge = {c1}
    Session = {s1, s2}
    CodeNo = {1}
    MaxNow = 2
    MaxCount = 2
    LoginAttempts = 1
    LoginWindow = 2
    DisableAttempts = 1
    DisableWindow = 2
    ChallengeEnabled = TRUE
    Slot = {t1, t2}
    None = None
    NoValue = 0
    Unwritten = Unwritten
    Key <- MCKey
    Tried <- MCTried
    Ops = {"signIn", "verify", "disable", "forceDisable"}
    InitiallyEnabled = TRUE
SYMMETRY MCSymmetry
SPECIFICATION Spec
CHECK_DEADLOCK FALSE
INVARIANT MfaTypeOK
INVARIANT SecondFactorStands
PROPERTY CodeSpentOnce
