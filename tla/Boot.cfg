SPECIFICATION BootSpec
CONSTANTS
    Request = {r1, r2, r3}
    Secrets <- MCSecrets
    MaxFailures = 1
CHECK_DEADLOCK FALSE
INVARIANTS
    ServedWithSecrets
    OneAttemptAtATime
    RetryMeetsSameError
    PoolOutlivesWork
PROPERTIES
    FailureNotKept
    RequestsClose
