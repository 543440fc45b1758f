SPECIFICATION MCSpec
CONSTANTS
    None = None
    u1 = u1
    u2 = u2
    Users = {u1, u2}
    Addresses = {"a1", "a2"}
    Roles = {"Administrator", "Viewer"}
    Requests = {r1, r2}
    MaxFailed = 2
    MaxTokens = 3
    MaxPasswords = 2
    MaxSecrets = 2
    MaxAttempts = 4
    MaxCrashes = 1
CHECK_DEADLOCK FALSE
CONSTRAINT OneStringASecond
INVARIANTS
    FailuresBounded
    ResetEndsSessions
    AnswersHold
PROPERTIES
    LockOutEnds
    ImplementsTokenRotation
