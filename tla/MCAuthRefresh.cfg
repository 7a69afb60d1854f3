SPECIFICATION RFairSpec
CONSTANTS
    Auths = {a1}
    Models = {m1}
    Procs = {p1, w1}
    Workers = {w1}
    Outcomes = {"ok", "unauthorized"}
    NoModel = NoModel
    NoAuth = NoAuth
    NoState = NoState
    LongCooldown = 1
    TransientCooldown = 1
    RetryAfter = 1
    ChallengeCooldown = 1
    QuotaBackoffMax = 2
    MaxTime = 2
    MaxTokens = 3
    MaxOps = 1
    Cooling = FALSE
    Requested = {m1}
    JobBuffer = 1
    FirstDue = 2
    Lifetime = 1
    PendingBackoff = 1
    FailureBackoff = 1
    IneffectiveBackoff = 1
INVARIANT
    RefreshScheduled
PROPERTIES
    RefreshTokenUsedOnce
    DueIsRefreshed
CHECK_DEADLOCK FALSE
