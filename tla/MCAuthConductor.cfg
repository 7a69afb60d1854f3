SPECIFICATION Spec
CONSTANTS
    Auths = {a1}
    Models = {m1}
    Procs = {p1, p2}
    Outcomes = {"ok", "quota", "challenge", "retry_after"}
    NoModel = NoModel
    NoAuth = NoAuth
    NoState = NoState
    LongCooldown = 2
    TransientCooldown = 1
    RetryAfter = 1
    ChallengeCooldown = 1
    QuotaBackoffMax = 3
    MaxTime = 2
    MaxTokens = 2
    MaxOps = 4
    Cooling = TRUE
    Requested = {m1, NoModel}
INVARIANTS
    CooldownsAreSaved
    BackoffIsEarned
PROPERTIES
    RemovedStaysRemoved
    RestartKeepsCooldowns
SYMMETRY MCSymmetry
CHECK_DEADLOCK FALSE
