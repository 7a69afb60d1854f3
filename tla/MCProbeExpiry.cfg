\* Two keys that expire, a worker that scans and an operator that edits, under fairness.
SPECIFICATION LiveSpec
CONSTANTS
    k1 = k1
    k2 = k2
    NoKey = NoKey
    Keys <- MCTwoKeys
    FileKeys <- MCOneKey
    ProviderKeys <- MCTwoKeys
    ProbedKeys <- MCTwoKeys
    Hashes <- MCHashes2
    Payloads <- MCPayloadsTwo
    QueueCap = 1
    MaxBatch = 2
    MaxDeliveries = 1
    InitialKeys <- MCTwoRows
    AdminStatuses <- MCDisabled
    MaxEdits = 1
    MaxFaults = 1
    MaxTime = 2
    AutoPriority = TRUE
    AutoStatus = TRUE
    AutoCPA = TRUE
    RenewExpiry = TRUE
    Renewal = 1
    Boost = 1
    Penalty = 1
    MinPriority = 0
    MaxPriority = 2
    FailureThreshold = 2
    RecoveryThreshold = 1
    MaxActionsPerBatch = 1
    RowLimit = 50
INVARIANT
    RoutingFollowsStatus
PROPERTIES
    ProtectedStays
    DueKeysExpire
CHECK_DEADLOCK FALSE
