\* One key, three events in any order and with repeats, a full queue, one failure.
SPECIFICATION Spec
CONSTANTS
    k1 = k1
    k2 = k2
    NoKey = NoKey
    Keys <- MCOneKey
    FileKeys <- MCOneKey
    ProviderKeys <- MCOneKey
    ProbedKeys <- MCOneKey
    Hashes <- MCHashes3
    Payloads <- MCPayloadsOne
    QueueCap = 1
    MaxBatch = 2
    MaxDeliveries = 2
    InitialKeys <- MCUnknown
    AdminStatuses <- MCNoStatuses
    MaxEdits = 0
    MaxFaults = 1
    MaxTime = 1
    AutoPriority = TRUE
    AutoStatus = TRUE
    AutoCPA = TRUE
    RenewExpiry = FALSE
    Renewal = 1
    Boost = 1
    Penalty = 1
    MinPriority = 0
    MaxPriority = 2
    FailureThreshold = 2
    RecoveryThreshold = 1
    MaxActionsPerBatch = 1
    RowLimit = 50
INVARIANTS
    ActsOnce
    FailingKeyTakenOut
CHECK_DEADLOCK FALSE
