\* Two runs that may overlap, two records, one disturbance, under fairness.
SPECIFICATION LiveSpec
CONSTANTS
    Records = {r1, r2}
    Control = Control
    NoRecord = NoRecord
    Conns <- MCTwoRuns
    BufferCap = 1
    Retention = 0
    ForwardBatch = 2
    MaxEvents = 1
    Modes = {"auto", "resp"}
    Malformed = {}
    BatchSize = 2
INVARIANT
    NothingVanishes
PROPERTIES
    SubscriberNeverPolls
    CancelledRunEnds
CHECK_DEADLOCK FALSE
