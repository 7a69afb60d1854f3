\* Two dispatches, two callers of Drain and one of Close; no barriers.
SPECIFICATION Spec
CONSTANTS
    g1 = g1
    d1 = d1
    d2 = d2
    Unaccounted = Unaccounted
    Groups <- MCOneGroup
    Drainers <- MCTwoDrainers
    MaxDispatch = 2
    MaxBarrier = 0
    MaxRevision = 0
SYMMETRY MCSymmetry
INVARIANTS
    NoLostWakeup
    DrainCancelsAll
    CloseLeavesNoResource
    SinkCaughtUp
PROPERTY
    CopyMissesNothing
