\* Two dispatches, two barriers and two snapshots, beside a Close.
SPECIFICATION Spec
CONSTANTS
    g1 = g1
    d1 = d1
    d2 = d2
    Unaccounted = Unaccounted
    Groups <- MCNoGroup
    Drainers <- MCNoDrainer
    MaxDispatch = 2
    MaxBarrier = 2
    MaxRevision = 2
INVARIANT
    BarrierSound
PROPERTY
    SnapshotComplete
