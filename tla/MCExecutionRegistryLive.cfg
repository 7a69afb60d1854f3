\* Two dispatches, one caller of Drain and one of Close, under fairness.
SPECIFICATION LiveSpec
CONSTANTS
    g1 = g1
    d1 = d1
    d2 = d2
    Unaccounted = Unaccounted
    Groups <- MCNoGroup
    Drainers <- MCOneDrainer
    MaxDispatch = 2
    MaxBarrier = 0
    MaxRevision = 0
PROPERTIES
    DrainReturns
    CloseReturns
