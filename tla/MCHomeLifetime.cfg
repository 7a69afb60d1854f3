\* Two requests over a chain of lifetimes, three failures.
SPECIFICATION LiveSpec
CONSTANTS
    r1 = r1
    r2 = r2
    Requests <- MCRequests
    MaxLives = 6
    MaxFaults = 3
    Nobody = Nobody
INVARIANTS
    ExecutionsAreCounted
    NoSlotLeaks
    NoOrphans
    PublishedIsCurrent
    OrderlyEndReleasesAll
PROPERTIES
    Reconnects
    ShutdownEnds
CHECK_DEADLOCK FALSE
