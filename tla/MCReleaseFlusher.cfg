\* One group, two releases, one failing send, one shutdown, one new lifetime
\* and two configurations, under fairness.
SPECIFICATION LiveSpec
CONSTANTS
    Groups = {g1}
    MaxSeq = 2
    Timings <- MCTimings
    Callers = {c1}
    NoCaller = NoCaller
    NoGroup = NoGroup
    MaxFaults = 1
    MaxLifetimes = 1
INVARIANTS
    NoTicketStranded
    FlushComplete
PROPERTIES
    ImplementsAccounting
    TicketsComplete
CHECK_DEADLOCK FALSE
