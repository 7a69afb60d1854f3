\* One session and one request over a channel of two messages.
SPECIFICATION LiveSpec
CONSTANTS
    s1 = s1
    r1 = r1
    Sessions <- MCSessions
    Requests <- MCRequests
    BufferSize = 2
    MaxChunks = 3
    NoRequest = NoRequest
    NoSession = NoSession
INVARIANTS
    NoRequestStranded
    ResponseIntact
    CrashNeedsAnotherCloser
PROPERTY
    RequestsEnd
CHECK_DEADLOCK FALSE
