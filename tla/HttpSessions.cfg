\* Three requests, two at a time, one session with two requests at a time.
SPECIFICATION FairServerSpec
CONSTANTS
    r1 = r1
    r2 = r2
    r3 = r3
    Request = {r1, r2, r3}
    MaxRequests = 2
    MaxSessions = 1
    MaxPerSession = 2
CHECK_DEADLOCK FALSE
INVARIANTS LimitsHold ClosedIsQuiet
PROPERTIES InUseKept ShutdownEnds
