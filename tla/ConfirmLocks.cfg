\* Three multi-key changes in one process: who holds what, and who waits.
SPECIFICATION FairSpec
CONSTANTS
    c1 = c1
    c2 = c2
    c3 = c3
    p1 = p1
    p2 = p2
    Change = {c1, c2, c3}
    Target = {1, 2, 3}
    Process = {p1}
    EnabledProcess = {p1}
    TargetsOf <- ChainOfChanges
    Results <- TwoResults
    AuditFaults = FALSE
    OnlineBackup = FALSE
CHECK_DEADLOCK FALSE
INVARIANT LocksSound
PROPERTY ConfirmsEnd
