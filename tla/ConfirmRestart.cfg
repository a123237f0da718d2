\* Two lives of the service, two changes that share a key; any INSERT into audit_events may fail.
SPECIFICATION Spec
CONSTANTS
    c1 = c1
    c2 = c2
    c3 = c3
    p1 = p1
    p2 = p2
    Change = {c1, c2}
    Target = {1, 2}
    Process = {p1, p2}
    EnabledProcess = {p1, p2}
    TargetsOf <- TwoChanges
    Results <- ThreeResults
    AuditFaults = TRUE
    OnlineBackup = FALSE
CHECK_DEADLOCK FALSE
INVARIANTS RecordsAreTrue DrainedMeansIdle
PROPERTIES RunsOnce LifeSpec OutcomeKept
