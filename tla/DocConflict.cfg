\* A restore, a section update with a new title and a rename, and a colleague who
\* edits with the editor lock.
SPECIFICATION Spec
CONSTANTS
    c1 = c1
    c2 = c2
    c3 = c3
    s1 = s1
    s2 = s2
    plain = plain
    Change = {c1, c2, c3}
    Part = {s1, s2}
    Key = {plain}
    KeyOf <- OneSpelling
    PartOf <- OwnSections
    Renames = {c2, c3}
    RenamesOnly = {c3}
    Restores = {c1}
    HonoursLock = TRUE
    MaxEdits = 1
CHECK_DEADLOCK FALSE
INVARIANTS OutcomeIsTrue OneWritePerBaseline LeftLockIsReported
PROPERTY SnapshotHoldsReplaced
