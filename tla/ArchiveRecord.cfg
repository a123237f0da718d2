\* Two archives of one record, a colleague who edits twice, crashes at any point
\* and requests that arrive late.
SPECIFICATION Spec
CONSTANTS
    c1 = c1
    c2 = c2
    r1 = r1
    r2 = r2
    active = active
    archive = archive
    v1 = v1
    v2 = v2
    Absent = Absent
    Blank = Blank
    Change = {c1, c2}
    Row = {r1}
    Table = {active, archive}
    Value = {v1, v2}
    From <- FromActive
    To <- ToArchive
    Moves <- MoveFirst
    First <- OneRecord
    MaxEdits = 2
CHECK_DEADLOCK FALSE
INVARIANTS OutcomeIsTrue JournalAhead RemovesOnlyCopied OneCopy
