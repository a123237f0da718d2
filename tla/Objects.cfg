SPECIFICATION Spec
CONSTANTS
    c1 = c1
    c2 = c2
    o1 = o1
    o2 = o2
    mine = mine
    yours = yours
    Change = {c1, c2}
    Old = {o1, o2}
    Value = {mine, yours}
    First = mine
    Family = {"book", "document", "collaborator", "comment"}
    MaxEdits = 1
SYMMETRY Symmetry
CHECK_DEADLOCK FALSE
INVARIANTS OutcomeIsTrue BaselineReplaced NoTwinBooks
