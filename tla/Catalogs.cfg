SPECIFICATION Spec
CONSTANTS
    b1 = b1
    b2 = b2
    c1 = c1
    c2 = c2
    t1 = t1
    d1 = d1
    d2 = d2
    tab = tab
    x = x
    u = u
    Change = {c1}
    Transfer = {t1}
    Book = {b1, b2}
    Dir = {d1, d2}
    Table = {tab}
    Stranger = {x}
    Title = {u}
    Home <- OneTree
    Under <- Nested
    Depth = 5
    MaxEdits = 1
    MayCrash = TRUE
CHECK_DEADLOCK FALSE
INVARIANTS CatalogsKept OutcomeIsTrue TransferReconcilable
