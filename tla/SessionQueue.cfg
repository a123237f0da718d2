\* Two requests beside a login and logouts, with an old single-tenant file.
SPECIFICATION FairSpec
CONSTANTS
    r1 = r1
    r2 = r2
    r3 = r3
    l1 = l1
    l2 = l2
    Request = {r1, r2}
    Login = {l1}
    Idempotent = {r1}
    Legacy = TRUE
CHECK_DEADLOCK FALSE
INVARIANTS CookiesKept WholeFile
PROPERTY RequestsEnd
