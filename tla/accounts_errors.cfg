SPECIFICATION Spec
CONSTANTS
    Requests = {r1, r2}
    Emails = {e1}
    Passwords = {p1}
    TooLong = {}
    MaxRetries = 1
    MaxFaults = 0
    AccessTtl = 1
    RefreshTtl = 2
    MaxTime = 1
INVARIANTS ErrorsAre4XX
CHECK_DEADLOCK FALSE
