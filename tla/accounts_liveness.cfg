SPECIFICATION FairSpec
CONSTANTS
    Requests = {r1, r2}
    Emails = {e1}
    Passwords = {p1, p2}
    TooLong = {p2}
    MaxRetries = 1
    MaxFaults = 2
    AccessTtl = 1
    RefreshTtl = 2
    MaxTime = 1
PROPERTIES RequestsEnd MailSettles
\* requests are made once: when all are answered nothing more happens
CHECK_DEADLOCK FALSE
