SPECIFICATION Spec
CONSTANTS
    Requests = {r1, r2, r3}
    Emails = {e1}
    Passwords = {p1, p2, p3}
    TooLong = {p3}
    MaxRetries = 1
    MaxFaults = 2
    AccessTtl = 1
    RefreshTtl = 2
    MaxTime = 2
SYMMETRY Symmetry
INVARIANTS OneAccountPerEmail TokensNameUsers MailNamesAccount AccountHasMail MailBudget
PROPERTIES LoginAfterRegister
\* requests are made once: when all are answered nothing more happens
CHECK_DEADLOCK FALSE
