SPECIFICATION DialogSpec
CONSTANTS
    u1 = u1
    User = {u1}
    Attempt = {1, 2}
    Funds = 2
    MaxOther = 1
    Amount = {2}
    MaxPolls = 1
INVARIANTS
    VerdictIsTrue
PROPERTIES
    PaymentsMatch
    AttemptsEnd
CHECK_DEADLOCK FALSE
