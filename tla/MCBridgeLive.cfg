CONSTANTS
    None = None
    s1 = s1
    s2 = s2
    s3 = s3
    s4 = s4
    d1 = d1
    d2 = d2
    w1 = w1
    Son = {s1, s2, s3, s4}
    Deposit = {d1, d2}
    Later = {d2}
    Withdrawal = {w1}
    Councils <- MCCouncils
    Plans <- MCTimely
    MinSons = 2
    Retries = 5
    MaxOpen = 2
    MaxPending = 1
    MaxAhead = 1
    MaxComing = 1
    MaxReports = 1
SPECIFICATION BFairSpec
PROPERTIES  WithdrawalsSent 
CHECK_DEADLOCK FALSE
