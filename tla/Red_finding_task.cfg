\* The expiry job beside an owner request and a claim that comes too late.
SPECIFICATION LiveSpec
CONSTANTS
    Envelopes = {e1}
    Users = {u1}
    Wallets = {w1}
    Requests = {r1}
    Job = job
    Totals = {2}
    ClaimLimits = {1}
    MinAmount = 1
    MaxAmount = 2
    Multiplier = 2
    MaxDeposits = 1
    First = e1
    FirstTotal = 2
    FirstLimits = {1}
PROPERTIES TaskRunsOnInterval
CHECK_DEADLOCK FALSE
