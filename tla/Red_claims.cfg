\* A published envelope of 3 with one or two turns, two claimers, one owner request beside the job that ends before end_date.
SPECIFICATION PublishedInTimeSpec
CONSTANTS
    Envelopes = {e1}
    Users = {u1, u2}
    Wallets = {w1}
    Requests = {r1}
    Job = job
    Totals = {3}
    ClaimLimits = {1, 2}
    MinAmount = 1
    MaxAmount = 2
    Multiplier = 2
    MaxDeposits = 1
    First = e1
    FirstTotal = 3
    FirstLimits = {1, 2}
SYMMETRY Interchangeable
INVARIANTS CountMatchesClaims PromisesWithinTotal OnlyRepeatsLock
CHECK_DEADLOCK FALSE
