\* One envelope, one claimer, two deposits of the right or a wrong amount, one owner request beside the job that ends before end_date.
SPECIFICATION InTimeSpec
CONSTANTS
    Envelopes = {e1}
    Users = {u1}
    Wallets = {w1}
    Requests = {r1}
    Job = job
    Totals = {2}
    ClaimLimits = {1}
    MinAmount = 1
    MaxAmount = 1
    Multiplier = 2
    MaxDeposits = 2
    First = e1
    FirstTotal = 2
    FirstLimits = {1}
INVARIANTS TypeOK ClaimsWereFunded
PROPERTIES EndedEnvelopesStayEnded
CHECK_DEADLOCK FALSE
