\* Two envelopes that follow each other on one wallet, one claimer, the job, crashes: liveness, and money left behind.
SPECIFICATION FollowedLiveSpec
CONSTANTS
    Envelopes = {e1, e2}
    Users = {u1}
    Wallets = {w1}
    Requests = {}
    Job = job
    Totals = {2}
    ClaimLimits = {1}
    MinAmount = 1
    MaxAmount = 1
    Multiplier = 2
    MaxDeposits = 1
    First = e1
    FirstTotal = 2
    FirstLimits = {1}
INVARIANTS SuccessWasPaid
PROPERTIES OverdueEnvelopesHandled ImplementsClaimLedger
CHECK_DEADLOCK FALSE
