SPECIFICATION Spec
CONSTANTS
    Pages = {p1, p2}
    Users = {alice, bob}
    Calls = {c1}
    MaxPairs = 2
    MaxClicks = 3
    None = None
SYMMETRY Interchangeable
INVARIANTS
    TypeOK
    CredentialsOfOneUser
    WaitingCallsAreAwaited
PROPERTIES
    SessionEndsForACause
CHECK_DEADLOCK FALSE
