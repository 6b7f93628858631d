\* A chain that grows to three blocks: both modes, lost answers, failing inserts, restarts.
SPECIFICATION LiveSpec
CONSTANTS
    Head = 2
    Workers = {w1}
    BlocksPerPoll = 2
    BlocksPerCommit = 3
    LiveModeThreshold = 1
    Connections = 2
INVARIANTS
    TypeOK
    HolesComeFromTornInserts
    PublishedAreCommitted
    OnlyFalseSuccessHalts
PROPERTIES
    LiveCatchesUp
    StagedUntilCommitted
