SPECIFICATION MCSpec
CONSTANTS
    Joint = {"elbow", "wrist"}
    Bound = {1, 2}
    Gain = {0, 1}
    MaxCommands = 3
    CanFail = TRUE
    CanSyncFail = TRUE
    CanUnwind = TRUE
    MaxJobs = 2
    Lives = 2
    CreditCapacity = 2
    JournalEvents = 2
    MaxSession = 3
INVARIANTS NothingForgotten DiskIsLive JournalAccounts
PROPERTIES DurableIsOnDisk ImplementsLedger WorkersAnswer
