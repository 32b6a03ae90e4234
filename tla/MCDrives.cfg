SPECIFICATION MCSpec
CONSTANTS
    Joint = {"shoulder", "elbow", "wrist"}
    Subtree <- MCSubtree
    Watchdog = 1
    Hold = 1
    Lower = 1
    Grace = 1
    Mortal = {"elbow", "wrist"}
    Returns = {"Run"}
    Commands = {"enable", "mode", "lower"}
    Modes = {"Disabled", "Position"}
    Hazardous = TRUE
    Refusing <- SomeRefused
    Paced = TRUE
    Stalls = FALSE
    NoTime = NoTime
INVARIANTS
    ShedNeverCommanded ShedIsOwned EpisodeIsTold BusHolds ReportingHolds
PROPERTIES ArmIsKept
