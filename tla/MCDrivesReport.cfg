SPECIFICATION LossSpec
CONSTANTS
    Joint = {"shoulder", "elbow", "wrist"}
    Subtree <- MCSubtree
    Watchdog = 1
    Hold = 1
    Lower = 1
    Grace = 2
    Mortal = {"elbow", "wrist"}
    Returns = {"Reset"}
    Commands = {"enable", "mode", "lower"}
    Modes = {"GravityComp", "Position"}
    Hazardous = TRUE
    Refusing <- Accepting
    Paced = TRUE
    Stalls = FALSE
    NoTime = NoTime
INVARIANTS EpisodeReported
