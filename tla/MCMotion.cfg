SPECIFICATION MCSpec
CONSTANTS
    Joint = {j1, j2}
    Bus = {b1}
    Route <- MCRoute
    Watchdog = 1
    Quiet = 0
    BlackoutFrom = 0
    Deaf = 0
    Sensed = {}
    PromptWire = TRUE
    PromptDrain = FALSE
    Zeroed = {}
    Mortal = {}
    Faulty = {}
    StopFailures <- NoStopFailure
    MaxTx = 1
    MaxRx = 1
    NoValue = NoValue
    MaxSent = 3
    StdinLines = {"enable", "disable", "arm", "holdoff", "home"}
    ChappeSends = {"disable", "enable", "position"}
    MaxHeld = 2
    ChannelSize = 1
    Slices = 2
    Patience = 2
INVARIANTS PoseFollowsEnable NoFalseTrip MotionIsConsented IntentHolds AdmissionHolds
PROPERTIES ServoNeedsSession
SYMMETRY JointSymmetry
CONSTRAINT UntilLatched
