SPECIFICATION MCSpec
CONSTANTS
    Joint = {j1}
    Bus = {b1}
    Route <- MCRoute
    Watchdog = 2
    Quiet = 0
    BlackoutFrom = 0
    Deaf = 0
    Sensed = {}
    PromptWire = FALSE
    PromptDrain = FALSE
    Zeroed = {}
    Mortal = {}
    Faulty = {j1}
    StopFailures <- MCStopFailures
    MaxTx = 2
    MaxRx = 2
    RefJoints = {"elbow"}
    MaxTxn = 2
    MaxMishaps = 1
    MaxOrders = 1
    MaxDeferred = 1
INVARIANTS
    SessionTypeOK LatchedMeansStopped PoseFollowsEnable  NoUnnoticedRun
    ZeroGateHolds ReferenceHolds
PROPERTIES ServoNeedsSession
