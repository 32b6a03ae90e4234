SPECIFICATION MCSpec
CONSTANTS
    Joint = {j1}
    Bus = {b1}
    Route <- MCRoute
    Watchdog = 1
    Quiet = 0
    BlackoutFrom = 0
    Deaf = 0
    Sensed = {}
    PromptWire = FALSE
    PromptDrain = FALSE
    Zeroed = {}
    Mortal = {j1}
    Faulty = {}
    StopFailures <- NoStopFailure
    MaxTx = 1
    MaxRx = 1
PROPERTIES PromisesAreKept
