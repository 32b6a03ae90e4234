SPECIFICATION PiSpec
CONSTANTS
 MaxSent = 4
 StdinLines = {"enable","disable","arm","holdoff","home"}
 ChappeSends = {"disable","enable","position"}
 MaxHeld = 2
 ChannelSize = 1
 Slices = 2
 Patience = 2
INVARIANT DisableStands
CHECK_DEADLOCK FALSE
