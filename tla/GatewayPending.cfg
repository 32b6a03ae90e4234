INIT GatewayInit
NEXT GatewayNext
CONSTANTS
  Patches = {p1, p2}
  MaxEvents = 2
  MaxChanges = 2
  MaxModes = 2
INVARIANT PendingUntilReported
CHECK_DEADLOCK FALSE
