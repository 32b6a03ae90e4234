SPECIFICATION ReferenceSpec
CONSTANTS
  RefJoints = {j1}
  MaxTxn = 2
  MaxMishaps = 1
  MaxOrders = 2
  MaxDeferred = 1
INVARIANT JudgedInNewCoordinate
CHECK_DEADLOCK FALSE
