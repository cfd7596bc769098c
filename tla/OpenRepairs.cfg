SPECIFICATION Spec
CONSTANTS
  k1 = k1  k2 = k2  v1 = v1  v2 = v2  bad = bad  b1 = b1
  Keys = {k1, k2}
  Vals = {v1, v2}
  Refused = {}
  MaxDay = 1
  Requests <- MCRequests
  Op <- MCOp
  Rebuilds = {}
  Tears = {}
  Faults = {}
  MaxFaults = 0
  MaxCrashes = 1
PROPERTY OpenRepairs
CHECK_DEADLOCK FALSE
