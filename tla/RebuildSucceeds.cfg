SPECIFICATION Spec
CONSTANTS
  k1 = k1  k2 = k2  v1 = v1  v2 = v2  bad = bad  b1 = b1
  Keys = {k1, k2}
  Vals = {v1, bad}
  Refused = {bad}
  MaxDay = 1
  Requests <- BadRequests
  Op <- BadOp
  Rebuilds = {b1}
  Tears = {}
  Faults = {}
  MaxFaults = 0
  MaxCrashes = 0
INVARIANT RebuildSucceeds
CHECK_DEADLOCK FALSE
