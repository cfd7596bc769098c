SPECIFICATION Spec
CONSTANTS
  k1 = k1  k2 = k2  v1 = v1  v2 = v2  bad = bad
  Keys = {k1, k2}
  Vals = {v1, v2, bad}
  Refused = {bad}
  MaxDay = 2
  Requests <- MCRequests
  Op <- MCOp
  Rebuilds = {}
  Tears = {"cut", "whole"}
  Faults = {"embed", "log"}
  MaxFaults = 1
  MaxCrashes = 1
INVARIANTS TypeOK  
PROPERTIES IsTimeTable EveryCallAnswered
CHECK_DEADLOCK FALSE
