SPECIFICATION Spec
CONSTANTS
  Keys = {k1, k2}
  Vals = {v1, v2, bad}
  Refused = {bad}
  MaxDay = 3
INVARIANTS TypeOK Lifetimes
PROPERTY PastIsSettled
