SPECIFICATION Spec
CONSTANTS
  k1 = k1  k2 = k2  k3 = k3  one = one  other = other
  NFiles = 3
  Texts <- MCTexts
  Keys = {k1, k2, k3}
  Streams = {one, other}
  Watched <- MCWatched
  Batch = 2
  Mishaps = {"open", "chain", "middle", "save", "crash"}
  MaxMishaps = 2

INVARIANTS TypeOK NothingSkipped
PROPERTIES  StopSweeps IsDelivery 
