SPECIFICATION FairSpec
CONSTANTS
  r1 = r1
  r2 = r2
  r3 = r3
  Reqs = {r1, r2, r3}
  Addr <- MCAddr
  Size <- MCSize
  Bad <- MCBad
  InputWidth = 4
  OutputWidth = 2
  None = None
INVARIANTS
  Inv
PROPERTIES
  ServiceSpec
  Progress
