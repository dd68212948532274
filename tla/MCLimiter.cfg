SPECIFICATION FairSpec
CONSTANTS
  r1 = r1
  r2 = r2
  Reqs = {r1, r2}
  Size <- MCSize
  Bad <- MCBad
  Bandwidth = 2
  None = None
INVARIANTS
  Inv
  BytesConserved
  WakeupHeld
PROPERTIES
  ServiceSpec
  Progress
