SPECIFICATION FairSpec
CONSTANTS
  Reqs = {"r1", "r2"}
  Size <- MCSize
  beat_width = 2
  Chunks = {2}
  Latencies = {0, 6}
INVARIANTS
  Inv
PROPERTIES
  ServiceSpec
  GrantedAnswered
