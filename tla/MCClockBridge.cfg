SPECIFICATION FairSpec
CONSTANTS
  Reqs = {r1, r2, r3}
  k_src_per_dir = 1
  k_dst_per_dir = 2
  depth = 2
  MayDeny = TRUE
INVARIANTS
  Inv
PROPERTIES
  ForwardFifo
  ServiceSpec
  Progress
