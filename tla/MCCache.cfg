SPECIFICATION FairSpec
CONSTANTS
  r1 = r1
  r2 = r2
  r3 = r3
  None = None
  Reqs = {r1, r2, r3}
  Tag <- MCTag
  NoData = {}
  nb_sets = 1
  Ways = {1, 2}
  cfg_enabled = TRUE
INVARIANTS
  Inv
  EveryWayReplaced
PROPERTIES
  QueueDrains
