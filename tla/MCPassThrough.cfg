SPECIFICATION FairSpec
CONSTANTS
  Reqs = {r1, r2, r3}
  IsWrite = {r1, r2}
  Kinds = {"demux", "rw_splitter", "remapper"}
  Addrs = {1, 2, 3, 6}
  Width = 3
  offset = 1
  width = 2
  base = 2
  size = 2
  target_base = 3
INVARIANTS
  Inv
PROPERTIES
  MasterWoken
