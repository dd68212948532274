SPECIFICATION BeatSpec
CONSTANTS
  w1 = w1
  r1 = r1
  x1 = x1
  e1 = e1
  p1 = p1
  q1 = q1
  o1 = o1
  Proxy = Proxy
  Null = Null
  Invalid = Invalid
  Bursts = {p1, w1, q1}
  nb_input_port = 2
  Outputs = {o1}
  In <- PairIn
  Dest <- PairDest
  Write <- PairWrite
  NbBeats <- PairNbBeats
  BeatSize <- PairSize
  Alongside = {}
  width = 1
  max_input_pending_size = 1
  max_pending_bursts = 3
  shared_rw_channel = FALSE
  ProxyCmds = {}
INVARIANTS
  BurstAtomicity
