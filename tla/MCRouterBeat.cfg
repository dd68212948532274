SPECIFICATION BeatSpec
CONSTANTS
  w1 = w1
  r1 = r1
  x1 = x1
  e1 = e1
  p1 = p1
  q1 = q1
  o1 = o1
  Proxy = Proxy
  Null = Null
  Invalid = Invalid
  Bursts = {w1, r1, x1, e1}
  nb_input_port = 2
  Outputs = {o1}
  In <- MCIn
  Dest <- MCDest
  Write <- MCWrite
  NbBeats <- MCNbBeats
  BeatSize <- MCSize
  Alongside = {}
  width = 1
  max_input_pending_size = 1
  max_pending_bursts = 2
  shared_rw_channel = FALSE
  ProxyCmds <- MCCmds
INVARIANTS
  BeatInv
  Woken
