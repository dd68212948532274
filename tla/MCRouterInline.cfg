SPECIFICATION FairSpec
CONSTANTS
  a = a
  b = b
  c = c
  e = e
  o1 = o1
  o2 = o2
  Proxy = Proxy
  None = None
  Invalid = Invalid
  Reqs = {a, b, c, e}
  nb_input_port = 2
  Outputs = {o1, o2}
  In <- MCIn
  Dest <- MCDest
  ProxyDests = {o1, Invalid}
INVARIANTS
  Inv
  Woken
PROPERTIES
  Progress
