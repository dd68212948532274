SPECIFICATION Spec
CONSTANTS
  a = a
  b = b
  c = c
  e = e
  o1 = o1
  o2 = o2
  x1 = x1
  x2 = x2
  x3 = x3
  Proxy = Proxy
  None = None
  Invalid = Invalid
  Reqs = {a, b}
  nb_input_port = 2
  Outputs = {o1, o2}
  In <- MCIn
  Addrs = {x1, x2, x3}
  Address <- MCAddress
  Dest <- MCDest
  Translated <- MCTranslated
  MastersRestore = FALSE
  Dur <- MCDur
  latency = 0
  EagerMasters = FALSE
  mapping_latency <- MCMappingLatency
  Loads <- RetryLoads
INVARIANTS
  Woken
