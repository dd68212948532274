SPECIFICATION LogIcoSpec
CONSTANTS
  nb_masters = 3
  nb_slaves = 2
  Widths = {0, 1}
  Addrs = {1, 6}
  MaxDenied = 1
  Eager = {2}
INVARIANTS
  TwoAccesses
