\* A stall that is counted.
CONSTANTS
  Serialled = {s1}
  Plain     = {u1}
  Others    = {o1}
  Kits      = {s1}
  NoUnit    = noUnit
  NumPorts  = 2
  MayFail   = {}
  MaxStalls = 1
  MaxPlugs  = 3
SPECIFICATION Spec
INVARIANT StallsShowABadge
