CONSTANTS
  Devs        = {d1, d2}
  Classes     = {c1, c2}
  NoClass     = none
  MaxPerClass = 2
SPECIFICATION Spec
INVARIANT MergesAreWithinAClass
