\* The extcap dies on start-up.
CONSTANTS
  HopSets   = {h1}
  Addrs     = {}
  NoAddr    = none
  Kinds     = {"capture", "stderr"}
  PipeSize  = 1
  MaxStarts = 1
  MaxCtrl   = 1
  MayFail   = {"early"}
SPECIFICATION FairSpec
PROPERTY EarlyErrorsSurface
CHECK_DEADLOCK FALSE
