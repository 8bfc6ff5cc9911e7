\* Two generations; one thread stands for the three, which differ little.
CONSTANTS
  HopSets   = {h1, h2}
  Addrs     = {a1}
  NoAddr    = none
  Kinds     = {"capture"}
  PipeSize  = 1
  MaxStarts = 2
  MaxCtrl   = 1
  MayFail   = {"spawn", "early", "slow"}
SPECIFICATION FairSpec
INVARIANTS StoppedMeansGone ReadersAreCurrent TunedAsStated
PROPERTIES CallsReturn PipesAreDrained
CONSTRAINT EarlyAlone
