\* Four devices, of which at most three are clustered in one run.
CONSTANTS
  Devs        = {d1, d2, d3, d4}
  Classes     = {c1}
  NoClass     = none
  MaxPerClass = 3
SPECIFICATION FairSpec
INVARIANT ClustersAreSound
PROPERTIES ClustersOnlyGrow ImplementsPartition RunsEnd
