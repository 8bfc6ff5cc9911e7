\* A known deviation (README, section 4): apply_run adds to earlier runs.
CONSTANTS
  Devs        = {d1, d2, d3, d4}
  Classes     = {c1}
  NoClass     = none
  MaxPerClass = 4
SPECIFICATION Spec
PROPERTY RunsReplaceClusters
