\* A known deviation (README, section 4): two templates summed up in one tick.
CONSTANTS
  Templates   = {t1, t2}
  OtherKinds  = {}
  MaxSize     = 1
  BackupCount = 2
  MaxLines    = 6
  MaxFiles    = 1
  MaxOutput   = 4
SPECIFICATION Spec
INVARIANT SinkIsBounded
CHECK_DEADLOCK FALSE
