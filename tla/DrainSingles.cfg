CONSTANTS
  Templates   = {t1}
  OtherKinds  = {}
  MaxSize     = 1
  BackupCount = 2
  MaxLines    = 2
  MaxFiles    = 1
  MaxOutput   = 1
SPECIFICATION Spec
INVARIANT RepeatsAreSummedUp
CHECK_DEADLOCK FALSE
