\* Files of up to three advertisements; a statement raises.
CONSTANTS
  None          = none
  Other         = other
  OuiKnown      <- MCOui
  Records       <- HangRecords
  Frames        = {}
  OnAir         <- MCOnAir
  WithUuidLists = FALSE
  MaxRecords    = 3
  MaxFrames     = 0
  MaxSessions   = 1
  OutCap        = 1
  ErrCap        = 1
  MaxWarnings   = 0
  MayFail       = {"db"}
SPECIFICATION FairSpec
PROPERTY FailureRollsBack
CHECK_DEADLOCK FALSE
