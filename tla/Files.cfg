\* Two sessions of files or live frames; tshark fails, the user quits.
CONSTANTS
  None          = none
  Other         = other
  OuiKnown      <- MCOui
  Records       <- MCRecords
  Frames        <- MCFrames
  OnAir         <- MCOnAir
  WithUuidLists = FALSE
  MaxRecords    = 2
  MaxFrames     = 2
  MaxSessions   = 2
  OutCap        = 1
  ErrCap        = 1
  MaxWarnings   = 1
  MayFail       = {"tshark", "db", "quit"}
SPECIFICATION Spec
INVARIANTS FileSessionsAreComplete NoGhostDevices
PROPERTY ClassOnlySharpens
CHECK_DEADLOCK FALSE
