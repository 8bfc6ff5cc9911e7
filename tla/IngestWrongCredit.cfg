\* A flush that fails after the insert of a device.
CONSTANTS
  Readers      = {r1, r2}
  Devs         = {d1, d2}
  Names        = {}
  NoDev        = noDev
  NoName       = noName
  Cap          = 1
  Window       = 1
  FlushMayFail = TRUE
  MaxPackets   = 3
  MaxTime      = 0
SPECIFICATION Spec
PROPERTY CreditsTheLastTransmitter
\* the session ends
CHECK_DEADLOCK FALSE
