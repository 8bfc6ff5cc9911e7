\* Two readers, two devices, flushes that fail: no packet goes astray.
CONSTANTS
  Readers      = {r1, r2}
  Devs         = {d1, d2}
  Names        = {n1}
  NoDev        = noDev
  NoName       = noName
  Cap          = 2
  Window       = 0
  FlushMayFail = TRUE
  MaxPackets   = 3
  MaxTime      = 1
SPECIFICATION FairSpec
INVARIANTS EveryPacketIsAccountedFor StopLosesAtMostOnePerReader RecordedCountsCommittedRows CacheIsCurrentUntilRollback
PROPERTIES CreditsUntilRollback QueueIsDrained
CONSTRAINT TwoOrThree
\* the session ends
CHECK_DEADLOCK FALSE
