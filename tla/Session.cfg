\* Up to four dongles that come and go between sessions; starts that fail.
CONSTANTS
  NumDongles  = 4
  TxCapable   = {2}
  Addrs       = {a1}
  NoAddr      = none
  MayFail     = {"quiet", "raise"}
  Threshold   = 1
  MinGap      = 1
  MaxAttempts = 1
SPECIFICATION FairSpec
INVARIANTS RolesAreHonoured StoppedIsClean WatchdogGivesUpOnce AssignedSniffersRun ReserveProtectsCoverage
PROPERTIES WedgedSniffersAreHandled
CONSTRAINT FewInTrouble
