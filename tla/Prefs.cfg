\* Any order of edits, saves, failures and crashes.
CONSTANTS
  None    = none
  Keys    = {"general.db_path", "capture.coded_phy", "watchdog.max_attempts", "capture.log_level",
             "cluster.collapse_threshold", "cluster.log_level"}
  Edits   <- MCEdits
  Entries <- MCEntries
  Envs    <- MCEnvs
  Racks   <- MCRacks
  Spelt   <- MCSpelt
  CutsOff = {"values", "broken"}
SPECIFICATION PrefsSpec
INVARIANTS ValidButForNan SavedIsReloaded
PROPERTY CodedStaysOff
CHECK_DEADLOCK FALSE
