\* Known deviations (README, section 4): nan left in a file, and a save that
\* fails or crashes where a comment has a dash.
CONSTANTS
  None    = none
  Keys    = {"capture.coded_phy", "capture.log_level", "cluster.collapse_threshold", "cluster.log_level"}
  Edits   <- NanEdits
  Entries <- NoEntries
  Envs    <- NoEnvs
  Racks   <- NoRacks
  Spelt   <- MCSpelt
  CutsOff = {"undecodable"}
SPECIFICATION PrefsSpec
INVARIANTS PrefsAreValid PrefsAreAvailable
CHECK_DEADLOCK FALSE
